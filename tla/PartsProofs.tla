----------------------------- MODULE PartsProofs -----------------------------
(***************************************************************************)
(* The parts that stand beside the analysis service: a dataset that was    *)
(* restored from its manifest, the releases of the models, the progress of *)
(* an analysis, the tools of an agent's session and the rounds the         *)
(* simulation tool plays.                                                  *)
(***************************************************************************)
EXTENDS DatasetFiles, ModelReleases, AnalysisEvents, AgentHarness, RoundSimulator,
        SequenceTheorems, FiniteSetTheorems, TLAPS

-----------------------------------------------------------------------------
(***************************************************************************)
(* A dataset that was restored stays whole, for any number of files,       *)
(* commands and chunks of budget: a command that runs over a settled       *)
(* directory asks for nothing the manifest lists.                          *)
(***************************************************************************)

\* What a command in progress has reached: every locked file before the one at
\* hand is verified, a file that is fetched into a settled directory is none
\* the manifest lists, and a stream has a whole document of each file so far.
FetchIsSound ==
    /\ fetch.command # "none" => fetch.at \in 1..(NumFiles + 1)
    /\ fetch.response # "missing" => fetch.command # "none" /\ fetch.at \in Files
    /\ fetch.command = "locked" =>
          \A f \in DOMAIN manifest : f < fetch.at => onDisk[f] = manifest[f]
    /\ fetch.response # "missing" /\ fetch.command = "locked" => fetch.at \in DOMAIN manifest
    /\ fetch.response # "missing" /\ fetch.command # "stream" /\ settled =>
          fetch.at \notin DOMAIN manifest
    /\ fetch.command = "stream" =>
          /\ fetch.made \in Seq(Contents) /\ Len(fetch.made) = fetch.at - 1
          /\ \A k \in 1..Len(fetch.made) : fetch.made[k] # "cut"
    /\ snapshots \in Seq(Contents)

Fetch == [command : Commands \cup {"none"}, at : 0..(NumFiles + 1), spent : Nat,
          response : Contents \cup {"missing"}, got : Nat, made : Seq(Contents)]

DatasetInv == DatasetTypeOK /\ fetch \in Fetch /\ FetchIsSound /\ DatasetIsWhole

-----------------------------------------------------------------------------
\* No command is in progress (NoFetch): nothing is asked of it.
LEMMA NoFetchIsSound ==
    /\ NoFetch \in Fetch
    /\ NoFetch.command = "none" /\ NoFetch.response = "missing" /\ NoFetch.spent = 0
    /\ NoFetch.got = 0 /\ NoFetch.at = 0
BY DatasetAssumption DEF NoFetch, Fetch

\* At first there is no command, no file and no output (DatasetInit).
LEMMA InitDatasetInv == DatasetInit => DatasetInv
<1>. SUFFICES ASSUME DatasetInit PROVE DatasetInv
  OBVIOUS
<1>1. fetch \in Fetch /\ FetchIsSound
  BY NoFetchIsSound DEF DatasetInit, FetchIsSound
<1>2. PICK locked \in SUBSET Files : manifest = [f \in locked |-> "full"]
  BY DEF DatasetInit
<1>4. /\ onDisk = [f \in Files |-> "missing"] /\ settled = FALSE /\ runs = 0
      /\ fetch.command = "none" /\ fetch.at = 0 /\ fetch.spent = 0
      /\ fetch.response = "missing" /\ fetch.got = 0
  BY NoFetchIsSound DEF DatasetInit
<1>5. DOMAIN manifest \subseteq Files /\ \A f \in DOMAIN manifest : manifest[f] \in Contents
  BY <1>2 DEF Contents
<1>6. DatasetTypeOK
  <2>1. onDisk \in [Files -> Contents \cup {"missing"}]
    BY <1>4
  <2>2. runs \in 0..MaxRuns /\ fetch.at \in 0..(NumFiles + 1) /\ fetch.spent \in Nat /\ fetch.got \in Nat
    BY <1>4, DatasetAssumption
  <2>3. settled \in BOOLEAN /\ fetch.command \in Commands \cup {"none"}
        /\ fetch.response \in Contents \cup {"missing"}
    BY <1>4
  <2>. QED BY <1>5, <2>1, <2>2, <2>3 DEF DatasetTypeOK
<1>3. DatasetIsWhole
  BY DatasetAssumption, NoFetchIsSound DEF DatasetInit, DatasetIsWhole
<1>. QED BY <1>1, <1>6, <1>3 DEF DatasetInv

\* Ending a command, however it ends, leaves a sound state.
LEMMA EndingIsSound ==
    ASSUME DatasetInv, fetch' = NoFetch, UNCHANGED <<onDisk, manifest, settled, snapshots, runs>>
    PROVE  DatasetInv'
<1>1. fetch' \in Fetch /\ FetchIsSound'
  BY NoFetchIsSound DEF DatasetInv, FetchIsSound
<1>2. DatasetTypeOK'
  BY DatasetAssumption, NoFetchIsSound DEF DatasetInv, DatasetTypeOK, Contents, Commands
<1>3. DatasetIsWhole'
  BY DatasetAssumption, NoFetchIsSound DEF DatasetInv, DatasetIsWhole, Intact
<1>. QED BY <1>1, <1>2, <1>3 DEF DatasetInv

\* Every step of a command keeps the invariant.
LEMMA DatasetInvStep == DatasetInv /\ [DatasetNext]_datasetVars => DatasetInv'
<1>. SUFFICES ASSUME DatasetInv, [DatasetNext]_datasetVars PROVE DatasetInv'
  OBVIOUS
<1>. USE DatasetAssumption DEF DatasetInv, Files
<1>1. ASSUME NEW command \in Commands, StartCommand(command) PROVE DatasetInv'
  <2>1. fetch' = [NoFetch EXCEPT !.command = command, !.at = 1]
        /\ UNCHANGED <<onDisk, manifest, settled, snapshots>> /\ runs' = runs + 1 /\ runs < MaxRuns
    BY <1>1 DEF StartCommand
  <2>2. fetch' = [command |-> command, at |-> 1, spent |-> 0, response |-> "missing", got |-> 0, made |-> <<>>]
    BY <2>1 DEF NoFetch
  <2>3. fetch' \in Fetch
    BY <2>2 DEF Fetch
  <2>4. fetch'.command = command /\ fetch'.at = 1 /\ fetch'.response = "missing" /\ fetch'.spent = 0
        /\ fetch'.got = 0 /\ fetch'.made = <<>>
    BY <2>2
  <2>5. FetchIsSound'
    <3>1. command = "locked" => \A f \in DOMAIN manifest : f < 1 => onDisk[f] = manifest[f]
      BY DEF DatasetTypeOK
    <3>2. snapshots \in Seq(Contents) /\ <<>> \in Seq(Contents) /\ Len(<<>>) = 0
      BY DEF FetchIsSound
    <3>3. fetch'.at \in 1..(NumFiles + 1) /\ fetch'.at - 1 = 0
      BY <2>4
    <3>4. fetch'.command = "stream" =>
             /\ fetch'.made \in Seq(Contents) /\ Len(fetch'.made) = fetch'.at - 1
             /\ \A k \in 1..Len(fetch'.made) : fetch'.made[k] # "cut"
      BY <2>4, <3>2, <3>3
    <3>5. fetch'.command = "locked" =>
             \A f \in DOMAIN manifest' : f < fetch'.at => onDisk'[f] = manifest'[f]
      BY <2>1, <2>4, <3>1
    <3>6. fetch'.response = "missing" /\ snapshots' \in Seq(Contents)
      BY <2>1, <2>4, <3>2
    <3>. QED BY <3>3, <3>4, <3>5, <3>6 DEF FetchIsSound
  <2>6. DatasetTypeOK'
    <3>1. runs' \in 0..MaxRuns
      BY <2>1 DEF DatasetTypeOK
    <3>. QED BY <2>1, <2>4, <3>1 DEF DatasetTypeOK
  <2>7. DatasetIsWhole'
    BY <2>1, <2>4 DEF DatasetIsWhole, Intact
  <2>. QED BY <2>3, <2>5, <2>6, <2>7
\* A manifest is made only between two commands.
<1>2. CASE Lock
  <2>1. fetch.command = "none" /\ fetch.response = "missing" /\ settled' = FALSE
        /\ manifest' = [f \in Present |-> onDisk[f]] /\ UNCHANGED <<onDisk, fetch, snapshots, runs>>
    BY <1>2 DEF Lock, FetchIsSound
  <2>2. FetchIsSound'
    BY <2>1 DEF FetchIsSound
  <2>3. DatasetTypeOK'
    BY <2>1 DEF DatasetTypeOK, Present
  <2>4. DatasetIsWhole'
    BY <2>1 DEF DatasetIsWhole
  <2>. QED BY <2>1, <2>2, <2>3, <2>4
<1>3. ASSUME NEW lost \in SUBSET Files, LoseFiles(lost) PROVE DatasetInv'
  <2>1. fetch.command = "none" /\ fetch.response = "missing" /\ settled' = FALSE
        /\ UNCHANGED <<manifest, fetch, snapshots, runs>>
        /\ onDisk' = [f \in Files |-> IF f \in lost THEN "missing" ELSE onDisk[f]]
    BY <1>3 DEF LoseFiles, FetchIsSound
  <2>2. FetchIsSound'
    BY <2>1 DEF FetchIsSound
  <2>3. DatasetTypeOK'
    BY <2>1 DEF DatasetTypeOK
  <2>4. DatasetIsWhole'
    BY <2>1 DEF DatasetIsWhole
  <2>. QED BY <2>1, <2>2, <2>3, <2>4
\* A locked file that is skipped is verified.
<1>4. CASE SkipFile
  <2>1. /\ fetch.command \in Commands /\ At \in Files /\ fetch.response = "missing" /\ Skips(At)
        /\ fetch' = [fetch EXCEPT !.at = @ + 1]
        /\ UNCHANGED <<onDisk, manifest, settled, snapshots, runs>>
    BY <1>4 DEF SkipFile, Waiting
  <2>2. fetch.command # "stream"
    BY <2>1 DEF Skips
  <2>3. fetch' \in Fetch /\ fetch'.at = fetch.at + 1 /\ fetch'.command = fetch.command
        /\ fetch'.response = "missing" /\ fetch'.spent = fetch.spent /\ fetch'.got = fetch.got
    BY <2>1 DEF Fetch, At
  <2>4. fetch.command = "locked" => \A f \in DOMAIN manifest : f < fetch'.at => onDisk[f] = manifest[f]
    BY <2>1, <2>3 DEF FetchIsSound, Skips, Verified, At, DatasetTypeOK
  <2>5. FetchIsSound'
    BY <2>1, <2>2, <2>3, <2>4 DEF FetchIsSound, At
  <2>6. DatasetTypeOK'
    BY <2>1, <2>3 DEF DatasetTypeOK, At
  <2>7. DatasetIsWhole'
    BY <2>1, <2>3 DEF DatasetIsWhole, Intact
  <2>. QED BY <2>3, <2>5, <2>6, <2>7
\* What a settled manifest lists is there and verified, so it is not asked for.
<1>5. ASSUME NEW content \in Contents, NEW announced \in BOOLEAN, OpenResponse(content, announced)
      PROVE DatasetInv'
  <2>1. /\ fetch.command \in Commands /\ At \in Files /\ fetch.response = "missing" /\ ~Skips(At)
        /\ fetch' = [fetch EXCEPT !.response = content]
        /\ UNCHANGED <<onDisk, manifest, settled, snapshots, runs>>
    BY <1>5 DEF OpenResponse, Waiting
  <2>2. fetch' \in Fetch /\ fetch'.at = fetch.at /\ fetch'.command = fetch.command /\ fetch'.made = fetch.made
        /\ fetch'.response = content /\ fetch'.spent = fetch.spent /\ fetch'.got = fetch.got
    BY <2>1 DEF Fetch
  <2>3. fetch.command = "locked" => At \in DOMAIN manifest /\ ~Verified(At)
    BY <2>1 DEF Skips
  <2>4. fetch.command # "stream" /\ settled => At \notin DOMAIN manifest
    <3>1. CASE fetch.command = "locked"
      BY <2>1, <2>3, <3>1 DEF DatasetIsWhole, Intact, Verified, DatasetTypeOK, Contents
    <3>2. CASE fetch.command = "sidecars"
      BY <2>1, <3>2 DEF Skips, DatasetIsWhole, Intact, DatasetTypeOK, Contents
    <3>. QED BY <2>1, <3>1, <3>2 DEF Commands
  <2>5. FetchIsSound'
    <3>1. fetch.command # "none" /\ fetch.at \in Files
      BY <2>1 DEF Commands, At
    <3>. QED BY <2>1, <2>2, <2>3, <2>4, <3>1 DEF FetchIsSound, At
  <2>6. DatasetTypeOK'
    BY <2>1, <2>2 DEF DatasetTypeOK
  <2>7. DatasetIsWhole'
    BY <2>1, <2>2 DEF DatasetIsWhole, Intact
  <2>. QED BY <2>2, <2>5, <2>6, <2>7
<1>6. CASE CopyChunk
  <2>1. /\ fetch.response # "missing" /\ fetch.spent + fetch.got + 1 <= Budget
        /\ fetch' = [fetch EXCEPT !.got = @ + 1]
        /\ UNCHANGED <<onDisk, manifest, settled, snapshots, runs>>
    BY <1>6 DEF CopyChunk, Copying
  <2>2. fetch' \in Fetch /\ fetch'.at = fetch.at /\ fetch'.command = fetch.command /\ fetch'.made = fetch.made
        /\ fetch'.response = fetch.response /\ fetch'.spent = fetch.spent /\ fetch'.got = fetch.got + 1
    BY <2>1 DEF Fetch
  <2>3. FetchIsSound'
    BY <2>1, <2>2 DEF FetchIsSound
  <2>4. DatasetTypeOK'
    BY <2>1, <2>2 DEF DatasetTypeOK
  <2>5. DatasetIsWhole'
    BY <2>1, <2>2 DEF DatasetIsWhole, Intact, Fetch
  <2>. QED BY <2>2, <2>3, <2>4, <2>5
<1>7. CASE Fail
  BY <1>7, EndingIsSound DEF Fail
\* A file is replaced only if the manifest of a settled directory does not list it.
<1>8. CASE FinishFile
  <2>1. /\ fetch.response \in Contents /\ fetch.response # "missing" /\ fetch.command # "stream"
        /\ fetch.command # "none" /\ At \in 1..NumFiles
        /\ onDisk' = [onDisk EXCEPT ![At] = fetch.response]
        /\ UNCHANGED <<manifest, settled, snapshots, runs>>
    BY <1>8 DEF FinishFile, Copying, FetchIsSound, DatasetTypeOK, At
  <2>2. settled' => Intact'
    BY <2>1 DEF FetchIsSound, DatasetIsWhole, Intact, DatasetTypeOK, At
  <2>3. onDisk' \in [Files -> Contents \cup {"missing"}]
    BY <2>1 DEF DatasetTypeOK
  <2>4. CASE fetch.command = "locked" /\ fetch.response # manifest[At]
    <3>1. fetch' = NoFetch
      BY <1>8, <2>4 DEF FinishFile
    <3>2. fetch' \in Fetch /\ FetchIsSound'
      BY <2>1, <3>1, NoFetchIsSound DEF FetchIsSound
    <3>3. DatasetTypeOK'
      BY <2>1, <2>3, <3>1, NoFetchIsSound DEF DatasetTypeOK
    <3>4. DatasetIsWhole'
      BY <2>1, <2>2, <3>1, NoFetchIsSound DEF DatasetIsWhole
    <3>. QED BY <3>2, <3>3, <3>4
  <2>5. CASE ~(fetch.command = "locked" /\ fetch.response # manifest[At])
    <3>1. fetch' = [fetch EXCEPT !.at = @ + 1, !.spent = @ + fetch.got, !.response = "missing", !.got = 0]
      BY <1>8, <2>5 DEF FinishFile
    <3>2. fetch' \in Fetch /\ fetch'.at = fetch.at + 1 /\ fetch'.command = fetch.command
          /\ fetch'.response = "missing" /\ fetch'.spent = fetch.spent + fetch.got /\ fetch'.got = 0
      <4>1. fetch.at + 1 \in 0..(NumFiles + 1) /\ fetch.spent + fetch.got \in Nat
        BY <2>1 DEF Fetch, At
      <4>. QED BY <3>1, <4>1 DEF Fetch
    <3>3. fetch.command = "locked" => \A f \in DOMAIN manifest : f < fetch'.at => onDisk'[f] = manifest[f]
      BY <2>1, <2>5, <3>2 DEF FetchIsSound, At, DatasetTypeOK
    <3>4. FetchIsSound'
      BY <2>1, <3>2, <3>3 DEF FetchIsSound, At
    <3>5. DatasetTypeOK'
      BY <2>1, <2>3, <3>2 DEF DatasetTypeOK, At, Fetch
    <3>6. DatasetIsWhole'
      BY <2>1, <2>2, <3>2 DEF DatasetIsWhole, Fetch
    <3>. QED BY <3>2, <3>4, <3>5, <3>6
  <2>. QED BY <2>4, <2>5
\* Half a document never gets into the output.
<1>9. CASE StreamFile
  <2>1. /\ fetch.response \in Contents /\ fetch.command = "stream" /\ At \in 1..NumFiles
        /\ UNCHANGED <<onDisk, manifest, settled, snapshots, runs>>
    BY <1>9 DEF StreamFile, Copying, FetchIsSound, DatasetTypeOK, At
  <2>2. CASE fetch.response = "cut"
    BY <1>9, <2>1, <2>2, EndingIsSound DEF StreamFile
  <2>3. CASE fetch.response # "cut"
    <3>1. fetch' = [fetch EXCEPT !.at = @ + 1, !.spent = @ + fetch.got, !.response = "missing",
                                 !.got = 0, !.made = Append(@, fetch.response)]
      BY <1>9, <2>3 DEF StreamFile
    <3>2. fetch' \in Fetch /\ fetch'.at = fetch.at + 1 /\ fetch'.command = fetch.command
          /\ fetch'.response = "missing" /\ fetch'.spent = fetch.spent + fetch.got /\ fetch'.got = 0
          /\ fetch'.made = Append(fetch.made, fetch.response)
      <4>1. fetch.at + 1 \in 0..(NumFiles + 1) /\ fetch.spent + fetch.got \in Nat
        BY <2>1 DEF Fetch, At
      <4>2. Append(fetch.made, fetch.response) \in Seq(Contents)
        BY <2>1 DEF Fetch
      <4>. QED BY <3>1, <4>1, <4>2 DEF Fetch
    <3>3. /\ fetch'.made \in Seq(Contents) /\ Len(fetch'.made) = fetch'.at - 1
          /\ \A k \in 1..Len(fetch'.made) : fetch'.made[k] # "cut"
      BY <2>1, <2>3, <3>2 DEF FetchIsSound, At
    <3>4. FetchIsSound'
      BY <2>1, <3>2, <3>3 DEF FetchIsSound, At
    <3>5. DatasetTypeOK'
      BY <2>1, <3>2 DEF DatasetTypeOK, At, Fetch
    <3>6. DatasetIsWhole'
      BY <2>1, <3>2 DEF DatasetIsWhole, Intact, Fetch
    <3>. QED BY <3>2, <3>4, <3>5, <3>6
  <2>. QED BY <2>2, <2>3
\* A locked download that gets to its end has verified every file it lists.
<1>10. CASE Complete
  <2>1. /\ fetch.command # "none" /\ fetch.at = NumFiles + 1 /\ fetch' = NoFetch
        /\ settled' = (settled \/ fetch.command = "locked")
        /\ snapshots' = IF fetch.command = "stream" THEN fetch.made ELSE snapshots
        /\ UNCHANGED <<onDisk, manifest, runs>>
    BY <1>10 DEF Complete, At
  <2>2. settled' => Intact'
    BY <2>1 DEF FetchIsSound, DatasetIsWhole, Intact, DatasetTypeOK
  <2>3. snapshots' # <<>> => Len(snapshots') = NumFiles /\ \A k \in Files : snapshots'[k] # "cut"
    BY <2>1 DEF FetchIsSound, DatasetIsWhole
  <2>4. fetch' \in Fetch /\ FetchIsSound'
    BY <2>1, NoFetchIsSound DEF FetchIsSound
  <2>5. DatasetTypeOK'
    BY <2>1, NoFetchIsSound DEF DatasetTypeOK
  <2>6. DatasetIsWhole'
    BY <2>1, <2>2, <2>3, NoFetchIsSound DEF DatasetIsWhole
  <2>. QED BY <2>4, <2>5, <2>6
<1>11. CASE Stop
  BY <1>11, EndingIsSound DEF Stop
<1>12. CASE UNCHANGED datasetVars
  BY <1>12 DEF datasetVars, DatasetTypeOK, FetchIsSound, DatasetIsWhole, Intact
<1>. QED
  BY <1>1, <1>2, <1>3, <1>4, <1>5, <1>6, <1>7, <1>8, <1>9, <1>10, <1>11, <1>12 DEF DatasetNext

\* Restored data stays what was locked, a stream's output is complete and whole,
\* and no command takes more than its budget, whatever the server does and
\* wherever a command stops.
THEOREM DatasetStaysWhole == DatasetSpec => []DatasetIsWhole
<1>1. DatasetInv => DatasetIsWhole
  BY DEF DatasetInv
<1>. QED BY <1>1, InitDatasetInv, DatasetInvStep, PTL DEF DatasetSpec

-----------------------------------------------------------------------------
(***************************************************************************)
(* What is active is whole, for any number of operators, versions and      *)
(* builds: releases are published once and never change, and a command     *)
(* that has seen a release may rely on it however long it takes.           *)
(***************************************************************************)

\* What a command in progress relies on: the release it is to activate is
\* there, and so is the version it found active.
WorkIsBacked ==
    \A o \in Operators :
        /\ work[o].step \in {"models", "manifest", "staged", "read", "point"} => work[o].version \in Versions
        /\ work[o].step \in {"read", "point"} => Exists(release[work[o].version])
        /\ work[o].step = "point" /\ work[o].previous # NoVersion => Exists(release[work[o].previous])

ReleaseInv == ReleaseTypeOK /\ ReleasesAreWhole /\ PointerIsBacked /\ WorkIsBacked

-----------------------------------------------------------------------------
\* Nothing is active, staged or in progress at first (ReleaseInit).
LEMMA InitReleaseInv == ReleaseInit => ReleaseInv
<1>. SUFFICES ASSUME ReleaseInit PROVE ReleaseInv
  OBVIOUS
<1>1. NoBundle \in Bundle
  BY ReleaseAssumption DEF NoBundle, Bundle
<1>2. ReleaseTypeOK
  BY <1>1 DEF ReleaseInit, ReleaseTypeOK, NoWork, Steps, Pointer
<1>3. ReleasesAreWhole /\ PointerIsBacked /\ WorkIsBacked
  BY DEF ReleaseInit, ReleasesAreWhole, PointerIsBacked, WorkIsBacked, NoWork, Exists
<1>. QED BY <1>2, <1>3 DEF ReleaseInv

\* Commands that leave releases and pointer alone: training, and everything a
\* command does before it publishes or activates.
LEMMA StoreUntouched ==
    ASSUME ReleaseInv, UNCHANGED <<release, pointer>>, ReleaseTypeOK', WorkIsBacked'
    PROVE  ReleaseInv'
BY DEF ReleaseInv, ReleasesAreWhole, PointerIsBacked

\* An operator whose command ends relies on nothing.
LEMMA EndKeepsWork ==
    ASSUME ReleaseTypeOK, WorkIsBacked, NEW o \in Operators, End(o),
           \A v \in Versions : Exists(release[v]) => Exists(release'[v])
    PROVE  /\ work' \in [Operators -> [step : Steps, version : Versions \cup {NoVersion},
                                       previous : Versions \cup {NoVersion}, copy : Bundle]]
           /\ WorkIsBacked'
<1>1. NoBundle \in Bundle
  BY ReleaseAssumption DEF NoBundle, Bundle
<1>2. NoWork \in [step : Steps, version : Versions \cup {NoVersion},
                  previous : Versions \cup {NoVersion}, copy : Bundle]
  BY <1>1 DEF NoWork, Steps
<1>3. work' \in [Operators -> [step : Steps, version : Versions \cup {NoVersion},
                               previous : Versions \cup {NoVersion}, copy : Bundle]]
  BY <1>2 DEF End, ReleaseTypeOK
<1>4. ASSUME NEW p \in Operators
      PROVE  /\ work'[p].step \in {"models", "manifest", "staged", "read", "point"} => work'[p].version \in Versions
             /\ work'[p].step \in {"read", "point"} => Exists(release'[work'[p].version])
             /\ work'[p].step = "point" /\ work'[p].previous # NoVersion => Exists(release'[work'[p].previous])
  <2>1. CASE p = o
    BY <2>1 DEF End, NoWork, ReleaseTypeOK
  <2>2. CASE p # o
    <3>1. work'[p] = work[p]
      BY <2>2 DEF End, ReleaseTypeOK
    <3>2. work[p].previous \in Versions \cup {NoVersion}
      BY DEF ReleaseTypeOK
    <3>. QED BY <3>1, <3>2 DEF WorkIsBacked, Exists
  <2>. QED BY <2>1, <2>2
<1>. QED BY <1>3, <1>4 DEF WorkIsBacked, Exists

\* Every command keeps the invariant.
LEMMA ReleaseInvStep == ReleaseInv /\ [ReleaseNext]_releaseVars => ReleaseInv'
<1>. SUFFICES ASSUME ReleaseInv, [ReleaseNext]_releaseVars PROVE ReleaseInv'
  OBVIOUS
<1>. USE DEF ReleaseInv
<1>0. NoBundle \in Bundle
  BY ReleaseAssumption DEF NoBundle, Bundle
<1>1. ASSUME NEW v \in Versions, TrainModels(v) PROVE ReleaseInv'
  <2>1. trained[v].model + 1 \in 0..MaxBuilds
    BY <1>1, ReleaseAssumption DEF TrainModels, ReleaseTypeOK, Bundle
  <2>2. ReleaseTypeOK'
    BY <1>1, <2>1 DEF TrainModels, ReleaseTypeOK, Bundle
  <2>3. WorkIsBacked'
    BY <1>1 DEF TrainModels, WorkIsBacked
  <2>. QED BY <1>1, <2>2, <2>3, StoreUntouched DEF TrainModels
<1>2. ASSUME NEW v \in Versions, BuildManifest(v) PROVE ReleaseInv'
  <2>1. ReleaseTypeOK'
    BY <1>2 DEF BuildManifest, ReleaseTypeOK, Bundle
  <2>2. WorkIsBacked'
    BY <1>2 DEF BuildManifest, WorkIsBacked
  <2>. QED BY <1>2, <2>1, <2>2, StoreUntouched DEF BuildManifest
<1>3. ASSUME NEW o \in Operators, NEW v \in Versions, Stage(o, v) PROVE ReleaseInv'
  <2>1. ReleaseTypeOK'
    BY <1>0, <1>3 DEF Stage, ReleaseTypeOK, NoWork, Steps
  <2>2. WorkIsBacked'
    BY <1>3 DEF Stage, ReleaseTypeOK, WorkIsBacked, NoWork
  <2>. QED BY <1>3, <2>1, <2>2, StoreUntouched DEF Stage
<1>4. ASSUME NEW o \in Operators, NEW v \in Versions, Activate(o, v) PROVE ReleaseInv'
  <2>1. ReleaseTypeOK'
    BY <1>0, <1>4 DEF Activate, ReleaseTypeOK, NoWork, Steps
  <2>2. WorkIsBacked'
    BY <1>4 DEF Activate, ReleaseTypeOK, WorkIsBacked, NoWork
  <2>. QED BY <1>4, <2>1, <2>2, StoreUntouched DEF Activate
<1>5. ASSUME NEW o \in Operators, NEW configured \in Versions, ResolveRelease(o, configured) PROVE ReleaseInv'
  <2>1. PICK v \in {pointer.version, configured} \ {NoVersion} :
            work' = [work EXCEPT ![o] = [NoWork EXCEPT !.step = "load", !.version = v]]
    BY <1>5 DEF ResolveRelease
  <2>2. v \in Versions
    BY <2>1 DEF ReleaseTypeOK, Pointer
  <2>3. ReleaseTypeOK'
    BY <1>0, <1>5, <2>1, <2>2 DEF ResolveRelease, ReleaseTypeOK, NoWork, Steps
  <2>4. WorkIsBacked'
    BY <1>5, <2>1 DEF ResolveRelease, ReleaseTypeOK, WorkIsBacked, NoWork
  <2>. QED BY <1>5, <2>3, <2>4, StoreUntouched DEF ResolveRelease
<1>6. ASSUME NEW o \in Operators, CopyModels(o) PROVE ReleaseInv'
  <2>1. work[o].version \in Versions
    BY <1>6 DEF CopyModels, WorkIsBacked
  <2>2. ReleaseTypeOK'
    BY <1>6, <2>1 DEF CopyModels, ReleaseTypeOK, Steps, Bundle
  <2>3. WorkIsBacked'
    BY <1>6, <2>1 DEF CopyModels, ReleaseTypeOK, WorkIsBacked
  <2>. QED BY <1>6, <2>2, <2>3, StoreUntouched DEF CopyModels
<1>7. ASSUME NEW o \in Operators, CopyManifest(o) PROVE ReleaseInv'
  <2>1. work[o].version \in Versions
    BY <1>7 DEF CopyManifest, WorkIsBacked
  <2>2. ReleaseTypeOK'
    BY <1>7, <2>1 DEF CopyManifest, ReleaseTypeOK, Steps, Bundle
  <2>3. WorkIsBacked'
    BY <1>7, <2>1 DEF CopyManifest, ReleaseTypeOK, WorkIsBacked
  <2>. QED BY <1>7, <2>2, <2>3, StoreUntouched DEF CopyManifest
\* A version is published where there was none, and whole.
<1>8. ASSUME NEW o \in Operators, Publish(o) PROVE ReleaseInv'
  <2>. DEFINE v == work[o].version
              copy == work[o].copy
  <2>1. v \in Versions /\ copy \in Bundle
    BY <1>8 DEF Publish, WorkIsBacked, ReleaseTypeOK
  <2>2. CASE Valid(copy) /\ ~Exists(release[v])
    <3>1. release' = [release EXCEPT ![v] = copy]
      BY <1>8, <2>2 DEF Publish, Publishable
    <3>2. Exists(copy)
      BY <2>2 DEF Valid, Exists, NoBundle
    <3>3. \A u \in Versions : release'[u] = IF u = v THEN copy ELSE release[u]
      BY <2>1, <3>1 DEF ReleaseTypeOK
    <3>4. \A u \in Versions : Exists(release[u]) => Exists(release'[u])
      BY <3>2, <3>3
    <3>5. ReleaseTypeOK' /\ WorkIsBacked'
      BY <1>8, <2>1, <3>1, <3>4, EndKeepsWork DEF Publish, ReleaseTypeOK
    <3>6. ReleasesAreWhole'
      BY <2>2, <3>3 DEF ReleasesAreWhole
    <3>7. PointerIsBacked'
      BY <1>8, <3>4 DEF Publish, PointerIsBacked, ReleaseTypeOK, Pointer, Exists
    <3>. QED BY <3>5, <3>6, <3>7
  <2>3. CASE ~(Valid(copy) /\ ~Exists(release[v]))
    <3>1. release' = release
      BY <1>8, <2>3 DEF Publish, Publishable
    <3>2. ReleaseTypeOK' /\ WorkIsBacked'
      BY <1>8, <3>1, EndKeepsWork DEF Publish, ReleaseTypeOK
    <3>. QED BY <1>8, <3>1, <3>2, StoreUntouched DEF Publish
  <2>. QED BY <2>2, <2>3
<1>9. ASSUME NEW o \in Operators, Rollback(o) PROVE ReleaseInv'
  <2>1. pointer.previous \in Versions
    BY <1>9 DEF Rollback, ReleaseTypeOK, Pointer
  <2>. QED BY <1>4, <1>9, <2>1 DEF Rollback
<1>10. ASSUME NEW o \in Operators, ReadPointer(o) PROVE ReleaseInv'
  <2>1. ReleaseTypeOK'
    BY <1>10 DEF ReadPointer, ReleaseTypeOK, Steps, Pointer
  <2>2. WorkIsBacked'
    BY <1>10 DEF ReadPointer, ReleaseTypeOK, WorkIsBacked, PointerIsBacked
  <2>. QED BY <1>10, <2>1, <2>2, StoreUntouched DEF ReadPointer
\* The pointer is given what the operator relied on.
<1>11. ASSUME NEW o \in Operators, ReplacePointer(o) PROVE ReleaseInv'
  <2>1. release' = release /\ End(o) /\ trained' = trained
    BY <1>11 DEF ReplacePointer
  <2>2. WorkIsBacked' /\ ReleaseTypeOK'
    BY <1>11, <2>1, EndKeepsWork DEF ReplacePointer, ReleaseTypeOK, Pointer
  <2>3. PointerIsBacked'
    BY <1>11, <2>1 DEF ReplacePointer, PointerIsBacked, WorkIsBacked, ReleaseTypeOK
  <2>. QED BY <2>1, <2>2, <2>3 DEF ReleasesAreWhole
<1>12. ASSUME NEW o \in Operators, Load(o) PROVE ReleaseInv'
  <2>1. CASE work[o].version # NoVersion /\ Valid(release[work[o].version])
    <3>1. work' = [work EXCEPT ![o].copy = release[work[o].version], ![o].step = "loaded"]
      BY <1>12, <2>1 DEF Load
    <3>2. release[work[o].version] \in Bundle
      BY <2>1 DEF ReleaseTypeOK
    <3>3. ReleaseTypeOK'
      BY <1>12, <3>1, <3>2 DEF Load, ReleaseTypeOK, Steps
    <3>4. WorkIsBacked'
      BY <1>12, <3>1 DEF Load, ReleaseTypeOK, WorkIsBacked
    <3>. QED BY <1>12, <3>3, <3>4, StoreUntouched DEF Load
  <2>2. CASE ~(work[o].version # NoVersion /\ Valid(release[work[o].version]))
    <3>1. End(o) /\ UNCHANGED <<trained, release, pointer>>
      BY <1>12, <2>2 DEF Load
    <3>2. ReleaseTypeOK' /\ WorkIsBacked'
      BY <3>1, EndKeepsWork DEF ReleaseTypeOK
    <3>. QED BY <3>1, <3>2, StoreUntouched
  <2>. QED BY <2>1, <2>2
<1>13. ASSUME NEW o \in Operators, Exit(o) PROVE ReleaseInv'
  <2>1. End(o) /\ UNCHANGED <<trained, release, pointer>>
    BY <1>13 DEF Exit
  <2>2. ReleaseTypeOK' /\ WorkIsBacked'
    BY <2>1, EndKeepsWork DEF ReleaseTypeOK
  <2>. QED BY <2>1, <2>2, StoreUntouched
<1>14. CASE UNCHANGED releaseVars
  BY <1>14 DEF releaseVars, ReleaseTypeOK, ReleasesAreWhole, PointerIsBacked, WorkIsBacked
<1>. QED
  BY <1>1, <1>2, <1>3, <1>4, <1>5, <1>6, <1>7, <1>8, <1>9, <1>10, <1>11, <1>12, <1>13, <1>14
     DEF ReleaseNext

\* A release is whole from the moment it is there, and the active one and the
\* one a rollback returns to are there, whatever commands run at once or stop.
THEOREM ActiveReleasesAreWhole == ReleaseSpec => []ActiveReleaseIsWhole
<1>1. ReleaseInv => ActiveReleaseIsWhole
  BY DEF ReleaseInv, ActiveReleaseIsWhole
<1>. QED BY <1>1, InitReleaseInv, ReleaseInvStep, PTL DEF ReleaseSpec

-----------------------------------------------------------------------------
\* What was published under a version is never replaced: a service that loads
\* a version again gets what it got before.
ReleasesNeverChange == \A v \in Versions : Exists(release[v]) => release'[v] = release[v]

\* No command, not even a second one for the same version, changes a release.
THEOREM ReleasesStay == ReleaseSpec => [][ReleasesNeverChange]_releaseVars
<1>1. ReleaseInv /\ ReleaseNext => ReleasesNeverChange
  <2>. SUFFICES ASSUME ReleaseInv, ReleaseNext PROVE ReleasesNeverChange
    OBVIOUS
  <2>1. CASE \E o \in Operators : Publish(o)
    BY <2>1 DEF Publish, ReleasesNeverChange, ReleaseInv, ReleaseTypeOK
  <2>2. CASE UNCHANGED release
    BY <2>2 DEF ReleasesNeverChange
  <2>. QED
    BY <2>1, <2>2 DEF ReleaseNext, TrainModels, BuildManifest, Stage, Activate, ResolveRelease,
         CopyModels, CopyManifest, Rollback, ReadPointer, ReplacePointer, Load, Exit
<1>2. ReleaseInv /\ [ReleaseNext]_releaseVars => [ReleasesNeverChange]_releaseVars
  BY <1>1 DEF releaseVars
<1>. QED BY <1>2, InitReleaseInv, ReleaseInvStep, PTL DEF ReleaseSpec

-----------------------------------------------------------------------------
(***************************************************************************)
(* The progress of an analysis as the page sees it: what a connection has  *)
(* delivered is the beginning of the log, whichever connections were lost. *)
(***************************************************************************)

Source == [open : BOOLEAN, terminal : BOOLEAN, got : Seq(Update)]

\* What a connection has delivered is the log's beginning: of the copy that is
\* being sent, too, as the log only grows while the process runs.
IsTheLog(at, index, got, log) ==
    at # "ended" => index = Len(got) /\ index <= Len(log) /\ got = SubSeq(log, 1, index)

\* A source that has noted the end of a run was told of one.
HasTerminal(got) == \E k \in DOMAIN got : got[k].stage \in Terminal

EventsInv ==
    /\ EventsTypeOK /\ source \in Source
    /\ IsTheLog(stream.at, stream.index, source.got, updates)
    /\ stream.at = "send" => stream.length <= Len(updates)
    /\ source.terminal => HasTerminal(source.got)
    /\ ~source.open => source.terminal

\* The log that has grown begins as it did.
LEMMA LogGrows ==
    ASSUME NEW log \in Seq(Update), NEW more \in Seq(Update), NEW n \in 0..Len(log)
    PROVE  /\ log \o more \in Seq(Update)
           /\ n <= Len(log \o more) /\ Len(log) <= Len(log \o more)
           /\ SubSeq(log \o more, 1, n) = SubSeq(log, 1, n)
<1>1. log \o more \in Seq(Update) /\ Len(log \o more) = Len(log) + Len(more)
  BY ConcatProperties
<1>2. Len(log) \in Nat /\ Len(more) \in Nat
  BY LenProperties
<1>3. SubSeq(log \o more, 1, n) = SubSeq(log, 1, n)
  BY <1>2, SubSeqOfConcat1
<1> QED
  BY <1>1, <1>2, <1>3

\* The next update of the log makes its beginning longer by one.
LEMMA NextUpdate ==
    ASSUME NEW log \in Seq(Update), NEW n \in Nat, n < Len(log)
    PROVE  Append(SubSeq(log, 1, n), log[n + 1]) = SubSeq(log, 1, n + 1)
<1>1. Len(log) \in Nat /\ SubSeq(log, 1, n) \in Seq(Update) /\ log[n + 1] \in Update
  <2>1. Len(log) \in Nat
    BY LenProperties
  <2>2. \A k \in 1..n : k \in 1..Len(log)
    BY <2>1
  <2>3. SubSeq(log, 1, n) \in Seq(Update)
    BY <2>1, SubSeqProperties
  <2> QED
    BY <2>1, <2>3, ElementOfSeq
<1>2. SubSeq(log, 1, n + 1) = SubSeq(log, 1, (n + 1) - 1) \o <<log[n + 1]>>
  BY <1>1, SubSeqRecursiveSecond
<1>3. (n + 1) - 1 = n
  OBVIOUS
<1>4. Append(SubSeq(log, 1, n), log[n + 1]) = SubSeq(log, 1, n) \o <<log[n + 1]>>
  BY <1>1, AppendIsConcat
<1> QED
  BY <1>2, <1>3, <1>4

\* What has been told stays told.
LEMMA TerminalStays ==
    ASSUME NEW got \in Seq(Update), NEW update \in Update
    PROVE  /\ Append(got, update) \in Seq(Update)
           /\ Len(Append(got, update)) = Len(got) + 1
           /\ HasTerminal(got) => HasTerminal(Append(got, update))
           /\ update.stage \in Terminal => HasTerminal(Append(got, update))
BY AppendProperties, LenProperties DEF HasTerminal

LEMMA InitEventsInv == EventsInit => EventsInv
<1>1. ASSUME EventsInit PROVE EventsInv
  <2>1. /\ stream = [at |-> "updates", length |-> 0, index |-> 0]
        /\ source = [open |-> TRUE, terminal |-> FALSE, got |-> <<>>]
    BY <1>1 DEF EventsInit, NewStream, NewSource
  <2>2. <<>> \in Seq(Update) /\ Len(<<>>) = 0 /\ SubSeq(updates, 1, 0) = <<>>
    BY SubSeqEmpty
  <2>3. updates \in Seq(Update) /\ 0 <= Len(updates)
    <3>1. PICK first, second \in Update : updates = <<first, second>>
      BY <1>1, EventsAssumption DEF EventsInit, Update
    <3> QED
      BY <3>1
  <2>4. EventsTypeOK
    BY <1>1, <2>1, <2>2, <2>3, EventsAssumption DEF EventsInit, EventsTypeOK, Positions, RunNumbers
  <2> QED
    BY <2>1, <2>2, <2>3, <2>4 DEF EventsInv, Source, IsTheLog
<1> QED
  BY <1>1

\* The runs add to the log.
LEMMA LogStep ==
    ASSUME EventsInv, NEW more \in Seq(Update), updates' = updates \o more,
           status' \in {"ready", "coaching", "complete", "failed"},
           running' \subseteq RunNumbers, selections' \in 0..MaxSelections,
           UNCHANGED <<stream, source, asked, seen, losses>>
    PROVE  EventsInv'
<1>1. updates \in Seq(Update) /\ Len(updates) \in Nat /\ stream.index \in Nat /\ stream.length \in Nat
  BY LenProperties DEF EventsInv, EventsTypeOK
<1>2. updates' \in Seq(Update) /\ Len(updates) <= Len(updates') /\ Len(updates') \in Nat
  BY <1>1, LogGrows, LenProperties
<1>3. EventsTypeOK'
  BY <1>2 DEF EventsInv, EventsTypeOK
<1>4. IsTheLog(stream.at, stream.index, source.got, updates)'
  <2>1. ASSUME stream.index <= Len(updates)
        PROVE  SubSeq(updates', 1, stream.index) = SubSeq(updates, 1, stream.index)
    BY <1>1, <2>1, LogGrows
  <2> QED
    BY <1>1, <1>2, <2>1 DEF EventsInv, IsTheLog
<1> QED
  BY <1>1, <1>2, <1>3, <1>4 DEF EventsInv

\* A stream that has ended needs no log.
LEMMA RestartStep == EventsInv /\ Restart => EventsInv'
<1>1. ASSUME EventsInv, Restart PROVE EventsInv'
  <2>1. /\ updates' = <<>> /\ running' = {} /\ UNCHANGED <<selections, source, asked, seen>>
        /\ losses' = losses + 1 /\ losses < MaxLosses
        /\ status' \in {status, "ready"} /\ stream' = [stream EXCEPT !.at = "ended"]
    BY <1>1 DEF Restart
  <2>2. /\ stream' \in [at : Positions, length : Nat, index : Nat] /\ stream'.at = "ended"
    BY <1>1, <2>1 DEF EventsInv, EventsTypeOK, Positions
  <2>3. updates' \in Seq(Update) /\ losses' \in 0..MaxLosses
    BY <1>1, <2>1, EventsAssumption DEF EventsInv, EventsTypeOK
  <2>4. EventsTypeOK'
    BY <1>1, <2>1, <2>2, <2>3 DEF EventsInv, EventsTypeOK
  <2> QED
    BY <1>1, <2>1, <2>2, <2>4 DEF EventsInv, IsTheLog
<1> QED
  BY <1>1

\* The stream moves on: to a copy of the log, to the status, or to its end.
LEMMA MoveStep ==
    ASSUME EventsInv, NEW at \in Positions, NEW length \in Nat,
           stream' = [at |-> at, length |-> length, index |-> stream.index],
           stream.at # "ended", at = "send" => length <= Len(updates),
           losses' \in 0..MaxLosses,
           UNCHANGED <<updates, status, running, selections, source, asked, seen>>
    PROVE  EventsInv'
<1>1. stream'.at = at /\ stream'.length = length /\ stream'.index = stream.index
  OBVIOUS
<1>2. EventsTypeOK'
  BY <1>1 DEF EventsInv, EventsTypeOK
<1> QED
  BY <1>1, <1>2 DEF EventsInv, IsTheLog

\* A new connection has delivered nothing.
LEMMA FreshStep ==
    ASSUME EventsInv, NEW open \in BOOLEAN, open = TRUE, stream' = NewStream,
           source' = [open |-> open, terminal |-> FALSE, got |-> <<>>], asked' \in Nat,
           UNCHANGED <<updates, status, running, selections, seen, losses>>
    PROVE  EventsInv'
<1>1. /\ stream' = [at |-> "updates", length |-> 0, index |-> 0]
      /\ stream'.at = "updates" /\ stream'.index = 0
      /\ source'.open = open /\ ~source'.terminal /\ source'.got = <<>>
  BY DEF NewStream
<1>2. <<>> \in Seq(Update) /\ Len(<<>>) = 0 /\ SubSeq(updates, 1, 0) = <<>>
  BY SubSeqEmpty
<1>3. EventsTypeOK' /\ source' \in Source
  BY <1>1, <1>2 DEF EventsInv, EventsTypeOK, Positions, Source
<1>4. Len(updates) \in Nat
  BY LenProperties DEF EventsInv, EventsTypeOK
<1> QED
  BY <1>1, <1>2, <1>3, <1>4 DEF EventsInv, IsTheLog

LEMMA SendStep == EventsInv /\ Send => EventsInv'
<1>1. ASSUME EventsInv, Send PROVE EventsInv'
  <2>1. /\ UNCHANGED <<updates, status, running, selections, asked, losses>>
        /\ source.open /\ stream.at = "send"
    BY <1>1 DEF Send, Following
  <2>2. CASE ~(stream.index < stream.length)
    <3>1. stream' = [stream EXCEPT !.at = "status"] /\ UNCHANGED <<source, seen>>
      BY <1>1, <2>2 DEF Send
    <3>2. /\ stream' = [at |-> "status", length |-> stream.length, index |-> stream.index]
          /\ stream.length \in Nat /\ losses \in 0..MaxLosses
      BY <1>1, <3>1 DEF EventsInv, EventsTypeOK
    <3> QED
      BY <1>1, <2>1, <3>1, <3>2, MoveStep DEF Positions
  <2>3. CASE stream.index < stream.length
    <3>1. PICK n : n = stream.index
      OBVIOUS
    <3>2. PICK update : update = updates[n + 1]
      OBVIOUS
    <3>3. /\ n \in Nat /\ updates \in Seq(Update) /\ Len(updates) \in Nat /\ n < Len(updates)
          /\ source.got \in Seq(Update) /\ source.terminal \in BOOLEAN
          /\ stream.length \in Nat /\ stream.length <= Len(updates)
      BY <1>1, <2>1, <2>3, <3>1, LenProperties DEF EventsInv, EventsTypeOK
    <3>4. update \in Update
      BY <3>2, <3>3, ElementOfSeq
    <3>5. PICK got : got = Append(source.got, update)
      OBVIOUS
    <3>6. PICK terminal : terminal = (source.terminal \/ update.stage \in Terminal)
      OBVIOUS
    <3>7. /\ stream' = [stream EXCEPT !.index = n + 1]
          /\ source' = [source EXCEPT !.got = got, !.terminal = terminal]
          /\ seen' \in {seen, seen \cup {update.run}}
      BY <1>1, <2>3, <3>1, <3>2, <3>5, <3>6 DEF Send, NextIndex
    <3>8. /\ stream' = [at |-> "send", length |-> stream.length, index |-> n + 1]
          /\ stream'.at = "send" /\ stream'.length = stream.length /\ stream'.index = n + 1
      BY <1>1, <2>1, <3>7 DEF EventsInv, EventsTypeOK
    <3>9. /\ source' = [open |-> source.open, terminal |-> terminal, got |-> got]
          /\ source'.open = source.open /\ source'.got = got /\ source'.terminal = terminal
      BY <1>1, <3>7 DEF EventsInv, Source
    <3>10. /\ got \in Seq(Update) /\ Len(got) = Len(source.got) + 1
           /\ HasTerminal(source.got) => HasTerminal(got)
           /\ update.stage \in Terminal => HasTerminal(got)
      BY <3>3, <3>4, <3>5, TerminalStays
    <3>11. n = Len(source.got) /\ source.got = SubSeq(updates, 1, n)
      BY <1>1, <2>1, <3>1 DEF EventsInv, IsTheLog
    <3>12. got = SubSeq(updates, 1, n + 1) /\ n + 1 = Len(got) /\ n + 1 <= Len(updates)
      BY <3>2, <3>3, <3>5, <3>10, <3>11, NextUpdate
    <3>13. seen' \subseteq 0..MaxSelections
      BY <1>1, <3>4, <3>7 DEF EventsInv, EventsTypeOK, Update
    <3>14. terminal \in BOOLEAN /\ source.open = TRUE
      BY <1>1, <2>1, <3>3, <3>6 DEF EventsInv, Source
    <3>15. EventsTypeOK' /\ source' \in Source
      BY <1>1, <2>1, <3>3, <3>8, <3>9, <3>10, <3>13, <3>14
         DEF EventsInv, EventsTypeOK, Positions, Source
    <3>16. terminal => HasTerminal(got)
      BY <1>1, <3>6, <3>10 DEF EventsInv
    <3> QED
      BY <2>1, <3>3, <3>8, <3>9, <3>12, <3>14, <3>15, <3>16 DEF EventsInv, IsTheLog
  <2> QED
    BY <2>2, <2>3
<1> QED
  BY <1>1

LEMMA EventsInvStep == EventsInv /\ [EventsNext]_eventVars => EventsInv'
<1>1. ASSUME EventsInv, UNCHANGED eventVars PROVE EventsInv'
  BY <1>1 DEF EventsInv, EventsTypeOK, IsTheLog, HasTerminal, Source, eventVars
<1>2. ASSUME EventsInv, StartRun PROVE EventsInv'
  <2>1. PICK r : r = selections + 1
    OBVIOUS
  <2>2. /\ selections' = r /\ running' = running \cup {r} /\ status' = "coaching"
        /\ updates' = updates \o <<[stage |-> "player_selected", run |-> r],
                                   [stage |-> "calling_pi", run |-> r]>>
        /\ UNCHANGED <<stream, source, asked, seen, losses>>
    BY <1>2, <2>1 DEF StartRun
  <2>3. r \in RunNumbers /\ r \in 0..MaxSelections
    BY <1>2, <2>1, EventsAssumption DEF EventsInv, EventsTypeOK, StartRun, RunNumbers
  <2>4. <<[stage |-> "player_selected", run |-> r], [stage |-> "calling_pi", run |-> r]>> \in Seq(Update)
    BY <2>3 DEF Update
  <2>5. running' \subseteq RunNumbers
    BY <1>2, <2>2, <2>3 DEF EventsInv, EventsTypeOK
  <2> QED
    BY <1>2, <2>2, <2>3, <2>4, <2>5, LogStep
<1>3. ASSUME EventsInv, NEW r \in RunNumbers, EndRun(r) PROVE EventsInv'
  <2>1. PICK stage \in {"complete", "error"} :
          /\ updates' = Append(updates, [stage |-> stage, run |-> r])
          /\ status' \in {"complete", "failed"}
    BY <1>3 DEF EndRun
  <2>2. PICK update : update = [stage |-> stage, run |-> r]
    OBVIOUS
  <2>3. update \in Update /\ <<update>> \in Seq(Update) /\ updates \in Seq(Update)
    BY <1>3, <2>1, <2>2, EventsAssumption DEF Update, RunNumbers, EventsInv, EventsTypeOK
  <2>4. updates' = updates \o <<update>>
    BY <2>1, <2>2, <2>3, AppendIsConcat
  <2>5. /\ running' \subseteq RunNumbers /\ selections' \in 0..MaxSelections
        /\ UNCHANGED <<stream, source, asked, seen, losses>>
    BY <1>3 DEF EndRun, EventsInv, EventsTypeOK
  <2> QED
    BY <1>3, <2>1, <2>3, <2>4, <2>5, LogStep
<1>4. ASSUME EventsInv, ReadUpdates PROVE EventsInv'
  <2>1. /\ stream' = [stream EXCEPT !.at = "send", !.length = Len(updates)]
        /\ stream.at # "ended" /\ losses' = losses
        /\ UNCHANGED <<updates, status, running, selections, source, asked, seen>>
    BY <1>4 DEF ReadUpdates
  <2>2. PICK length \in Nat : length = Len(updates)
    BY <1>4, LenProperties DEF EventsInv, EventsTypeOK
  <2>3. stream' = [at |-> "send", length |-> length, index |-> stream.index]
    BY <1>4, <2>1, <2>2 DEF EventsInv, EventsTypeOK
  <2>4. length <= Len(updates) /\ losses' \in 0..MaxLosses /\ "send" \in Positions
    BY <1>4, <2>1, <2>2 DEF EventsInv, EventsTypeOK, Positions
  <2> QED
    BY <1>4, <2>1, <2>3, <2>4, MoveStep
<1>5. ASSUME EventsInv, ReadStatus \/ LoseConnection PROVE EventsInv'
  <2>1. /\ \E at \in {"ended", "updates"} : stream' = [stream EXCEPT !.at = at]
        /\ stream.at # "ended" /\ losses' \in {losses, losses + 1}
        /\ losses' = losses \/ losses < MaxLosses
        /\ UNCHANGED <<updates, status, running, selections, source, asked, seen>>
    BY <1>5 DEF ReadStatus, LoseConnection
  <2>2. PICK at \in {"ended", "updates"} : stream' = [stream EXCEPT !.at = at]
    BY <2>1
  <2>3. /\ stream' = [at |-> at, length |-> stream.length, index |-> stream.index]
        /\ stream.length \in Nat
    BY <1>5, <2>2 DEF EventsInv, EventsTypeOK
  <2>4. losses' \in 0..MaxLosses
    BY <1>5, <2>1, EventsAssumption DEF EventsInv, EventsTypeOK
  <2>5. at \in Positions /\ at # "send"
    BY <2>2 DEF Positions
  <2> QED
    BY <1>5, <2>1, <2>3, <2>4, <2>5, MoveStep
<1>6. ASSUME EventsInv, Reconnect PROVE EventsInv'
  <2>1. UNCHANGED <<updates, status, running, selections, asked, seen, losses>> /\ source.open
    BY <1>6 DEF Reconnect, Following
  <2>2. CASE source.terminal
    <3>1. source' = [source EXCEPT !.open = FALSE] /\ stream' = stream
      BY <1>6, <2>2 DEF Reconnect, GivesUp
    <3>2. /\ source' = [open |-> FALSE, terminal |-> source.terminal, got |-> source.got]
          /\ source'.terminal = source.terminal /\ source'.got = source.got
      BY <1>6, <3>1 DEF EventsInv, Source
    <3>3. EventsTypeOK' /\ source' \in Source
      BY <1>6, <2>1, <3>1, <3>2 DEF EventsInv, EventsTypeOK, Source
    <3> QED
      BY <1>6, <2>1, <2>2, <3>1, <3>2, <3>3 DEF EventsInv, IsTheLog
  <2>3. CASE ~source.terminal
    <3>1. source' = [source EXCEPT !.got = <<>>] /\ stream' = NewStream
      BY <1>6, <2>3 DEF Reconnect, GivesUp
    <3>2. source' = [open |-> source.open, terminal |-> FALSE, got |-> <<>>]
      BY <1>6, <2>3, <3>1 DEF EventsInv, Source
    <3>3. source.open \in BOOLEAN /\ source.open = TRUE /\ asked' \in Nat
      BY <1>6, <2>1 DEF EventsInv, EventsTypeOK
    <3> QED
      BY <1>6, <2>1, <3>1, <3>2, <3>3, FreshStep
  <2> QED
    BY <2>2, <2>3
<1>7. ASSUME EventsInv, Resubscribe PROVE EventsInv'
  <2>1. /\ stream' = NewStream /\ source' = [open |-> TRUE, terminal |-> FALSE, got |-> <<>>]
        /\ asked' \in Nat /\ UNCHANGED <<updates, status, running, selections, seen, losses>>
    BY <1>7 DEF Resubscribe, NewSource, EventsInv, EventsTypeOK
  <2> QED
    BY <1>7, <2>1, FreshStep
<1> QED
  BY <1>1, <1>2, <1>3, <1>4, <1>5, <1>6, <1>7, RestartStep, SendStep DEF EventsNext

\* What the page was told of an analysis is the beginning of its log, for any
\* number of runs, stops and lost connections; and the page stops following
\* only after the end of a run was reported to it.
THEOREM ProgressFollowsTheLog == EventsSpec => []ProgressIsTheLog
<1>1. EventsInv => ProgressIsTheLog
  BY DEF EventsInv, IsTheLog, HasTerminal, ProgressIsTheLog
<1> QED
  BY <1>1, InitEventsInv, EventsInvStep, PTL DEF EventsSpec

-----------------------------------------------------------------------------
(***************************************************************************)
(* The tools of a session stay within its limits, for any number of calls, *)
(* tools and turns: a process is started only under a count that is kept   *)
(* per turn, and what a process may still do it does while its call waits. *)
(***************************************************************************)

Call == [state : {"none", "waiting", "answered"}, turn : 0..MaxTurns, result : Codes \cup {"none", "data"}]

Process == [state : {"none", "running", "terminated", "closed"}, tool : Tools \cup {"none"},
            output : Codes \cup {"none", "data"},
            timedOut : BOOLEAN, cancelled : BOOLEAN, tooLarge : BOOLEAN]

\* A call and its process: there is none before the call is admitted, one while
\* it waits, and none that still runs when it was answered.
CallsMatchProcesses ==
    \A c \in ToolCalls :
        /\ call[c].turn <= turn
        /\ call[c].state = "none" => process[c].state = "none"
        /\ call[c].state = "waiting" => process[c].state # "none"
        /\ call[c].state = "answered" => process[c].state \in {"none", "closed"}
        /\ call[c].result = "data" =>
              /\ call[c].state = "answered"
              /\ ~process[c].timedOut /\ ~process[c].cancelled /\ ~process[c].tooLarge

OfTool(t, tool) == {c \in Started(t) : process[c].tool = tool}

\* The processes of the present turn are counted.
StartsAreCounted ==
    /\ \A t \in Nat : IsFiniteSet(Started(t))
    /\ Cardinality(Started(turn)) <= callsMade
    /\ \A t \in 1..turn :
          /\ Cardinality(Started(t)) <= MaxCallsPerTurn
          /\ \A tool \in AllowedTools :
                tool \in DOMAIN ToolLimit => Cardinality(OfTool(t, tool)) <= ToolLimit[tool]

HarnessInv == HarnessTypeOK /\ CallsMatchProcesses /\ StartsAreCounted

-----------------------------------------------------------------------------
\* The sets of started processes depend only on which processes there are, of
\* which tool and of which turn (Started).
LEMMA SameStarts ==
    ASSUME \A d \in ToolCalls :
              /\ process'[d].state = "none" <=> process[d].state = "none"
              /\ process[d].state # "none" =>
                    call'[d].turn = call[d].turn /\ process'[d].tool = process[d].tool
    PROVE  \A t : Started(t)' = Started(t) /\ \A tool : OfTool(t, tool)' = OfTool(t, tool)
<1>1. ASSUME NEW t PROVE Started(t)' = Started(t)
  BY DEF Started
<1>2. ASSUME NEW t, NEW tool PROVE OfTool(t, tool)' = OfTool(t, tool)
  BY <1>1 DEF OfTool, Started
<1>. QED BY <1>1, <1>2

\* Where no process is started and the turn goes on, the counts still hold.
LEMMA CountsStay ==
    ASSUME HarnessInv, turn' = turn, callsMade' \in Nat, callsMade' >= callsMade,
           \A d \in ToolCalls :
              /\ process'[d].state = "none" <=> process[d].state = "none"
              /\ process[d].state # "none" =>
                    call'[d].turn = call[d].turn /\ process'[d].tool = process[d].tool
    PROVE  StartsAreCounted'
<1>1. \A t : Started(t)' = Started(t) /\ \A tool : OfTool(t, tool)' = OfTool(t, tool)
  BY SameStarts
<1>2. turn \in Nat /\ callsMade \in Nat /\ IsFiniteSet(Started(turn)) /\ Cardinality(Started(turn)) <= callsMade
  BY HarnessAssumption DEF HarnessInv, HarnessTypeOK, StartsAreCounted
<1>3. Cardinality(Started(turn)) \in Nat
  BY <1>2, FS_CardinalityType
<1>4. Started(turn)' = Started(turn)
  <2>1. Started(turn)' = {c \in ToolCalls : process'[c].state # "none" /\ call'[c].turn = turn}
    BY DEF Started
  <2>. QED BY <2>1 DEF Started
<1>5. Cardinality(Started(turn))' <= callsMade'
  BY <1>2, <1>3, <1>4
<1>. QED BY <1>1, <1>5 DEF HarnessInv, StartsAreCounted

\* A step of one process whose call waits: it neither appears nor goes away.
LEMMA ProcessStep ==
    ASSUME HarnessInv, NEW c \in ToolCalls, NEW x \in Process, call[c].state = "waiting",
           process' = [process EXCEPT ![c] = x], x.state # "none", x.tool = process[c].tool,
           UNCHANGED <<turn, callsMade, call, aborted>>
    PROVE  HarnessInv'
<1>1. process \in [ToolCalls -> Process] /\ process[c].state # "none"
  BY DEF HarnessInv, HarnessTypeOK, CallsMatchProcesses, Process
<1>2. \A d \in ToolCalls : process'[d] = IF d = c THEN x ELSE process[d]
  BY <1>1
<1>3. HarnessTypeOK'
  BY <1>1 DEF HarnessInv, HarnessTypeOK, Process
<1>4. CallsMatchProcesses'
  BY <1>2 DEF HarnessInv, CallsMatchProcesses
<1>5. callsMade' \in Nat /\ callsMade' >= callsMade
  BY DEF HarnessInv, HarnessTypeOK
<1>6. StartsAreCounted'
  BY <1>1, <1>2, <1>5, CountsStay
<1>. QED BY <1>3, <1>4, <1>6 DEF HarnessInv

\* A process that may still do something has a waiting call.
LEMMA RunningWaits ==
    ASSUME HarnessInv, NEW c \in ToolCalls, process[c].state \in {"running", "terminated"}
    PROVE  call[c].state = "waiting"
BY DEF HarnessInv, HarnessTypeOK, CallsMatchProcesses

\* At first there is no call (HarnessInit).
LEMMA InitHarnessInv == HarnessInit => HarnessInv
<1>. SUFFICES ASSUME HarnessInit PROVE HarnessInv
  OBVIOUS
<1>1. /\ turn = 1 /\ callsMade = 0 /\ aborted = FALSE
      /\ \A c \in ToolCalls : call[c] = NotCalled /\ process[c] = NoProcess
      /\ call = [c \in ToolCalls |-> NotCalled] /\ process = [c \in ToolCalls |-> NoProcess]
  BY DEF HarnessInit
<1>2. NotCalled \in Call /\ NotCalled.state = "none" /\ NotCalled.turn = 0 /\ NotCalled.result = "none"
  BY HarnessAssumption DEF NotCalled, Call
<1>3. NoProcess \in Process /\ NoProcess.state = "none"
  BY DEF NoProcess, Process
<1>4. HarnessTypeOK
  <2>1. turn \in 1..MaxTurns /\ callsMade \in Nat
    BY <1>1, HarnessAssumption
  <2>2. call \in [ToolCalls -> Call] /\ process \in [ToolCalls -> Process]
    BY <1>1, <1>2, <1>3
  <2>3. aborted \in BOOLEAN
    BY <1>1
  <2>. QED BY <2>1, <2>2, <2>3 DEF HarnessTypeOK, Call, Process
<1>5. CallsMatchProcesses
  BY <1>1, <1>2, <1>3 DEF CallsMatchProcesses
<1>6. \A t : Started(t) = {} /\ \A tool : OfTool(t, tool) = {}
  BY <1>1, <1>3 DEF Started, OfTool
<1>7. IsFiniteSet({}) /\ Cardinality({}) = 0
  BY FS_EmptySet
<1>8. StartsAreCounted
  BY <1>1, <1>6, <1>7, HarnessAssumption DEF StartsAreCounted
<1>. QED BY <1>4, <1>5, <1>8 DEF HarnessInv

-----------------------------------------------------------------------------
\* CallTool: the count is looked at and goes up in one step, so the set of the
\* turn's processes grows only while it is below both limits.
LEMMA CallToolStep ==
    ASSUME HarnessInv, NEW c \in ToolCalls, NEW tool \in Tools, NEW valid \in BOOLEAN, NEW starts \in BOOLEAN,
           CallTool(c, tool, valid, starts)
    PROVE  HarnessInv'
<1>1. /\ call[c].state = "none" /\ call[c].result = "none" /\ process[c].state = "none"
      /\ callsMade' = callsMade + 1 /\ turn' = turn /\ aborted' = aborted
  BY DEF CallTool, NotCalled, HarnessInv, CallsMatchProcesses
<1>2. /\ turn \in 1..MaxTurns /\ callsMade \in Nat /\ MaxTurns \in Nat
      /\ call \in [ToolCalls -> Call] /\ process \in [ToolCalls -> Process]
  BY HarnessAssumption DEF HarnessInv, HarnessTypeOK, Call, Process
<1>3. ASSUME NEW code \in Codes, code # "data", Answer(c, code), process' = process PROVE HarnessInv'
  <2>1. [state |-> "answered", turn |-> turn, result |-> code] \in Call
    BY <1>2 DEF Call
  <2>2. call' = [call EXCEPT ![c] = [state |-> "answered", turn |-> turn, result |-> code]]
    BY <1>3 DEF Answer
  <2>3. HarnessTypeOK'
    BY <1>1, <1>2, <1>3, <2>1, <2>2 DEF HarnessInv, HarnessTypeOK, Call
  <2>4. \A d \in ToolCalls : d # c => call'[d] = call[d]
    BY <1>2, <2>2
  <2>5. call'[c].state = "answered" /\ call'[c].turn = turn /\ call'[c].result = code
    BY <1>2, <2>2
  <2>6. CallsMatchProcesses'
    BY <1>1, <1>2, <1>3, <2>4, <2>5 DEF HarnessInv, CallsMatchProcesses
  <2>7. callsMade' \in Nat /\ callsMade' >= callsMade
    BY <1>1, <1>2
  <2>8. \A d \in ToolCalls : process[d].state # "none" => call'[d].turn = call[d].turn
    BY <1>1, <2>4
  <2>9. StartsAreCounted'
    BY <1>1, <1>3, <2>7, <2>8, CountsStay
  <2>. QED BY <2>3, <2>6, <2>9 DEF HarnessInv
<1>4. ASSUME Permitted(tool, callsMade),
             call' = [call EXCEPT ![c].state = "waiting", ![c].turn = turn],
             process' = [process EXCEPT ![c].state = "running", ![c].tool = tool]
      PROVE  HarnessInv'
  <2>1. /\ call' = [call EXCEPT ![c] = [call[c] EXCEPT !.state = "waiting", !.turn = turn]]
        /\ process' = [process EXCEPT ![c] = [process[c] EXCEPT !.state = "running", !.tool = tool]]
    BY <1>2, <1>4
  <2>2. [call[c] EXCEPT !.state = "waiting", !.turn = turn] \in Call
    <3>1. turn \in 0..MaxTurns /\ call[c] \in Call
      BY <1>2
    <3>. QED BY <3>1 DEF Call
  <2>3. [process[c] EXCEPT !.state = "running", !.tool = tool] \in Process
    BY <1>2 DEF Process
  <2>4. HarnessTypeOK'
    <3>1. call' \in [ToolCalls -> Call] /\ process' \in [ToolCalls -> Process]
      BY <1>2, <2>1, <2>2, <2>3
    <3>2. callsMade' \in Nat
      BY <1>1, <1>2
    <3>. QED BY <1>1, <3>1, <3>2 DEF HarnessInv, HarnessTypeOK, Call, Process
  <2>5. \A d \in ToolCalls : d # c => call'[d] = call[d] /\ process'[d] = process[d]
    BY <1>2, <2>1
  <2>6. /\ call'[c].state = "waiting" /\ call'[c].turn = turn /\ call'[c].result = "none"
        /\ process'[c].state = "running" /\ process'[c].tool = tool
    BY <1>1, <1>2, <2>1 DEF Call, Process
  <2>7. CallsMatchProcesses'
    BY <1>1, <1>2, <2>5, <2>6 DEF HarnessInv, CallsMatchProcesses
  <2>8. StartsAreCounted'
    <3>1. \A t : t # turn => Started(t)' = Started(t)
      BY <1>1, <2>5, <2>6 DEF Started
    <3>2. \A t, name : t # turn => OfTool(t, name)' = OfTool(t, name)
      BY <2>5, <2>6, <3>1 DEF OfTool, Started
    <3>3. Started(turn)' = Started(turn) \cup {c}
      <4>1. Started(turn)' = {d \in ToolCalls : process'[d].state # "none" /\ call'[d].turn = turn'}
        BY DEF Started
      <4>. QED BY <1>1, <2>5, <2>6, <4>1 DEF Started
    <3>4. /\ callsMade < MaxCallsPerTurn /\ callsMade < ToolLimit[tool] /\ tool \in DOMAIN ToolLimit
          /\ MaxCallsPerTurn \in Nat /\ ToolLimit \in [DOMAIN ToolLimit -> Nat]
      BY <1>4, HarnessAssumption DEF Permitted
    <3>5. IsFiniteSet(Started(turn)) /\ Cardinality(Started(turn)) <= callsMade /\ c \notin Started(turn)
      BY <1>1, <1>2 DEF HarnessInv, StartsAreCounted, Started
    <3>6. /\ Cardinality(Started(turn)) \in Nat /\ IsFiniteSet(Started(turn) \cup {c})
          /\ Cardinality(Started(turn) \cup {c}) = Cardinality(Started(turn)) + 1
      BY <3>5, FS_CardinalityType, FS_AddElement
    <3>7. Cardinality(Started(turn) \cup {c}) <= callsMade + 1
      BY <1>2, <3>5, <3>6
    <3>8. ASSUME NEW name \in AllowedTools, name \in DOMAIN ToolLimit
          PROVE  Cardinality(OfTool(turn, name)') <= ToolLimit[name]
      <4>1. CASE name = tool
        <5>1. OfTool(turn, name)' \subseteq Started(turn) \cup {c}
          BY <3>3 DEF OfTool
        <5>2. Cardinality(OfTool(turn, name)') <= Cardinality(Started(turn) \cup {c})
              /\ Cardinality(OfTool(turn, name)') \in Nat
          BY <3>6, <5>1, FS_Subset, FS_CardinalityType
        <5>. QED BY <1>2, <3>4, <3>6, <3>7, <4>1, <5>2
      <4>2. CASE name # tool
        <5>1. OfTool(turn, name)' = OfTool(turn, name)
          <6>1. OfTool(turn, name)' = {d \in Started(turn) \cup {c} : process'[d].tool = name}
            BY <3>3 DEF OfTool
          <6>2. Started(turn) \subseteq ToolCalls
            BY DEF Started
          <6>. QED BY <6>1, <6>2, <2>5, <2>6, <3>5, <4>2 DEF OfTool
        <5>. QED BY <1>2, <3>8, <5>1 DEF HarnessInv, StartsAreCounted
      <4>. QED BY <4>1, <4>2
    <3>9. Cardinality(Started(turn) \cup {c}) <= MaxCallsPerTurn
      BY <1>2, <3>4, <3>6, <3>7
    <3>10. ASSUME NEW t, t = turn
           PROVE  Started(t)' = Started(turn)' /\ \A name : OfTool(t, name)' = OfTool(turn, name)'
      <4>1. t = turn'
        BY <1>1, <3>10
      <4>. QED BY <4>1 DEF Started, OfTool
    <3>13. ASSUME NEW t \in Nat PROVE IsFiniteSet(Started(t)')
      <4>1. CASE t = turn
        BY <3>3, <3>6, <3>10, <4>1
      <4>2. CASE t # turn
        BY <3>1, <4>2 DEF HarnessInv, StartsAreCounted
      <4>. QED BY <4>1, <4>2
    <3>11. Cardinality(Started(turn)') <= callsMade'
      BY <1>1, <3>3, <3>7
    <3>12. ASSUME NEW t \in 1..turn
           PROVE  /\ Cardinality(Started(t)') <= MaxCallsPerTurn
                  /\ \A name \in AllowedTools :
                        name \in DOMAIN ToolLimit => Cardinality(OfTool(t, name)') <= ToolLimit[name]
      <4>1. CASE t = turn
        BY <3>3, <3>8, <3>9, <3>10, <4>1
      <4>2. CASE t # turn
        BY <3>1, <3>2, <4>2 DEF HarnessInv, StartsAreCounted
      <4>. QED BY <4>1, <4>2
    <3>. QED BY <1>1, <3>11, <3>12, <3>13 DEF StartsAreCounted
  <2>. QED BY <2>4, <2>7, <2>8 DEF HarnessInv
<1>5. CASE ~Permitted(tool, callsMade)
  BY <1>3, <1>5 DEF CallTool, Codes
<1>6. CASE Permitted(tool, callsMade) /\ ~valid
  BY <1>3, <1>6 DEF CallTool, Codes
<1>7. CASE Permitted(tool, callsMade) /\ valid /\ aborted
  BY <1>3, <1>7 DEF CallTool, Codes
<1>8. CASE Permitted(tool, callsMade) /\ valid /\ ~aborted /\ ~starts
  BY <1>3, <1>8 DEF CallTool, Codes
<1>9. CASE Permitted(tool, callsMade) /\ valid /\ ~aborted /\ starts
  BY <1>4, <1>9 DEF CallTool
<1>. QED BY <1>5, <1>6, <1>7, <1>8, <1>9

\* What terminateChild makes of a process is a process that is still there.
LEMMA TerminatedIsProcess ==
    ASSUME NEW x \in Process
    PROVE  /\ Terminated(x) \in Process
           /\ Terminated(x).state = "none" <=> x.state = "none"
           /\ Terminated(x).tool = x.tool /\ Terminated(x).output = x.output
           /\ Terminated(x).timedOut = x.timedOut /\ Terminated(x).cancelled = x.cancelled
           /\ Terminated(x).tooLarge = x.tooLarge
BY DEF Terminated, Process

\* A flag that is raised leaves the rest of the process as it is.
LEMMA FlagIsRaised ==
    ASSUME NEW x \in Process, NEW y, y \in {[x EXCEPT !.timedOut = TRUE], [x EXCEPT !.cancelled = TRUE],
                                           [x EXCEPT !.tooLarge = TRUE]}
    PROVE  y \in Process /\ y.state = x.state /\ y.tool = x.tool
BY DEF Process

\* Every step of a session keeps the invariant.
LEMMA HarnessInvStep == HarnessInv /\ [HarnessNext]_harnessVars => HarnessInv'
<1>. SUFFICES ASSUME HarnessInv, [HarnessNext]_harnessVars PROVE HarnessInv'
  OBVIOUS
<1>0. /\ call \in [ToolCalls -> Call] /\ process \in [ToolCalls -> Process]
      /\ turn \in 1..MaxTurns /\ callsMade \in Nat /\ MaxTurns \in Nat
  BY HarnessAssumption DEF HarnessInv, HarnessTypeOK, Call, Process
<1>1. ASSUME NEW c \in ToolCalls, NEW tool \in Tools, NEW valid \in BOOLEAN, NEW starts \in BOOLEAN,
             CallTool(c, tool, valid, starts)
      PROVE  HarnessInv'
  BY <1>1, CallToolStep
\* A new turn has no process yet.
<1>2. CASE StartTurn
  <2>1. /\ turn < MaxTurns /\ turn' = turn + 1 /\ callsMade' = 0
        /\ UNCHANGED <<call, process, aborted>>
    BY <1>2 DEF StartTurn
  <2>2. turn' \in 1..MaxTurns /\ turn' > turn /\ turn' \in Nat
    BY <1>0, <2>1
  <2>3. HarnessTypeOK'
    BY <2>1, <2>2 DEF HarnessInv, HarnessTypeOK
  <2>4. \A c \in ToolCalls : call[c].turn \in Nat
    BY <1>0 DEF Call
  <2>5. CallsMatchProcesses'
    BY <1>0, <2>1, <2>2, <2>4 DEF HarnessInv, CallsMatchProcesses
  <2>6. \A t : Started(t)' = Started(t) /\ \A tool : OfTool(t, tool)' = OfTool(t, tool)
    BY <2>1, SameStarts
  <2>7. Started(turn + 1) = {} /\ \A tool : OfTool(turn + 1, tool) = {}
    BY <1>0, <2>4 DEF HarnessInv, CallsMatchProcesses, Started, OfTool
  <2>8. Started(turn)' = {}
    <3>1. Started(turn)' = {c \in ToolCalls : process[c].state # "none" /\ call[c].turn = turn + 1}
      BY <2>1 DEF Started
    <3>. QED BY <2>7, <3>1 DEF Started
  <2>9. IsFiniteSet({}) /\ Cardinality({}) = 0
    BY FS_EmptySet
  <2>10. ASSUME NEW t \in 1..turn'
         PROVE  /\ Cardinality(Started(t)') <= MaxCallsPerTurn
                /\ \A tool \in AllowedTools :
                      tool \in DOMAIN ToolLimit => Cardinality(OfTool(t, tool)') <= ToolLimit[tool]
    <3>1. CASE t \in 1..turn
      BY <2>6, <3>1 DEF HarnessInv, StartsAreCounted
    <3>2. CASE t = turn + 1
      BY <2>6, <2>7, <2>9, <3>2, HarnessAssumption
    <3>. QED BY <1>0, <2>1, <3>1, <3>2
  <2>11. Cardinality(Started(turn)') <= callsMade'
    BY <2>1, <2>8, <2>9
  <2>12. \A t \in Nat : IsFiniteSet(Started(t)')
    BY <2>6 DEF HarnessInv, StartsAreCounted
  <2>13. StartsAreCounted'
    BY <2>10, <2>11, <2>12 DEF StartsAreCounted
  <2>. QED BY <2>3, <2>5, <2>13 DEF HarnessInv
\* Only the processes of waiting calls are told.
<1>3. CASE Abort
  <2>1. /\ process' = [c \in ToolCalls |->
                          IF call[c].state = "waiting"
                          THEN [Terminated(process[c]) EXCEPT !.cancelled = TRUE] ELSE process[c]]
        /\ aborted' = TRUE /\ UNCHANGED <<turn, callsMade, call>>
    BY <1>3 DEF Abort
  <2>2. ASSUME NEW c \in ToolCalls
        PROVE  /\ [Terminated(process[c]) EXCEPT !.cancelled = TRUE] \in Process
               /\ [Terminated(process[c]) EXCEPT !.cancelled = TRUE].state = Terminated(process[c]).state
               /\ [Terminated(process[c]) EXCEPT !.cancelled = TRUE].tool = process[c].tool
    BY <1>0, TerminatedIsProcess, FlagIsRaised
  <2>3. \A c \in ToolCalls :
           /\ process'[c] \in Process /\ process'[c].tool = process[c].tool
           /\ process'[c].state = "none" <=> process[c].state = "none"
           /\ call[c].state # "waiting" => process'[c] = process[c]
    BY <1>0, <2>1, <2>2, TerminatedIsProcess
  <2>4. process' \in [ToolCalls -> Process]
    BY <1>0, <2>1, <2>2
  <2>5. HarnessTypeOK'
    BY <2>1, <2>4 DEF HarnessInv, HarnessTypeOK, Process
  <2>6. CallsMatchProcesses'
    BY <2>1, <2>3 DEF HarnessInv, CallsMatchProcesses
  <2>7. callsMade' \in Nat /\ callsMade' >= callsMade
    BY <1>0, <2>1
  <2>8. StartsAreCounted'
    BY <2>1, <2>3, <2>7, CountsStay
  <2>. QED BY <2>5, <2>6, <2>8 DEF HarnessInv
<1>4. ASSUME NEW c \in ToolCalls, NEW accepted \in BOOLEAN, NEW size \in Sizes, Respond(c, accepted, size)
      PROVE  HarnessInv'
  <2>1. call[c].state = "waiting" /\ process[c] \in Process /\ process[c].state \in {"running", "terminated"}
    BY <1>0, <1>4, RunningWaits DEF Respond, Running
  <2>2. Response(accepted, size) \in Codes \cup {"data"}
    <3>1. size > MaxResponse \/ size <= MaxResponse
      BY HarnessAssumption
    <3>. QED BY <3>1 DEF Response, Codes
  <2>3. CASE Response(accepted, size) = "data" /\ size > MaxOutput
    <3>1. process' = [process EXCEPT ![c] = [Terminated(process[c]) EXCEPT !.tooLarge = TRUE]]
          /\ UNCHANGED <<turn, callsMade, call, aborted>>
      BY <1>0, <1>4, <2>3 DEF Respond
    <3>2. /\ [Terminated(process[c]) EXCEPT !.tooLarge = TRUE] \in Process
          /\ [Terminated(process[c]) EXCEPT !.tooLarge = TRUE].state # "none"
          /\ [Terminated(process[c]) EXCEPT !.tooLarge = TRUE].tool = process[c].tool
      <4>1. Terminated(process[c]) \in Process /\ Terminated(process[c]).state # "none"
        BY <2>1, TerminatedIsProcess
      <4>. QED BY <2>1, <4>1, TerminatedIsProcess, FlagIsRaised
    <3>. QED BY <2>1, <3>1, <3>2, ProcessStep
  <2>4. CASE ~(Response(accepted, size) = "data" /\ size > MaxOutput)
    <3>1. process' = [process EXCEPT ![c] =
                         [process[c] EXCEPT !.output = Response(accepted, size), !.state = "closed"]]
          /\ UNCHANGED <<turn, callsMade, call, aborted>>
      BY <1>0, <1>4, <2>4 DEF Respond
    <3>2. /\ [process[c] EXCEPT !.output = Response(accepted, size), !.state = "closed"] \in Process
          /\ [process[c] EXCEPT !.output = Response(accepted, size), !.state = "closed"].state = "closed"
          /\ [process[c] EXCEPT !.output = Response(accepted, size), !.state = "closed"].tool = process[c].tool
      BY <2>1, <2>2 DEF Process
    <3>. QED BY <2>1, <3>1, <3>2, ProcessStep
  <2>. QED BY <2>3, <2>4
<1>5. ASSUME NEW c \in ToolCalls, TimeOut(c) PROVE HarnessInv'
  <2>1. /\ call[c].state = "waiting" /\ UNCHANGED <<turn, callsMade, call, aborted>>
        /\ process' = [process EXCEPT ![c] = [Terminated(process[c]) EXCEPT !.timedOut = TRUE]]
    BY <1>0, <1>5 DEF TimeOut
  <2>2. process[c] \in Process /\ process[c].state # "none"
    BY <1>0, <2>1 DEF HarnessInv, CallsMatchProcesses
  <2>3. /\ [Terminated(process[c]) EXCEPT !.timedOut = TRUE] \in Process
        /\ [Terminated(process[c]) EXCEPT !.timedOut = TRUE].state # "none"
        /\ [Terminated(process[c]) EXCEPT !.timedOut = TRUE].tool = process[c].tool
    BY <2>2, TerminatedIsProcess, FlagIsRaised
  <2>. QED BY <2>1, <2>3, ProcessStep
\* A process that ends, of itself or because it was told to.
<1>6. ASSUME NEW c \in ToolCalls, NEW output \in {"INVALID_JSON", "BRIDGE_EXIT"},
             process[c].state \in {"running", "terminated"},
             process' = [process EXCEPT ![c].state = "closed", ![c].output = output],
             UNCHANGED <<turn, callsMade, call, aborted>>
      PROVE  HarnessInv'
  <2>1. call[c].state = "waiting" /\ process[c] \in Process
    BY <1>0, <1>6, RunningWaits
  <2>2. process' = [process EXCEPT ![c] = [process[c] EXCEPT !.state = "closed", !.output = output]]
    BY <1>0, <1>6
  <2>3. /\ [process[c] EXCEPT !.state = "closed", !.output = output] \in Process
        /\ [process[c] EXCEPT !.state = "closed", !.output = output].state = "closed"
        /\ [process[c] EXCEPT !.state = "closed", !.output = output].tool = process[c].tool
    BY <2>1, <1>6 DEF Process, Codes
  <2>. QED BY <1>6, <2>1, <2>2, <2>3, ProcessStep
<1>7. ASSUME NEW c \in ToolCalls, Crash(c) \/ ObeyTerm(c) \/ Kill(c) PROVE HarnessInv'
  BY <1>6, <1>7 DEF Crash, ObeyTerm, Kill, Killable, Running
\* The answer is data only if none of the three flags was raised.
<1>8. ASSUME NEW c \in ToolCalls, Settle(c) PROVE HarnessInv'
  <2>1. /\ call[c].state = "waiting" /\ process[c].state = "closed" /\ process[c] \in Process
        /\ call' = [call EXCEPT ![c].state = "answered", ![c].result = Outcome(process[c])]
        /\ UNCHANGED <<turn, callsMade, process, aborted>>
    BY <1>0, <1>8 DEF Settle
  <2>2. Outcome(process[c]) \in Codes \cup {"none", "data"}
    BY <2>1 DEF Outcome, Process, Codes
  <2>3. Outcome(process[c]) = "data" =>
           ~process[c].timedOut /\ ~process[c].cancelled /\ ~process[c].tooLarge
    BY <2>1 DEF Outcome, Process
  <2>4. /\ call' \in [ToolCalls -> Call]
        /\ \A d \in ToolCalls : d # c => call'[d] = call[d]
        /\ call'[c].state = "answered" /\ call'[c].turn = call[c].turn
        /\ call'[c].result = Outcome(process[c])
    BY <1>0, <2>1, <2>2 DEF Call
  <2>5. HarnessTypeOK'
    BY <2>1, <2>4 DEF HarnessInv, HarnessTypeOK, Call
  <2>6. CallsMatchProcesses'
    BY <2>1, <2>3, <2>4 DEF HarnessInv, CallsMatchProcesses
  <2>7. callsMade' \in Nat /\ callsMade' >= callsMade
    BY <1>0, <2>1
  <2>8. StartsAreCounted'
    BY <2>1, <2>4, <2>7, CountsStay
  <2>. QED BY <2>5, <2>6, <2>8 DEF HarnessInv
<1>9. CASE UNCHANGED harnessVars
  <2>1. callsMade' \in Nat /\ callsMade' >= callsMade
    BY <1>0, <1>9 DEF harnessVars
  <2>2. StartsAreCounted'
    BY <1>9, <2>1, CountsStay DEF harnessVars
  <2>3. HarnessTypeOK' /\ CallsMatchProcesses'
    BY <1>9 DEF harnessVars, HarnessInv, HarnessTypeOK, CallsMatchProcesses
  <2>. QED BY <2>2, <2>3 DEF HarnessInv
<1>. QED
  BY <1>1, <1>2, <1>3, <1>4, <1>5, <1>7, <1>8, <1>9 DEF HarnessNext

\* The tools of a session stay within its limits however many run at once, none
\* outlives its call, and a late or cut answer never reaches the agent as data.
THEOREM ToolsStayContained == HarnessSpec => []ToolCallsAreContained
<1>1. HarnessInv => ToolCallsAreContained
  <2>. SUFFICES ASSUME HarnessInv PROVE ToolCallsAreContained
    OBVIOUS
  <2>1. \A t \in 1..turn :
           /\ Cardinality(Started(t)) <= MaxCallsPerTurn
           /\ \A tool \in AllowedTools :
                 tool \in DOMAIN ToolLimit =>
                    Cardinality({c \in Started(t) : process[c].tool = tool}) <= ToolLimit[tool]
    BY DEF HarnessInv, StartsAreCounted, OfTool
  <2>2. \A c \in ToolCalls :
           /\ call[c].state = "answered" => ~Running(c)
           /\ call[c].result = "data" =>
                 ~process[c].timedOut /\ ~process[c].cancelled /\ ~process[c].tooLarge
    BY DEF HarnessInv, CallsMatchProcesses, Running
  <2>. QED BY <2>1, <2>2 DEF ToolCallsAreContained
<1>. QED BY <1>1, InitHarnessInv, HarnessInvStep, PTL DEF HarnessSpec

-----------------------------------------------------------------------------
(***************************************************************************)
(* A simulated round is decided by the time the loop gives up, for any     *)
(* players, zones and durations: an undecided round has time left for what *)
(* it waits for.                                                           *)
(***************************************************************************)

Body == [zone : Places, alive : BOOLEAN, sees : BOOLEAN, hasBomb : BOOLEAN, utility : Nat]

Execution == [type : {"none", "hold", "peek", "save", "use_utility", "move", "plant", "defuse"},
              zone : Places, elapsed : Nat]

BombState == [state : {"carried", "planted", "defused", "detonated"}, left : 0..BombTicks]

\* An undecided round before the plant has time left, and after it has time
\* for the bomb to go off before the loop gives up.
TimeIsLeft ==
    winner = "none" =>
        /\ bomb.state \in {"carried", "planted"}
        /\ bomb.state = "carried" => clock < RoundTicks
        /\ bomb.state = "planted" => bomb.left >= 1 /\ clock + bomb.left <= RoundTicks + BombTicks - 1

\* The bomb is carried by one player or by none, and only a player who carries
\* it plants it.
OneBomb ==
    /\ bomb.state = "carried" <=> \E p \in Fighters : body[p].hasBomb
    /\ \A p, q \in Fighters : body[p].hasBomb /\ body[q].hasBomb => p = q
    /\ \A p \in Fighters : execution[p].type = "plant" => body[p].hasBomb

WonWhileTicking == winner # "none" /\ bomb.state = "planted" => AliveOf("ct") = {}

SimulatorInv == SimulatorTypeOK /\ TimeIsLeft /\ OneBomb /\ WonWhileTicking

-----------------------------------------------------------------------------
\* legal_actions offers a plant only to the player with the bomb.
LEMMA LegalActionsAreSound ==
    ASSUME SimulatorTypeOK, NEW p \in Fighters, NEW a \in LegalActions(p)
    PROVE  a \in Execution /\ (a.type = "plant" => body[p].hasBomb)
<1>1. body[p] \in Body /\ BombSite \in Places /\ Adjacent[body[p].zone] \subseteq Places
  BY SimulatorAssumption DEF SimulatorTypeOK, Body
<1>2. ASSUME NEW type \in {"hold", "peek", "save"} \cup (IF body[p].utility > 0 THEN {"use_utility"} ELSE {})
                          \cup (IF TeamOf[p] = "t" /\ body[p].hasBomb /\ bomb.state = "carried" /\ AtSite(p)
                                THEN {"plant"} ELSE {})
                          \cup (IF TeamOf[p] = "ct" /\ bomb.state = "planted" /\ AtSite(p)
                                THEN {"defuse"} ELSE {}),
             a = Action0(type, BombSite)
      PROVE  a \in Execution /\ (a.type = "plant" => body[p].hasBomb)
  <2>1. type \in {"hold", "peek", "save", "use_utility", "plant", "defuse"}
        /\ (type = "plant" => body[p].hasBomb)
    BY <1>2
  <2>2. a = [type |-> type, zone |-> BombSite, elapsed |-> 0]
    BY <1>2 DEF Action0
  <2>. QED BY <1>1, <2>1, <2>2 DEF Execution
<1>3. ASSUME NEW zone \in Adjacent[body[p].zone], a = Action0("move", zone)
      PROVE  a \in Execution /\ (a.type = "plant" => body[p].hasBomb)
  <2>1. a = [type |-> "move", zone |-> zone, elapsed |-> 0] /\ zone \in Places
    BY <1>1, <1>3 DEF Action0
  <2>. QED BY <2>1 DEF Execution
<1>. QED BY <1>2, <1>3 DEF LegalActions

\* The timer of a pass that does not let the bomb go off (Ticked).
LEMMA BombTicksOn ==
    ASSUME NEW b \in BombState, b.state = "planted", b.left > 1
    PROVE  Ticked(b) \in BombState /\ Ticked(b).state = "planted" /\ Ticked(b).left = b.left - 1
<1>1. b.left \in 0..BombTicks /\ BombTicks \in Nat
  BY SimulatorAssumption DEF BombState
<1>2. ~(b.left <= 1) /\ b.left - 1 \in 0..BombTicks
  BY <1>1
<1>3. Ticked(b) = [b EXCEPT !.left = b.left - 1]
  BY <1>2 DEF Ticked
<1>. QED BY <1>2, <1>3 DEF BombState

\* At first the bomb ticks or is carried (SimulatorInit).
LEMMA InitSimulatorInv == SimulatorInit => SimulatorInv
<1>. SUFFICES ASSUME SimulatorInit PROVE SimulatorInv
  OBVIOUS
<1>1. PICK zone \in [Fighters -> Places], alive, sees \in SUBSET Fighters, carrier \in Fighters,
           planted \in BOOLEAN, remaining \in 1..BombTicks :
        /\ TeamOf[carrier] = "t"
        /\ body = [p \in Fighters |->
                      [zone |-> zone[p], alive |-> p \in alive, sees |-> p \in sees,
                       hasBomb |-> p = carrier /\ ~planted, utility |-> 1]]
        /\ bomb = IF planted THEN [state |-> "planted", left |-> remaining]
                             ELSE [state |-> "carried", left |-> 0]
  BY DEF SimulatorInit
<1>2. /\ clock = 0 /\ nextChoice = 0 /\ winner = "none"
      /\ execution = [p \in Fighters |-> [type |-> "none", zone |-> BombSite, elapsed |-> 0]]
  BY DEF SimulatorInit, Idle, Action0
<1>3. /\ RoundTicks \in Nat \ {0} /\ BombTicks \in Nat \ {0} /\ BombSite \in Places
  BY SimulatorAssumption
<1>4. SimulatorTypeOK
  <2>1. bomb \in BombState
    BY <1>1, <1>3 DEF BombState
  <2>2. body \in [Fighters -> Body]
    BY <1>1 DEF Body
  <2>3. execution \in [Fighters -> Execution]
    BY <1>2, <1>3 DEF Execution
  <2>4. clock \in Nat /\ nextChoice \in Nat
    BY <1>2
  <2>. QED BY <1>2, <2>1, <2>2, <2>3, <2>4 DEF SimulatorTypeOK, BombState, Body, Execution
<1>5. TimeIsLeft
  BY <1>1, <1>2, <1>3 DEF TimeIsLeft
<1>6. OneBomb
  BY <1>1, <1>2 DEF OneBomb
<1>. QED BY <1>2, <1>4, <1>5, <1>6 DEF SimulatorInv, WonWhileTicking

\* One pass of the loop keeps the invariant.
LEMMA PassStep ==
    ASSUME SimulatorInv, NEW choice \in [Choosers -> AnyAction], Pass(choice)
    PROVE  SimulatorInv'
<1>. DEFINE acting == [p \in Fighters |-> IF p \in Choosers THEN choice[p] ELSE execution[p]]
            planting == \E p \in Fighters : Completes(p, acting[p]) /\ acting[p].type = "plant"
            defusing == \E p \in Fighters : Completes(p, acting[p]) /\ acting[p].type = "defuse"
<1>0. /\ body \in [Fighters -> Body] /\ execution \in [Fighters -> Execution] /\ bomb \in BombState
      /\ clock \in Nat /\ nextChoice \in Nat /\ winner \in {"none", "ct", "t"}
  BY DEF SimulatorInv, SimulatorTypeOK, Body, Execution, BombState
<1>1. /\ winner = "none" /\ clock < RoundTicks + BombTicks
      /\ \A p \in Choosers : choice[p] \in LegalActions(p)
      /\ execution' = [p \in Fighters |->
            IF acting[p] = Idle \/ Interrupted(p, acting[p]) \/ Completes(p, acting[p])
            THEN Idle ELSE [acting[p] EXCEPT !.elapsed = @ + 1]]
      /\ body' = [p \in Fighters |-> BodyAfter(p, acting[p])]
      /\ bomb' = Ticked(BombAfter(acting))
      /\ nextChoice' = IF clock >= nextChoice THEN nextChoice + DecisionTicks ELSE nextChoice
      /\ clock' = clock + 1 /\ winner' = RoundWinner(bomb'.state, clock')
  BY <1>0, SimulatorAssumption DEF Pass, LoopEnds
<1>2. RoundTicks \in Nat \ {0} /\ BombTicks \in Nat \ {0} /\ DecisionTicks \in Nat \ {0} /\ BombSite \in Places
  BY SimulatorAssumption
\* Who plants has the bomb.
<1>3. ASSUME NEW p \in Fighters
      PROVE  acting[p] \in Execution /\ (acting[p].type = "plant" => body[p].hasBomb)
  <2>1. CASE p \in Choosers
    <3>1. acting[p] \in LegalActions(p)
      BY <1>1, <2>1
    <3>. QED BY <3>1, LegalActionsAreSound DEF SimulatorInv
  <2>2. CASE p \notin Choosers
    BY <1>0, <2>2 DEF SimulatorInv, OneBomb
  <2>. QED BY <2>1, <2>2
<1>. HIDE DEF acting
\* What a player's action makes of the player.
<1>4. ASSUME NEW p \in Fighters
      PROVE  /\ body'[p] \in Body /\ body'[p].alive = body[p].alive
             /\ body'[p].hasBomb <=> body[p].hasBomb /\ ~(Completes(p, acting[p]) /\ acting[p].type = "plant")
  <2>1. body[p] \in Body /\ acting[p] \in Execution
    BY <1>0, <1>3
  <2>2. body'[p] = BodyAfter(p, acting[p])
    BY <1>1
  <2>3. CASE ~Completes(p, acting[p])
    BY <2>1, <2>2, <2>3 DEF BodyAfter
  <2>4. CASE Completes(p, acting[p]) /\ acting[p].type = "move"
    <3>1. body'[p] = [body[p] EXCEPT !.zone = acting[p].zone]
      BY <2>2, <2>4 DEF BodyAfter
    <3>. QED BY <2>1, <2>4, <3>1 DEF Body, Execution
  <2>5. CASE Completes(p, acting[p]) /\ acting[p].type = "use_utility"
    <3>1. body'[p] = [body[p] EXCEPT !.utility = IF body[p].utility > 0 THEN body[p].utility - 1 ELSE 0]
      BY <2>2, <2>5 DEF BodyAfter
    <3>2. (IF body[p].utility > 0 THEN body[p].utility - 1 ELSE 0) \in Nat
      BY <2>1 DEF Body
    <3>. QED BY <2>1, <2>5, <3>1, <3>2 DEF Body
  <2>6. CASE Completes(p, acting[p]) /\ acting[p].type = "plant"
    <3>1. body'[p] = [body[p] EXCEPT !.hasBomb = FALSE]
      BY <2>2, <2>6 DEF BodyAfter
    <3>. QED BY <2>1, <2>6, <3>1 DEF Body
  <2>7. CASE Completes(p, acting[p]) /\ acting[p].type \notin {"move", "use_utility", "plant"}
    <3>1. body'[p] = body[p]
      BY <2>2, <2>7 DEF BodyAfter
    <3>. QED BY <2>1, <2>7, <3>1
  <2>. QED BY <2>3, <2>4, <2>5, <2>6, <2>7
<1>5. ASSUME NEW p \in Fighters
      PROVE  /\ execution'[p] \in Execution
             /\ execution'[p].type = "plant" =>
                   acting[p].type = "plant" /\ ~Completes(p, acting[p])
  <2>1. acting[p] \in Execution
    BY <1>3
  <2>2. CASE acting[p] = Idle \/ Interrupted(p, acting[p]) \/ Completes(p, acting[p])
    <3>1. execution'[p] = [type |-> "none", zone |-> BombSite, elapsed |-> 0]
      BY <1>1, <2>2 DEF Idle, Action0
    <3>. QED BY <1>2, <3>1 DEF Execution
  <2>3. CASE ~(acting[p] = Idle \/ Interrupted(p, acting[p]) \/ Completes(p, acting[p]))
    <3>1. execution'[p] = [acting[p] EXCEPT !.elapsed = acting[p].elapsed + 1]
      BY <1>1, <2>3
    <3>2. acting[p].elapsed + 1 \in Nat
      BY <2>1 DEF Execution
    <3>. QED BY <2>1, <2>3, <3>1, <3>2 DEF Execution
  <2>. QED BY <2>2, <2>3
\* What the pass makes of the bomb.
<1>6. planting => bomb.state = "carried"
  BY <1>3 DEF SimulatorInv, OneBomb
<1>7. planting => bomb' = Ticked([state |-> "planted", left |-> BombTicks])
  BY <1>1 DEF BombAfter
<1>8. ~planting /\ defusing /\ bomb.state = "planted" => bomb' = Ticked([state |-> "defused", left |-> 0])
  BY <1>1 DEF BombAfter
<1>9. ~planting /\ ~(defusing /\ bomb.state = "planted") => bomb' = Ticked(bomb)
  BY <1>1 DEF BombAfter
<1>10. /\ bomb' \in BombState
       /\ bomb'.state = "carried" <=> bomb.state = "carried" /\ ~planting
       /\ bomb'.state = "planted" =>
             bomb'.left >= 1 /\ clock' + bomb'.left <= RoundTicks + BombTicks - 1
  <2>1. CASE planting
    <3>1. clock < RoundTicks /\ bomb.state = "carried"
      BY <1>1, <1>6, <2>1 DEF SimulatorInv, TimeIsLeft
    <3>2. CASE BombTicks > 1
      <4>1. [state |-> "planted", left |-> BombTicks] \in BombState
        BY <1>2 DEF BombState
      <4>2. BombTicks - 1 >= 1
        BY <1>2, <3>2
      <4>3. bomb' \in BombState /\ bomb'.state = "planted" /\ bomb'.left = BombTicks - 1
        BY <1>7, <2>1, <3>2, <4>1, BombTicksOn
      <4>4. clock + 1 + (BombTicks - 1) <= RoundTicks + BombTicks - 1
        BY <1>0, <1>2, <3>1
      <4>. QED BY <1>1, <2>1, <4>2, <4>3, <4>4
    <3>3. CASE BombTicks <= 1
      <4>1. bomb' = [state |-> "detonated", left |-> 0]
        BY <1>2, <1>7, <2>1, <3>3 DEF Ticked
      <4>. QED BY <1>2, <2>1, <4>1 DEF BombState
    <3>. QED BY <1>2, <3>2, <3>3
  <2>2. CASE ~planting /\ defusing /\ bomb.state = "planted"
    <3>1. bomb' = [state |-> "defused", left |-> 0]
      BY <1>8, <2>2 DEF Ticked
    <3>. QED BY <1>2, <2>2, <3>1 DEF BombState
  <2>3. CASE ~planting /\ ~(defusing /\ bomb.state = "planted")
    <3>1. CASE bomb.state = "planted" /\ bomb.left > 1
      <4>2. bomb.left >= 1 /\ clock + bomb.left <= RoundTicks + BombTicks - 1
        BY <1>1, <3>1 DEF SimulatorInv, TimeIsLeft
      <4>1. bomb.left \in 0..BombTicks
        BY <1>0 DEF BombState
      <4>3. bomb.left - 1 \in 0..BombTicks /\ bomb.left - 1 >= 1
        BY <1>2, <3>1, <4>1
      <4>4. bomb'.state = "planted" /\ bomb'.left = bomb.left - 1 /\ bomb' \in BombState
        BY <1>0, <1>9, <2>3, <3>1, BombTicksOn
      <4>5. clock' + bomb'.left <= RoundTicks + BombTicks - 1
        BY <1>0, <1>1, <1>2, <4>2, <4>4 DEF BombState
      <4>. QED BY <3>1, <4>3, <4>4, <4>5
    <3>2. CASE bomb.state = "planted" /\ bomb.left <= 1
      <4>1. bomb' = [state |-> "detonated", left |-> 0]
        BY <1>0, <1>9, <2>3, <3>2 DEF Ticked, BombState
      <4>. QED BY <1>2, <3>2, <4>1 DEF BombState
    <3>3. CASE bomb.state # "planted"
      <4>1. bomb' = bomb
        BY <1>9, <2>3, <3>3 DEF Ticked
      <4>. QED BY <1>0, <2>3, <3>3, <4>1
    <3>. QED BY <1>0, <3>1, <3>2, <3>3 DEF BombState
  <2>. QED BY <2>1, <2>2, <2>3
\* Who wins, and when nobody does.
<1>11. AliveOf("ct")' = AliveOf("ct")
  BY <1>4 DEF AliveOf
<1>12. /\ winner' \in {"none", "ct", "t"}
       /\ winner' = "none" =>
             /\ bomb'.state \in {"carried", "planted"}
             /\ bomb'.state = "carried" => ~(clock' >= RoundTicks)
       /\ winner' # "none" /\ bomb'.state = "planted" => AliveOf("ct") = {}
  <2>1. bomb'.state \in {"carried", "planted", "defused", "detonated"}
    BY <1>10 DEF BombState
  <2>2. winner' = RoundWinner(bomb'.state, clock')
    BY <1>1
  <2>3. CASE bomb'.state = "detonated"
    BY <2>2, <2>3 DEF RoundWinner
  <2>4. CASE bomb'.state = "defused"
    BY <2>2, <2>4 DEF RoundWinner
  <2>5. CASE bomb'.state \in {"carried", "planted"} /\ AliveOf("t") = {}
    BY <2>2, <2>5 DEF RoundWinner
  <2>6. CASE bomb'.state \in {"carried", "planted"} /\ AliveOf("t") # {} /\ AliveOf("ct") = {}
    BY <2>2, <2>6 DEF RoundWinner
  <2>7. CASE bomb'.state \in {"carried", "planted"} /\ AliveOf("t") # {} /\ AliveOf("ct") # {}
    <3>1. winner' = IF bomb'.state # "planted" /\ clock' >= RoundTicks THEN "ct" ELSE "none"
      BY <2>2, <2>7 DEF RoundWinner
    <3>. QED BY <2>7, <3>1
  <2>. QED BY <2>1, <2>3, <2>4, <2>5, <2>6, <2>7
<1>13. SimulatorTypeOK'
  <2>1. body' \in [Fighters -> Body]
    BY <1>1, <1>4
  <2>2. execution' \in [Fighters -> Execution]
    BY <1>1, <1>5
  <2>3. clock' \in Nat /\ nextChoice' \in Nat
    BY <1>0, <1>1, <1>2
  <2>. QED BY <1>10, <1>12, <2>1, <2>2, <2>3 DEF SimulatorTypeOK, Body, Execution, BombState
<1>14. TimeIsLeft'
  <2>1. clock' \in Nat
    BY <1>0, <1>1
  <2>. QED BY <1>2, <1>10, <1>12, <2>1 DEF TimeIsLeft
<1>15. OneBomb'
  <2>1. \A p, q \in Fighters : body'[p].hasBomb /\ body'[q].hasBomb => p = q
    BY <1>4 DEF SimulatorInv, OneBomb
  <2>2. \A p \in Fighters : execution'[p].type = "plant" => body'[p].hasBomb
    BY <1>3, <1>4, <1>5
  <2>3. CASE planting
    <3>1. PICK p \in Fighters : Completes(p, acting[p]) /\ acting[p].type = "plant"
      BY <2>3
    <3>2. \A q \in Fighters : ~body'[q].hasBomb
      BY <1>3, <1>4, <3>1 DEF SimulatorInv, OneBomb
    <3>. QED BY <1>10, <2>1, <2>2, <2>3, <3>2 DEF OneBomb
  <2>4. CASE ~planting
    <3>1. \A p \in Fighters : body'[p].hasBomb <=> body[p].hasBomb
      BY <1>4, <2>4
    <3>. QED BY <1>10, <2>1, <2>2, <2>4, <3>1 DEF SimulatorInv, OneBomb
  <2>. QED BY <2>3, <2>4
<1>16. WonWhileTicking'
  BY <1>11, <1>12 DEF WonWhileTicking
<1>. QED BY <1>13, <1>14, <1>15, <1>16 DEF SimulatorInv

\* Every step of the simulator keeps the invariant.
LEMMA SimulatorInvStep == SimulatorInv /\ [SimulatorNext]_simulatorVars => SimulatorInv'
<1>. SUFFICES ASSUME SimulatorInv, [SimulatorNext]_simulatorVars PROVE SimulatorInv'
  OBVIOUS
<1>1. CASE SimulatorNext
  BY <1>1, PassStep DEF SimulatorNext
<1>2. CASE UNCHANGED simulatorVars
  BY <1>2 DEF simulatorVars, SimulatorInv, SimulatorTypeOK, TimeIsLeft, OneBomb, WonWhileTicking, AliveOf
<1>. QED BY <1>1, <1>2

\* When the loop ends, the round has a winner: the last plant leaves the bomb
\* enough of the loop to go off, whatever the players do meanwhile.
THEOREM RoundsAreDecided == SimulatorSpec => []RoundIsDecided
<1>1. SimulatorInv => RoundIsDecided
  <2>. SUFFICES ASSUME SimulatorInv PROVE RoundIsDecided
    OBVIOUS
  <2>1. ASSUME LoopEnds, winner = "none" PROVE FALSE
    <3>1. clock \in Nat /\ bomb \in BombState /\ RoundTicks \in Nat /\ BombTicks \in Nat
      BY SimulatorAssumption DEF SimulatorInv, SimulatorTypeOK, BombState
    <3>2. clock >= RoundTicks + BombTicks
      BY <2>1 DEF LoopEnds
    <3>3. bomb.left \in Nat
      BY <3>1 DEF BombState
    <3>. QED BY <2>1, <3>1, <3>2, <3>3 DEF SimulatorInv, TimeIsLeft
  <2>. QED BY <2>1 DEF SimulatorInv, WonWhileTicking, OneBomb, RoundIsDecided
<1>. QED BY <1>1, InitSimulatorInv, SimulatorInvStep, PTL DEF SimulatorSpec
==============================================================================
