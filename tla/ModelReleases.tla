----------------------------- MODULE ModelReleases -----------------------------
(***************************************************************************)
(* How trained models get from a training directory into the running       *)
(* service (replay_engine/training/model_bundle.py, build_release_manifest *)
(* .py, contracts.py, cs2_sim/api.py): a directory is given a manifest of  *)
(* checksums, staged as a release, activated, rolled back and loaded.      *)
(* Several of these commands may run at once, and each may stop anywhere.  *)
(* A file is the number of the build that wrote it; 0 is no file.          *)
(***************************************************************************)
EXTENDS Naturals, FiniteSets

CONSTANTS
    Operators,   \* the processes
    Versions,    \* release names
    NoVersion,
    MaxBuilds    \* bounds the builds of one version's training directory

ASSUME ReleaseAssumption == NoVersion \notin Versions /\ MaxBuilds \in Nat

VARIABLES
    trained,    \* [Versions -> the training directory of the release]
    release,   \* [Versions -> the release directory; both files 0: none]
    pointer,   \* current.json
    work       \* [Operators -> the command in progress]

releaseVars == <<trained, release, pointer, work>>

\* A directory: its models, and the build its manifest has the checksums of.
Bundle   == [model : 0..MaxBuilds, manifest : 0..MaxBuilds]
NoBundle == [model |-> 0, manifest |-> 0]
Pointer  == [version : Versions \cup {NoVersion}, previous : Versions \cup {NoVersion}]
NoWork   == [step |-> "idle", version |-> NoVersion, previous |-> NoVersion, copy |-> NoBundle]
Steps    == {"idle", "models", "manifest", "staged", "read", "point", "load", "loaded"}

ReleaseInit ==
    /\ trained = [v \in Versions |-> NoBundle]
    /\ release = [v \in Versions |-> NoBundle]
    /\ pointer = [version |-> NoVersion, previous |-> NoVersion]
    /\ work = [o \in Operators |-> NoWork]

Exists(bundle) == bundle # NoBundle

\* validate_bundle: there is a manifest and what it lists is what is there.
Valid(bundle) == bundle.manifest # 0 /\ bundle.manifest = bundle.model

AtRest(o)     == work[o].step = "idle"
Go(o, step) == work' = [work EXCEPT ![o].step = step]
End(o)      == work' = [work EXCEPT ![o] = NoWork]

-----------------------------------------------------------------------------
(* Building: training writes the models, build_release_manifest their       *)
(* checksums.                                                               *)

TrainModels(v) ==
    /\ trained[v].model < MaxBuilds
    /\ trained' = [trained EXCEPT ![v].model = @ + 1]
    /\ UNCHANGED <<release, pointer, work>>

BuildManifest(v) ==
    /\ trained[v].model # 0
    /\ trained' = [trained EXCEPT ![v].manifest = trained[v].model]
    /\ UNCHANGED <<release, pointer, work>>

-----------------------------------------------------------------------------
(* ModelBundleStore.stage                                                   *)

\* The directory is validated, and the version must be a new one.
Stage(o, v) ==
    /\ AtRest(o) /\ Valid(trained[v]) /\ ~Exists(release[v])
    /\ work' = [work EXCEPT ![o] = [NoWork EXCEPT !.step = "models", !.version = v]]
    /\ UNCHANGED <<trained, release, pointer>>

\* copytree takes one file after the other from a directory that may change.
CopyModels(o) ==
    /\ work[o].step = "models"
    /\ work' = [work EXCEPT ![o].copy.model = trained[work[o].version].model, ![o].step = "manifest"]
    /\ UNCHANGED <<trained, release, pointer>>

CopyManifest(o) ==
    /\ work[o].step = "manifest"
    /\ work' = [work EXCEPT ![o].copy.manifest = trained[work[o].version].manifest, ![o].step = "staged"]
    /\ UNCHANGED <<trained, release, pointer>>

\* Mutant: as the source was validated, the copy is published as it is.
PublishableAsCopied(copy) == copy.manifest # 0

Publishable(copy) == Valid(copy)

\* The copy is validated, and renamed unless somebody has published the version
\* meanwhile.  Otherwise it is removed.
Publish(o) ==
    /\ work[o].step = "staged"
    /\ LET v == work[o].version IN
          release' = IF Publishable(work[o].copy) /\ ~Exists(release[v])
                     THEN [release EXCEPT ![v] = work[o].copy] ELSE release
    /\ End(o)
    /\ UNCHANGED <<trained, pointer>>

-----------------------------------------------------------------------------
(* ModelBundleStore.activate and rollback                                   *)

\* The release exists and is validated.
Activate(o, v) ==
    /\ AtRest(o) /\ Exists(release[v]) /\ Valid(release[v])
    /\ work' = [work EXCEPT ![o] = [NoWork EXCEPT !.step = "read", !.version = v]]
    /\ UNCHANGED <<trained, release, pointer>>

Rollback(o) == pointer.previous # NoVersion /\ Activate(o, pointer.previous)

\* The pointer is read, and replaced later: of two activations that both have
\* read it, the second forgets the first.
ReadPointer(o) ==
    /\ work[o].step = "read"
    /\ work' = [work EXCEPT ![o].previous = pointer.version, ![o].step = "point"]
    /\ UNCHANGED <<trained, release, pointer>>

ReplacePointer(o) ==
    /\ work[o].step = "point"
    /\ pointer' = [version |-> work[o].version, previous |-> work[o].previous]
    /\ End(o)
    /\ UNCHANGED <<trained, release>>

-----------------------------------------------------------------------------
(* ReplayModel.load without fallback                                        *)

\* _resolve_release: the pointer's version now, or one that is configured.
ResolveRelease(o, configured) ==
    /\ AtRest(o)
    /\ \E v \in {pointer.version, configured} \ {NoVersion} :
          work' = [work EXCEPT ![o] = [NoWork EXCEPT !.step = "load", !.version = v]]
    /\ UNCHANGED <<trained, release, pointer>>

\* The manifest and the checksums are verified, or there is no model.
Load(o) ==
    /\ work[o].step = "load"
    /\ LET v == work[o].version IN
          IF v # NoVersion /\ Valid(release[v])
          THEN work' = [work EXCEPT ![o].copy = release[v], ![o].step = "loaded"]
          ELSE End(o)
    /\ UNCHANGED <<trained, release, pointer>>

-----------------------------------------------------------------------------
\* A process ends, with or without having done what it was at: what it copied
\* stays below .staging, what it wrote of a pointer in a .part file.
Exit(o) ==
    /\ ~AtRest(o) /\ End(o)
    /\ UNCHANGED <<trained, release, pointer>>

ReleaseNext ==
    \/ \E v \in Versions : TrainModels(v) \/ BuildManifest(v)
    \/ \E o \in Operators, v \in Versions : Stage(o, v) \/ Activate(o, v) \/ ResolveRelease(o, v)
    \/ \E o \in Operators :
          \/ CopyModels(o) \/ CopyManifest(o) \/ Publish(o)
          \/ Rollback(o) \/ ReadPointer(o) \/ ReplacePointer(o)
          \/ Load(o) \/ Exit(o)

ReleaseSpec == ReleaseInit /\ [][ReleaseNext]_releaseVars

-----------------------------------------------------------------------------
(* Properties.                                                              *)

ReleaseTypeOK ==
    /\ trained \in [Versions -> Bundle]
    /\ release \in [Versions -> Bundle]
    /\ pointer \in Pointer
    /\ work \in [Operators -> [step : Steps, version : Versions \cup {NoVersion},
                               previous : Versions \cup {NoVersion}, copy : Bundle]]

\* A directory of the release store is whole from the moment it is there: the
\* models of one build with their manifest, although the directory it was made
\* from may be rebuilt while it is copied.
ReleasesAreWhole == \A v \in Versions : Exists(release[v]) => Valid(release[v])

\* The active version, and the one a rollback goes back to, are such releases,
\* whatever commands run at once or stop half way.
PointerIsBacked ==
    /\ pointer.version # NoVersion => Exists(release[pointer.version])
    /\ pointer.previous # NoVersion => Exists(release[pointer.previous])

ActiveReleaseIsWhole == ReleasesAreWhole /\ PointerIsBacked
===============================================================================
