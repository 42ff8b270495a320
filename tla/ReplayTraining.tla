----------------------------- MODULE ReplayTraining -----------------------------
(***************************************************************************)
(* From the database to a round-value model and its scores                 *)
(* (replay_engine/training/train_full_replay.py, dataset_split.py,         *)
(* train_snapshot_model.py, export_parquet.py, dataset_registry.py,        *)
(* benchmark_dataset.py, evaluate_benchmark.py and the manifest of         *)
(* cs2_sim/core/model/replay_value.py).  The commands are run in any order *)
(* beside a build, one of training and one of exporting at a time, and     *)
(* training may stop between any two of the files it writes.               *)
(***************************************************************************)
EXTENDS ReplayDatabase

CONSTANTS
    Shuffles,    \* of the groups for the three splits: triples of their ranks
    Sealable,    \* demos a benchmark may be made of
    Askable,     \* sets of matches to export; none: all
    MaxExports   \* bounds the exports at once

ASSUME ShufflesAssumption ==
    /\ \A shuffle \in Shuffles, k \in 1..3, g \in DemoNames : shuffle[k][g] \in Nat
    /\ MaxExports \in Nat

VARIABLES
    artifacts,   \* the files in the training directory
    training,    \* the training in progress, as a set of at most one
    scores,      \* the metrics file: what was scored on what, or none
    benchmark,   \* the sealed benchmark's demos
    benchScore,  \* the benchmark's report, or none
    exporting,   \* the export in progress
    registry     \* the registered datasets

learningVars  == <<artifacts, training, scores, benchmark, benchScore, exporting, registry>>
replayTrainingVars == <<databaseVars, learningVars>>

\* A file and the command that wrote it; 0: there is no file.
NoFile == [by |-> 0, learnt |-> {}]
NoManifest == [booster |-> 0, small |-> 0, calibrator |-> 0]

LearningInit ==
    /\ artifacts = [booster |-> NoFile, small |-> NoFile, calibrator |-> NoFile, manifest |-> NoManifest]
    /\ training = {} /\ scores = {} /\ benchmark = {} /\ benchScore = {}
    /\ exporting = {} /\ registry = {}

GroupsIn(rows) == {row.group : row \in rows}

-----------------------------------------------------------------------------
(* Splitting by match.                                                      *)

\* A fifth of the groups, a half rounded to the even number; at least one, and
\* one is left.
FifthOf(n) ==
    LET fifth == IF n % 5 > 2 THEN n \div 5 + 1 ELSE n \div 5
    IN  IF fifth < 1 THEN 1 ELSE IF fifth > n - 1 THEN n - 1 ELSE fifth

\* The last groups of the shuffled ones.
HeldOutGroups(groups, order) ==
    {g \in groups : Cardinality({h \in groups : order[h] > order[g]}) < FifthOf(Cardinality(groups))}

-----------------------------------------------------------------------------
(* train_full_replay.train                                                  *)

\* The rows are read in one query: from the database, or event rows of sidecars.
SidecarRows == {UNION {EventRows(rec) : rec \in Range(input)} : input \in Inputs}
Sources     == {tables.snapshots} \cup SidecarRows

\* Mutant: the model that is deployed is scored, wherever it comes from.
ScoredSmallAsDeployed(loaded, deployed, dev) == deployed

\* A loaded model may have learnt the test groups: another one is scored.
ScoredSmall(loaded, deployed, dev) == IF loaded THEN dev ELSE deployed

\* The model of a file that is there, or else one fitted on the rows of the pool.
LoadOrFit(reuse, pool) ==
    IF reuse /\ artifacts.small.by # 0 THEN artifacts.small ELSE [by |-> commands', learnt |-> pool]

\* Nothing is fitted, and nothing calibrated, on rows of one outcome.
BothOutcomes(rows, groups) == {row.label : row \in {r \in rows : r.group \in groups}} = {"ct", "t"}

\* Four sets of groups are needed, and both outcomes to train on.  The small
\* model is read if its file is there, or else fitted and perhaps saved.
StartTraining(rows, shuffle, calibrate, reuse, save) ==
    /\ training = {} /\ Run
    /\ LET all    == GroupsIn(rows)
           test   == HeldOutGroups(all, shuffle[1])
           pool   == all \ test
           calib  == HeldOutGroups(pool, shuffle[2])
           rest   == pool \ calib
           tuning == HeldOutGroups(rest, shuffle[3])
           learn  == rest \ tuning
           loaded == reuse /\ artifacts.small.by # 0
           small  == LoadOrFit(reuse, pool)
       IN  /\ Cardinality(all) >= 4 /\ BothOutcomes(rows, learn)
           /\ artifacts' = [artifacts EXCEPT !.small = IF save THEN small ELSE @]
           /\ training' = {[by |-> commands', step |-> "booster", dev |-> pool, test |-> test,
                            small |-> IF loaded \/ save THEN small.by ELSE 0,
                            scored |-> pool \cup ScoredSmall(loaded, small.learnt, pool),
                            calibrated |-> calibrate /\ BothOutcomes(rows, calib),
                            fitted |-> learn \cup tuning, calibration |-> calib]}
    /\ UNCHANGED <<tables, building, scores, benchmark, benchScore, exporting, registry>>

\* The deployed booster is fitted again, on all but the test matches.
Refitted(w) == [by |-> w.by, learnt |-> w.dev]

\* The files in their order.  The metrics are those of the training's own test.
WriteBooster(w) ==
    /\ w.step = "booster" /\ training' = {[w EXCEPT !.step = "metrics"]}
    /\ artifacts' = [artifacts EXCEPT !.booster = Refitted(w)]
    /\ UNCHANGED scores

WriteMetrics(w) ==
    /\ w.step = "metrics" /\ training' = {[w EXCEPT !.step = "calibrator"]}
    /\ scores' = {[scored |-> w.scored, test |-> w.test, fitted |-> w.fitted, calibration |-> w.calibration]}
    /\ UNCHANGED artifacts

WriteCalibrator(w) ==
    /\ w.step = "calibrator" /\ training' = {[w EXCEPT !.step = "manifest"]}
    /\ artifacts' = [artifacts EXCEPT !.calibrator = IF w.calibrated THEN [by |-> w.by, learnt |-> w.calibration] ELSE @]
    /\ UNCHANGED scores

\* save_manifest replaces the manifest by one with the checksums of the files;
\* not without a small model's file.  It is then rewritten in place.
WriteManifest(w) ==
    /\ w.step = "manifest"
    /\ IF w.small = 0
       THEN training' = {} /\ UNCHANGED artifacts
       ELSE /\ artifacts' = [artifacts EXCEPT !.manifest =
                  [booster |-> artifacts.booster.by, small |-> artifacts.small.by,
                   calibrator |-> IF w.calibrated THEN artifacts.calibrator.by ELSE 0]]
            /\ training' = {[w EXCEPT !.step = "extras"]}
    /\ UNCHANGED scores

FinishManifest(w) == w.step = "extras" /\ training' = {} /\ UNCHANGED <<artifacts, scores>>

\* The process stops; in the middle of the rewriting no manifest is left.
StopTraining(w) ==
    /\ training' = {} /\ UNCHANGED scores
    /\ \/ UNCHANGED artifacts
       \/ w.step = "extras" /\ artifacts' = [artifacts EXCEPT !.manifest = NoManifest]

TrainingStep ==
    /\ \E w \in training : \/ WriteBooster(w) \/ WriteMetrics(w) \/ WriteCalibrator(w)
                           \/ WriteManifest(w) \/ FinishManifest(w) \/ StopTraining(w)
    /\ UNCHANGED <<databaseVars, benchmark, benchScore, exporting, registry>>

\* train_snapshot_model: the saved model has learnt every row, held out or not.
TrainSmallModel ==
    /\ Run /\ \E rows \in Sources : rows # {} /\ artifacts' =
           [artifacts EXCEPT !.small = [by |-> commands', learnt |-> GroupsIn(rows)]]
    /\ UNCHANGED <<tables, building, training, scores, benchmark, benchScore, exporting, registry>>

\* ReplayValueEnsemble.load without fallback: each file named has its checksum.
Loadable(files) ==
    LET named == files.manifest IN
    /\ named.booster # 0 /\ named.booster = files.booster.by /\ named.small = files.small.by
    /\ named.calibrator \in {0, files.calibrator.by}

-----------------------------------------------------------------------------
(* The sealed benchmark.                                                    *)

KnownKeys == {r.source : r \in tables.replays} \cup {r.match : r \in tables.replays}
Unseen(demos) == \A d \in demos : {d.source, d.match} \cap KnownKeys = {}

\* select_unseen_demos and write_benchmark_manifest; which of the demos depends
\* on their maps, sizes and ranks.
SealBenchmark ==
    /\ Run /\ \E demos \in (SUBSET Sealable) \ {{}} : Unseen(demos) /\ benchmark' = demos
    /\ UNCHANGED <<tables, building, artifacts, training, scores, benchScore, exporting, registry>>

StillUnseen(demos) == Unseen(demos)

\* evaluate_benchmark, of a manifest that can be loaded.
EvaluateBenchmark ==
    /\ benchmark # {} /\ Run /\ StillUnseen(benchmark) /\ Loadable(artifacts)
    /\ benchScore' = {[demos  |-> {d.match : d \in benchmark},
                       learnt |-> artifacts.booster.learnt \cup artifacts.small.learnt,
                       kept   |-> artifacts.booster.learnt \cup artifacts.small.learnt
                                      \subseteq {r.match : r \in tables.replays}]}
    /\ UNCHANGED <<tables, building, artifacts, training, scores, benchmark, exporting, registry>>

-----------------------------------------------------------------------------
(* Exports.                                                                 *)

\* export_sqlite_to_parquet reads the snapshots, those asked for or all, and then
\* the actions, each from what is committed by then.
OfAsked(asked, groups) == IF asked = {} THEN groups ELSE groups \cap asked

StartExport(asked) ==
    /\ Cardinality(exporting) < MaxExports /\ Run
    /\ exporting' = exporting \cup
           {[by |-> commands', step |-> "actions", asked |-> asked, view |-> {},
             groups |-> OfAsked(asked, GroupsIn(tables.snapshots))]}
    /\ UNCHANGED <<tables, building, artifacts, training, scores, benchmark, benchScore, registry>>

\* The directory is published if all that was asked for was found.
PublishExport(e) ==
    LET withActions == {r.match : r \in {q \in tables.replays :
                           \E a \in BagToSet(tables.actions) : a.source = q.source}}
        groups == e.groups \cup OfAsked(e.asked, withActions)
    IN  /\ e.step = "actions"
        /\ exporting' = (exporting \ {e}) \cup
               {x \in {[e EXCEPT !.step = "load", !.groups = groups]} : e.asked \subseteq groups}
        /\ UNCHANGED registry

LoadRegistry(e) ==
    /\ e.step = "load" /\ exporting' = (exporting \ {e}) \cup {[e EXCEPT !.step = "save", !.view = registry]}
    /\ UNCHANGED registry

Registered(view, entry) == view \cup {entry}

\* register and save, under an id of its own: no group is in two entries, and
\* the file is replaced.  An export that is not registered stays where it is.
SaveRegistry(e) ==
    /\ e.step = "save" /\ exporting' = exporting \ {e}
    /\ registry' = IF \A other \in e.view : other.groups \cap e.groups = {}
                   THEN Registered(e.view, [id |-> e.by, groups |-> e.groups]) ELSE registry

ExportStep ==
    /\ \E e \in exporting : PublishExport(e) \/ LoadRegistry(e) \/ SaveRegistry(e)
    /\ UNCHANGED <<databaseVars, artifacts, training, scores, benchmark, benchScore>>

-----------------------------------------------------------------------------
ReplayTrainingInit == DatabaseInit /\ LearningInit

LearningNext ==
    \/ DatabaseNext /\ UNCHANGED learningVars
    \/ \E rows \in Sources, shuffle \in Shuffles, calibrate, reuse, save \in BOOLEAN :
          StartTraining(rows, shuffle, calibrate, reuse, save)
    \/ TrainingStep \/ TrainSmallModel \/ SealBenchmark \/ EvaluateBenchmark

\* Exports share nothing with the models but the tables.
ExportNext ==
    \/ DatabaseNext /\ UNCHANGED learningVars
    \/ \E asked \in Askable : StartExport(asked)
    \/ ExportStep

ReplayTrainingSpec ==
    ReplayTrainingInit /\ [][LearningNext \/ ExportNext]_replayTrainingVars

-----------------------------------------------------------------------------
(* Properties.                                                              *)

\* The score of a training is that of matches its models have not learnt, and
\* it is calibrated on matches its models have not learnt either, although the
\* small model it deploys may be one that has learnt them all.
TestMatchesAreUnseen ==
    \A s \in scores : /\ s.test # {} /\ s.test \cap (s.scored \cup s.calibration) = {}
                      /\ s.calibration \cap s.fitted = {}

\* A benchmark's demos were not learnt by the model it scores, although the
\* database may have grown after the benchmark was sealed, unless what the model
\* has learnt is no longer in the database.
BenchmarkIsUnseen == \A b \in benchScore : b.kept => b.demos \cap b.learnt = {}

\* No match is registered in two datasets, whoever registers at the same time.
DatasetsAreApart == \A a, b \in registry : a # b => a.groups \cap b.groups = {}

\* A manifest that can be loaded is of one training: the calibrator it names was
\* fitted beside its booster, whichever trainings were stopped half way.
LoadedModelIsOfOneTraining ==
    Loadable(artifacts) /\ artifacts.manifest.calibrator # 0 =>
        artifacts.booster.by = artifacts.calibrator.by
===============================================================================
