--------------------------- MODULE CandidateTraining ---------------------------
(***************************************************************************)
(* From labelled candidate decisions to an evaluated action model          *)
(* (replay_engine/training/split_candidate_dataset.py,                     *)
(* train_candidate_value.py, evaluate_candidate_value.py): the decisions   *)
(* are split by replay into files to train on and files held out, models   *)
(* are trained into a directory and evaluated on a pair of files.  Each    *)
(* command writes several files and may stop between any two; the files of *)
(* an earlier command stay until they are overwritten.  The commands are   *)
(* run one at a time.                                                      *)
(***************************************************************************)
EXTENDS CandidateStates

CONSTANTS
    Corpora,        \* the datasets: sets of decisions, each of a replay (group)
    HeldOutPercent, \* --validation-fraction
    MaxSplits       \* bounds the splits

ASSUME TrainingAssumption ==
    /\ HeldOutPercent \in 1..99 /\ MaxSplits \in Nat
    /\ \A decisions \in Corpora : IsFiniteSet(decisions)

VARIABLES
    corpus,     \* the candidate states with their labels
    splitDir,   \* [names -> the file's decisions, or None]
    toWrite,    \* what the split in progress has still to write
    modelDir,   \* the trained models and the metrics, each or None
    fitting,    \* the training in progress, or None
    report,     \* the evaluation of the models as they are, or None
    order,      \* how far the commands were run after one another
    splits

trainingVars == <<corpus, splitDir, toWrite, modelDir, fitting, report, order, splits>>

\* A model, by what it was trained and what it was validated on; the metrics
\* saved beside the models; a training whose small model is saved.
Model   == [seen : SUBSET UNION Corpora, validated : SUBSET UNION Corpora]
Metrics == [heldOutValid : BOOLEAN, fullTrained : BOOLEAN]
Fitting == [model : Model, signal : BOOLEAN, ordered : BOOLEAN]

ASSUME NoModelAssumption == None \notin Metrics /\ None \notin Fitting

\* The files in the order they are written.
SplitFiles == <<"trainStates", "heldStates", "trainLabels", "heldLabels">>

TrainingInit ==
    /\ corpus \in Corpora
    /\ splitDir = [name \in Range(SplitFiles) |-> None] /\ toWrite = <<>>
    /\ modelDir = [small |-> None, full |-> None, metrics |-> None]
    /\ fitting = None /\ report = None /\ order = "none" /\ splits = 0

GroupsOf(decisions) == {d.group : d \in decisions}

\* The labels of a decision that models learn from: both kinds or none.
HasSignal(d)     == "preferred" \in Range(RowLabels(d.summary, d.actions))
Signal(decisions) == {d \in decisions : HasSignal(d)}

-----------------------------------------------------------------------------
(* Splitting.                                                               *)

\* round, a half to the even number.
Rounded(hundredths) ==
    LET n == hundredths \div 100
        r == hundredths % 100
    IN  IF r > 50 \/ (r = 50 /\ n % 2 = 1) THEN n + 1 ELSE n

\* At least one group on each side.
HeldOutCount(n) ==
    LET wanted == Rounded(n * HeldOutPercent)
    IN  IF wanted < 1 THEN 1 ELSE IF wanted > n - 1 THEN n - 1 ELSE wanted

IsHeldOut(d, heldOut) == d.group \in heldOut

\* split_candidate_dataset, up to the first write.  Any groups may be drawn.
\* The labels of the held-out decisions follow them.
StartSplit(heldOut) ==
    /\ toWrite = <<>> /\ fitting = None /\ splits < MaxSplits /\ splits' = splits + 1
    /\ Cardinality(GroupsOf(corpus)) >= 2
    /\ heldOut \subseteq GroupsOf(corpus)
    /\ Cardinality(heldOut) = HeldOutCount(Cardinality(GroupsOf(corpus)))
    /\ LET held == {d \in corpus : IsHeldOut(d, heldOut)} IN
          /\ held # {} /\ held # corpus
          /\ toWrite' = <<corpus \ held, held, corpus \ held, held>>
    /\ order' = "none" /\ report' = None
    /\ UNCHANGED <<corpus, splitDir, modelDir, fitting>>

Written == Len(SplitFiles) - Len(toWrite)

\* Each file is overwritten; the last one makes the split complete.
WriteSplitFile ==
    /\ toWrite # <<>>
    /\ splitDir' = [splitDir EXCEPT ![SplitFiles[Written + 1]] = Head(toWrite)]
    /\ toWrite' = Tail(toWrite)
    /\ order' = IF toWrite' = <<>> THEN "split" ELSE order
    /\ UNCHANGED <<corpus, modelDir, fitting, report, splits>>

\* The command stops: files of two splits may now lie side by side.
StopSplit ==
    /\ toWrite # <<>> /\ toWrite' = <<>>
    /\ UNCHANGED <<corpus, splitDir, modelDir, fitting, report, order, splits>>

-----------------------------------------------------------------------------
(* Training.                                                                *)

\* Four fifths of the groups, and at least one, are trained on.
ValidationCount(n) ==
    LET train == (4 * n) \div 5 IN n - (IF train > 1 THEN train ELSE 1)

Trainable == Signal(splitDir.trainStates \cap splitDir.trainLabels)

\* train_candidate_models up to saving the statistical model.  max_examples may
\* cut the examples to a single one, which is of one label.
StartFit(cut) ==
    /\ toWrite = <<>> /\ fitting = None
    /\ splitDir.trainStates # None /\ splitDir.trainLabels # None /\ Trainable # {}
    /\ \E examples \in IF cut THEN {{d} : d \in Trainable} ELSE {Trainable} :
       \E validation \in SUBSET GroupsOf(examples) :
          /\ Cardinality(validation) = IF Cardinality(GroupsOf(examples)) = 1 THEN 0
                                       ELSE ValidationCount(Cardinality(GroupsOf(examples)))
          /\ LET model == [seen      |-> {d \in examples : d.group \notin validation},
                           validated |-> {d \in examples : d.group \in validation}] IN
                /\ modelDir' = [modelDir EXCEPT !.small = model]
                /\ fitting' = [model |-> model, signal |-> ~cut, ordered |-> order # "none"]
    /\ report' = None
    /\ UNCHANGED <<corpus, splitDir, toWrite, order, splits>>

\* The full model is trained, if the labels tell actions apart and replays were
\* held out for validation, and if LightGBM works; then the metrics are saved.
\* The full model of an earlier training is left where it is.
FinishFit(works) ==
    /\ fitting # None
    /\ LET valid == fitting.model.validated # {}
           full  == fitting.signal /\ valid /\ works
       IN  modelDir' = [modelDir EXCEPT
                           !.full = IF full THEN fitting.model ELSE @,
                           !.metrics = [heldOutValid |-> valid, fullTrained |-> full]]
    /\ order' = IF fitting.ordered /\ order # "none" THEN "trained" ELSE order
    /\ fitting' = None
    /\ UNCHANGED <<corpus, splitDir, toWrite, report, splits>>

\* It stops: a full model may then lie beside the metrics of an earlier training.
StopFit ==
    /\ fitting # None /\ fitting' = None
    /\ \E saved \in BOOLEAN :
          /\ saved => fitting.signal /\ fitting.model.validated # {}
          /\ modelDir' = IF saved THEN [modelDir EXCEPT !.full = fitting.model] ELSE modelDir
    /\ order' = IF order = "trained" THEN "split" ELSE order
    /\ UNCHANGED <<corpus, splitDir, toWrite, report, splits>>

-----------------------------------------------------------------------------
(* Evaluation.                                                              *)

\* evaluate_candidate_labels: of the full model, if there is one.  Without
\* metrics the split is not doubted.
Evaluate ==
    /\ toWrite = <<>> /\ fitting = None
    /\ splitDir.heldStates # None /\ splitDir.heldLabels # None /\ modelDir.small # None
    /\ LET evaluated == Signal(splitDir.heldStates \cap splitDir.heldLabels) IN
          report' = [model      |-> IF modelDir.full # None THEN modelDir.full ELSE modelDir.small,
                     evaluated  |-> evaluated,
                     comparable |-> /\ modelDir.metrics = None \/ modelDir.metrics.heldOutValid
                                    /\ evaluated # {},
                     ordered    |-> order = "trained",
                     current    |-> modelDir.full = None \/ (modelDir.metrics # None /\ modelDir.metrics.fullTrained)]
    /\ UNCHANGED <<corpus, splitDir, toWrite, modelDir, fitting, order, splits>>

TrainingNext ==
    \/ \E heldOut \in SUBSET GroupsOf(corpus) : StartSplit(heldOut)
    \/ WriteSplitFile \/ StopSplit
    \/ \E cut \in BOOLEAN : StartFit(cut)
    \/ \E works \in BOOLEAN : FinishFit(works)
    \/ StopFit \/ Evaluate

TrainingSpec == TrainingInit /\ [][TrainingNext]_trainingVars

-----------------------------------------------------------------------------
(* Properties.                                                              *)

TrainingTypeOK ==
    /\ corpus \in Corpora
    /\ \A name \in Range(SplitFiles) : splitDir[name] # None => splitDir[name] \subseteq corpus
    /\ Len(toWrite) <= Len(SplitFiles)
    /\ order \in {"none", "split", "trained"} /\ splits \in 0..MaxSplits

\* A model's score is that of matches it has not seen: what a comparable
\* evaluation was made on shares no replay with what its model was trained or
\* validated on, nor training with validation, if the commands were run in
\* their order and the model is the one the metrics beside it describe.
HeldOutIsUnseen ==
    report # None /\ report.comparable /\ report.ordered /\ report.current =>
        LET learnt    == GroupsOf(report.model.seen)
            validated == GroupsOf(report.model.validated)
            evaluated == GroupsOf(report.evaluated)
        IN  /\ evaluated \cap (learnt \cup validated) = {}
            /\ learnt \cap validated = {} /\ learnt # {} /\ validated # {}
===============================================================================
