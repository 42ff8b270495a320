---------------------------- MODULE BackendProofs ----------------------------
(***************************************************************************)
(* What is proved of the parts of the backend that MCBackend sets side by  *)
(* side, for any corpora, inputs, shuffles and commands: the scores of the *)
(* models are of matches the models have not seen, snapshots match the     *)
(* rounds in the database, nothing learns from what it is to predict, and  *)
(* the state of every part is typed.                                       *)
(***************************************************************************)
EXTENDS MCBackend, CoachingProofs, PartsProofs, FiniteSetTheorems, TLAPS

-----------------------------------------------------------------------------
(***************************************************************************)
(* The action model: a comparable report is of replays that were held out, *)
(* as the files are of one split and the models of a training on them once *)
(* the commands followed one another.                                      *)
(***************************************************************************)

\* Decisions held out share no replay with the others.
IsCut(held) == held \subseteq corpus /\ GroupsOf(corpus \ held) \cap GroupsOf(held) = {}

\* The files of this split that are written, and those that follow.
WrittenSoFar(rest, held) ==
    \/ toWrite = <<rest, held, rest, held>>
    \/ toWrite = <<held, rest, held>> /\ splitDir.trainStates = rest
    \/ toWrite = <<rest, held>> /\ splitDir.trainStates = rest /\ splitDir.heldStates = held
    \/ /\ toWrite = <<held>>
       /\ splitDir.trainStates = rest /\ splitDir.heldStates = held /\ splitDir.trainLabels = rest

\* All files are of one split.
IsSplit(rest, held) ==
    /\ splitDir.trainStates = rest /\ splitDir.heldStates = held
    /\ splitDir.trainLabels = rest /\ splitDir.heldLabels = held

\* A model of the split's files to train on.
IsOfSplit(model) ==
    /\ model.seen # {} /\ model.seen \cup model.validated \subseteq splitDir.trainStates
    /\ GroupsOf(model.seen) \cap GroupsOf(model.validated) = {}

FileNames == {"trainStates", "heldStates", "trainLabels", "heldLabels"}

TrainingRecords ==
    /\ splitDir \in [FileNames -> (SUBSET corpus) \cup {None}]
    /\ modelDir \in [small : Model \cup {None}, full : Model \cup {None}, metrics : Metrics \cup {None}]
    /\ fitting \in Fitting \cup {None}

\* Once the commands follow one another, the files are of one split and the
\* models of a training on them.
CommandsFollow ==
    /\ toWrite # <<>> =>
          /\ order = "none"
          /\ \E held \in SUBSET corpus : IsCut(held) /\ WrittenSoFar(corpus \ held, held)
    /\ order # "none" => \E held \in SUBSET corpus : IsCut(held) /\ IsSplit(corpus \ held, held)
    /\ fitting # None =>
          /\ toWrite = <<>> /\ modelDir.small = fitting.model
          /\ order # "none" => IsOfSplit(fitting.model)
    /\ order = "trained" /\ fitting = None =>
          /\ modelDir.metrics # None /\ IsOfSplit(modelDir.small)
          /\ modelDir.metrics.heldOutValid => modelDir.small.validated # {}
          /\ modelDir.metrics.fullTrained => modelDir.full = modelDir.small

TrainingInv == TrainingTypeOK /\ TrainingRecords /\ CommandsFollow /\ HeldOutIsUnseen

-----------------------------------------------------------------------------
LEMMA TheFiles == Range(SplitFiles) = FileNames /\ Len(SplitFiles) = 4
BY DEF Range, SplitFiles, FileNames

LEMMA FiniteGroups ==
    ASSUME NEW decisions, IsFiniteSet(decisions)
    PROVE  IsFiniteSet(GroupsOf(decisions))
<1>1. PICK f : f = [d \in decisions |-> d.group]
  OBVIOUS
<1>2. f \in Surjection(decisions, GroupsOf(decisions))
  BY <1>1 DEF Surjection, GroupsOf
<1> QED
  BY <1>2, FS_Surjection

\* Validation leaves a replay to train on.
LEMMA SomethingIsSeen ==
    ASSUME NEW examples, IsFiniteSet(examples), examples # {},
           NEW validation \in SUBSET GroupsOf(examples),
           Cardinality(validation) = IF Cardinality(GroupsOf(examples)) = 1 THEN 0
                                     ELSE ValidationCount(Cardinality(GroupsOf(examples)))
    PROVE  {d \in examples : d.group \notin validation} # {}
<1>1. PICK groups : groups = GroupsOf(examples)
  OBVIOUS
<1>2. IsFiniteSet(groups) /\ groups # {}
  BY <1>1, FiniteGroups DEF GroupsOf
<1>3. PICK n : n = Cardinality(groups)
  OBVIOUS
<1>4. n \in Nat /\ n # 0
  BY <1>2, <1>3, FS_CardinalityType, FS_EmptySet
<1>5. Cardinality(validation) < n
  BY <1>1, <1>3, <1>4 DEF ValidationCount
<1>6. ASSUME \A d \in examples : d.group \in validation PROVE FALSE
  <2>1. groups = validation
    BY <1>1, <1>6 DEF GroupsOf
  <2> QED
    BY <1>3, <1>4, <1>5, <2>1
<1> QED
  BY <1>6

LEMMA InitTrainingInv == TrainingInit => TrainingInv
<1>1. ASSUME TrainingInit PROVE TrainingInv
  <2>1. TrainingTypeOK
    BY <1>1, TheFiles, TrainingAssumption DEF TrainingInit, TrainingTypeOK
  <2>2. TrainingRecords
    BY <1>1, TheFiles DEF TrainingInit, TrainingRecords
  <2>3. CommandsFollow /\ HeldOutIsUnseen
    BY <1>1 DEF TrainingInit, CommandsFollow, HeldOutIsUnseen
  <2> QED
    BY <2>1, <2>2, <2>3 DEF TrainingInv
<1> QED
  BY <1>1

\* A split starts: the commands after it have to be run again.
LEMMA StartSplitInv ==
    ASSUME TrainingInv, NEW heldOut, StartSplit(heldOut)
    PROVE  TrainingInv'
<1>1. PICK held : held = {d \in corpus : IsHeldOut(d, heldOut)}
  OBVIOUS
<1>2. PICK rest : rest = corpus \ held
  OBVIOUS
<1>3. /\ toWrite' = <<rest, held, rest, held>> /\ order' = "none" /\ report' = None
      /\ fitting = None /\ splits' = splits + 1 /\ splits < MaxSplits
      /\ UNCHANGED <<corpus, splitDir, modelDir, fitting>>
  BY <1>1, <1>2 DEF StartSplit
<1>4. held \in SUBSET corpus /\ GroupsOf(rest) \cap GroupsOf(held) = {}
  BY <1>1, <1>2 DEF GroupsOf, IsHeldOut
<1>5. IsCut(held)' /\ WrittenSoFar(rest, held)'
  BY <1>2, <1>3, <1>4 DEF IsCut, WrittenSoFar
<1>6. CommandsFollow'
  BY <1>2, <1>3, <1>4, <1>5 DEF CommandsFollow
<1>7. TrainingTypeOK'
  <2>1. Len(toWrite') <= Len(SplitFiles)
    BY <1>3, TheFiles
  <2>2. splits' \in 0..MaxSplits
    BY <1>3, TrainingAssumption DEF TrainingInv, TrainingTypeOK
  <2>3. /\ corpus' \in Corpora
        /\ \A name \in Range(SplitFiles) : splitDir'[name] # None => splitDir'[name] \subseteq corpus'
    BY <1>3 DEF TrainingInv, TrainingTypeOK
  <2>4. order' \in {"none", "split", "trained"}
    BY <1>3
  <2> QED
    BY <2>1, <2>2, <2>3, <2>4 DEF TrainingTypeOK
<1>8. TrainingRecords' /\ HeldOutIsUnseen'
  BY <1>3 DEF TrainingInv, TrainingRecords, HeldOutIsUnseen
<1> QED
  BY <1>6, <1>7, <1>8 DEF TrainingInv

\* One file of a split is written.
LEMMA FileIsWritten ==
    ASSUME TrainingInv, NEW name \in FileNames, NEW content \in SUBSET corpus, NEW left,
           splitDir' = [splitDir EXCEPT ![name] = content], toWrite' = left,
           Len(left) \in 0..3, order' \in {"none", "split"}, order = "none", fitting = None,
           left # <<>> => order' = "none",
           UNCHANGED <<corpus, modelDir, fitting, report, splits>>,
           left # <<>> => \E held \in SUBSET corpus :
               IsCut(held) /\ WrittenSoFar(corpus \ held, held)',
           order' # "none" => \E held \in SUBSET corpus :
               IsCut(held) /\ IsSplit(corpus \ held, held)'
    PROVE  TrainingInv'
<1>1. splitDir' \in [FileNames -> (SUBSET corpus) \cup {None}]
  BY DEF TrainingInv, TrainingRecords
<1>2. TrainingTypeOK'
  <2>1. \A file \in Range(SplitFiles) : splitDir'[file] # None => splitDir'[file] \subseteq corpus'
    BY <1>1, TheFiles
  <2>2. Len(toWrite') <= Len(SplitFiles)
    <3>1. Len(SplitFiles) = 4
      BY TheFiles
    <3>2. PICK n \in 0..3 : n = Len(toWrite')
      OBVIOUS
    <3>3. n <= 4
      OBVIOUS
    <3> QED
      BY ONLY <3>1, <3>2, <3>3
  <2>3. order' \in {"none", "split", "trained"}
    OBVIOUS
  <2>4. corpus' \in Corpora /\ splits' \in 0..MaxSplits
    BY DEF TrainingInv, TrainingTypeOK
  <2> QED
    BY <2>1, <2>2, <2>3, <2>4 DEF TrainingTypeOK
<1>3. TrainingRecords' /\ HeldOutIsUnseen'
  BY <1>1 DEF TrainingInv, TrainingRecords, HeldOutIsUnseen
<1>4. \A held : IsCut(held)' <=> IsCut(held)
  BY DEF IsCut
<1>5. CommandsFollow'
  BY <1>4 DEF CommandsFollow
<1> QED
  BY <1>2, <1>3, <1>5 DEF TrainingInv

LEMMA WriteSplitFileInv == TrainingInv /\ WriteSplitFile => TrainingInv'
<1>1. ASSUME TrainingInv, WriteSplitFile PROVE TrainingInv'
  <2>1. PICK held \in SUBSET corpus : IsCut(held) /\ WrittenSoFar(corpus \ held, held)
    BY <1>1 DEF WriteSplitFile, TrainingInv, CommandsFollow
  <2>2. PICK rest : rest = corpus \ held
    OBVIOUS
  <2>3. /\ order = "none" /\ fitting = None /\ rest \in SUBSET corpus
        /\ UNCHANGED <<corpus, modelDir, fitting, report, splits>>
        /\ order' = IF toWrite' = <<>> THEN "split" ELSE "none"
    BY <1>1, <2>2 DEF WriteSplitFile, TrainingInv, CommandsFollow
  <2>4. SplitFiles[1] = "trainStates" /\ SplitFiles[2] = "heldStates"
        /\ SplitFiles[3] = "trainLabels" /\ SplitFiles[4] = "heldLabels"
    BY DEF SplitFiles
  <2>5. splitDir \in [FileNames -> (SUBSET corpus) \cup {None}]
    BY <1>1 DEF TrainingInv, TrainingRecords
  <2>6. CASE toWrite = <<rest, held, rest, held>>
    <3>1. Written = 0 /\ Head(toWrite) = rest /\ Tail(toWrite) = <<held, rest, held>>
      BY <2>6, TheFiles DEF Written
    <3>2. /\ splitDir' = [splitDir EXCEPT !["trainStates"] = rest]
          /\ toWrite' = <<held, rest, held>> /\ order' = "none"
      <4>1. SplitFiles[Written + 1] = "trainStates"
        BY <2>4, <3>1
      <4>2. /\ splitDir' = [splitDir EXCEPT ![SplitFiles[Written + 1]] = Head(toWrite)]
            /\ toWrite' = Tail(toWrite)
        BY <1>1 DEF WriteSplitFile
      <4>3. splitDir' = [splitDir EXCEPT !["trainStates"] = rest]
        BY <3>1, <4>1, <4>2
      <4>4. toWrite' = <<held, rest, held>>
        BY <3>1, <4>2
      <4>5. order' = "none"
        BY <2>3, <4>4
      <4> QED
        BY <4>3, <4>4, <4>5
    <3>3. WrittenSoFar(rest, held)'
      BY <2>5, <3>2 DEF WrittenSoFar, FileNames
    <3>4. PICK left : left = <<held, rest, held>>
      OBVIOUS
    <3>5. Len(left) = 3 /\ "trainStates" \in FileNames
      BY <3>4 DEF FileNames
    <3>6. left # <<>> /\ WrittenSoFar(corpus \ held, held)'
      BY <2>2, <2>3, <3>3, <3>4
    <3>7. left # <<>> => \E half \in SUBSET corpus : IsCut(half) /\ WrittenSoFar(corpus \ half, half)'
      BY <2>1, <2>2, <3>2, <3>3, <3>4, <3>6
    <3>8. /\ rest \in SUBSET corpus /\ toWrite' = left
          /\ Len(left) \in 0..3 /\ order' \in {"none", "split"}
          /\ left # <<>> => order' = "none"
          /\ left # <<>> => \E half \in SUBSET corpus : IsCut(half) /\ WrittenSoFar(corpus \ half, half)'
          /\ order' # "none" => \E half \in SUBSET corpus : IsCut(half) /\ IsSplit(corpus \ half, half)'
      <4>1. left # <<>> => order' = "none"
        BY <3>2, <3>4
      <4>2. order' \in {"none", "split"} /\ Len(left) \in 0..3
        BY <3>2, <3>5
      <4>3. /\ left # <<>> => \E half \in SUBSET corpus : IsCut(half) /\ WrittenSoFar(corpus \ half, half)'
            /\ order' # "none" => \E half \in SUBSET corpus : IsCut(half) /\ IsSplit(corpus \ half, half)'
        BY <3>2, <3>6, <3>7
      <4>4. toWrite' = left
        BY <3>2, <3>4
      <4> QED
        BY <2>1, <2>3, <4>1, <4>2, <4>3, <4>4
    <3> QED
      BY <1>1, <2>3, <3>2, <3>5, <3>8, FileIsWritten
  <2>7. CASE toWrite = <<held, rest, held>> /\ splitDir.trainStates = rest
    <3>1. Written = 1 /\ Head(toWrite) = held /\ Tail(toWrite) = <<rest, held>>
      BY <2>7, TheFiles DEF Written
    <3>2. /\ splitDir' = [splitDir EXCEPT !["heldStates"] = held]
          /\ toWrite' = <<rest, held>> /\ order' = "none"
      <4>1. SplitFiles[Written + 1] = "heldStates"
        BY <2>4, <3>1
      <4>2. /\ splitDir' = [splitDir EXCEPT ![SplitFiles[Written + 1]] = Head(toWrite)]
            /\ toWrite' = Tail(toWrite)
        BY <1>1 DEF WriteSplitFile
      <4>3. splitDir' = [splitDir EXCEPT !["heldStates"] = held]
        BY <3>1, <4>1, <4>2
      <4>4. toWrite' = <<rest, held>>
        BY <3>1, <4>2
      <4>5. order' = "none"
        BY <2>3, <4>4
      <4> QED
        BY <4>3, <4>4, <4>5
    <3>3. WrittenSoFar(rest, held)'
      BY <2>5, <2>7, <3>2 DEF WrittenSoFar, FileNames
    <3>4. PICK left : left = <<rest, held>>
      OBVIOUS
    <3>5. Len(left) = 2 /\ "heldStates" \in FileNames
      BY <3>4 DEF FileNames
    <3>6. left # <<>> /\ WrittenSoFar(corpus \ held, held)'
      BY <2>2, <2>3, <3>3, <3>4
    <3>7. left # <<>> => \E half \in SUBSET corpus : IsCut(half) /\ WrittenSoFar(corpus \ half, half)'
      BY <2>1, <2>2, <3>2, <3>3, <3>4, <3>6
    <3>8. /\ held \in SUBSET corpus /\ toWrite' = left
          /\ Len(left) \in 0..3 /\ order' \in {"none", "split"}
          /\ left # <<>> => order' = "none"
          /\ left # <<>> => \E half \in SUBSET corpus : IsCut(half) /\ WrittenSoFar(corpus \ half, half)'
          /\ order' # "none" => \E half \in SUBSET corpus : IsCut(half) /\ IsSplit(corpus \ half, half)'
      <4>1. left # <<>> => order' = "none"
        BY <3>2, <3>4
      <4>2. order' \in {"none", "split"} /\ Len(left) \in 0..3
        BY <3>2, <3>5
      <4>3. /\ left # <<>> => \E half \in SUBSET corpus : IsCut(half) /\ WrittenSoFar(corpus \ half, half)'
            /\ order' # "none" => \E half \in SUBSET corpus : IsCut(half) /\ IsSplit(corpus \ half, half)'
        BY <3>2, <3>6, <3>7
      <4>4. toWrite' = left
        BY <3>2, <3>4
      <4> QED
        BY <2>1, <2>3, <4>1, <4>2, <4>3, <4>4
    <3> QED
      BY <1>1, <2>3, <3>2, <3>5, <3>8, FileIsWritten
  <2>8. CASE toWrite = <<rest, held>> /\ splitDir.trainStates = rest /\ splitDir.heldStates = held
    <3>1. Written = 2 /\ Head(toWrite) = rest /\ Tail(toWrite) = <<held>>
      BY <2>8, TheFiles DEF Written
    <3>2. /\ splitDir' = [splitDir EXCEPT !["trainLabels"] = rest]
          /\ toWrite' = <<held>> /\ order' = "none"
      <4>1. SplitFiles[Written + 1] = "trainLabels"
        BY <2>4, <3>1
      <4>2. /\ splitDir' = [splitDir EXCEPT ![SplitFiles[Written + 1]] = Head(toWrite)]
            /\ toWrite' = Tail(toWrite)
        BY <1>1 DEF WriteSplitFile
      <4>3. splitDir' = [splitDir EXCEPT !["trainLabels"] = rest]
        BY <3>1, <4>1, <4>2
      <4>4. toWrite' = <<held>>
        BY <3>1, <4>2
      <4>5. order' = "none"
        BY <2>3, <4>4
      <4> QED
        BY <4>3, <4>4, <4>5
    <3>3. WrittenSoFar(rest, held)'
      BY <2>5, <2>8, <3>2 DEF WrittenSoFar, FileNames
    <3>4. PICK left : left = <<held>>
      OBVIOUS
    <3>5. Len(left) = 1 /\ "trainLabels" \in FileNames
      BY <3>4 DEF FileNames
    <3>6. left # <<>> /\ WrittenSoFar(corpus \ held, held)'
      BY <2>2, <2>3, <3>3, <3>4
    <3>7. left # <<>> => \E half \in SUBSET corpus : IsCut(half) /\ WrittenSoFar(corpus \ half, half)'
      BY <2>1, <2>2, <3>2, <3>3, <3>4, <3>6
    <3>8. /\ rest \in SUBSET corpus /\ toWrite' = left
          /\ Len(left) \in 0..3 /\ order' \in {"none", "split"}
          /\ left # <<>> => order' = "none"
          /\ left # <<>> => \E half \in SUBSET corpus : IsCut(half) /\ WrittenSoFar(corpus \ half, half)'
          /\ order' # "none" => \E half \in SUBSET corpus : IsCut(half) /\ IsSplit(corpus \ half, half)'
      <4>1. left # <<>> => order' = "none"
        BY <3>2, <3>4
      <4>2. order' \in {"none", "split"} /\ Len(left) \in 0..3
        BY <3>2, <3>5
      <4>3. /\ left # <<>> => \E half \in SUBSET corpus : IsCut(half) /\ WrittenSoFar(corpus \ half, half)'
            /\ order' # "none" => \E half \in SUBSET corpus : IsCut(half) /\ IsSplit(corpus \ half, half)'
        BY <3>2, <3>6, <3>7
      <4>4. toWrite' = left
        BY <3>2, <3>4
      <4> QED
        BY <2>1, <2>3, <4>1, <4>2, <4>3, <4>4
    <3> QED
      BY <1>1, <2>3, <3>2, <3>5, <3>8, FileIsWritten
  <2>9. CASE /\ toWrite = <<held>>
             /\ splitDir.trainStates = rest /\ splitDir.heldStates = held /\ splitDir.trainLabels = rest
    <3>1. Written = 3 /\ Head(toWrite) = held /\ Tail(toWrite) = <<>>
      BY <2>9, TheFiles DEF Written
    <3>2. /\ splitDir' = [splitDir EXCEPT !["heldLabels"] = held]
          /\ toWrite' = <<>> /\ order' = "split"
      <4>1. SplitFiles[Written + 1] = "heldLabels"
        BY <2>4, <3>1
      <4>2. /\ splitDir' = [splitDir EXCEPT ![SplitFiles[Written + 1]] = Head(toWrite)]
            /\ toWrite' = Tail(toWrite)
        BY <1>1 DEF WriteSplitFile
      <4>3. splitDir' = [splitDir EXCEPT !["heldLabels"] = held]
        BY <3>1, <4>1, <4>2
      <4>4. toWrite' = <<>>
        BY <3>1, <4>2
      <4>5. order' = "split"
        BY <2>3, <4>4
      <4> QED
        BY <4>3, <4>4, <4>5
    <3>3. IsSplit(rest, held)'
      BY <2>5, <2>9, <3>2 DEF IsSplit, FileNames
    <3>4. PICK left : left = <<>>
      OBVIOUS
    <3>5. Len(left) = 0 /\ "heldLabels" \in FileNames
      BY <3>4 DEF FileNames
    <3>6. left = <<>> /\ IsSplit(corpus \ held, held)'
      BY <2>2, <2>3, <3>3, <3>4
    <3>7. order' # "none" => \E half \in SUBSET corpus : IsCut(half) /\ IsSplit(corpus \ half, half)'
      BY <2>1, <2>2, <3>2, <3>3, <3>4, <3>6
    <3>8. /\ held \in SUBSET corpus /\ toWrite' = left
          /\ Len(left) \in 0..3 /\ order' \in {"none", "split"}
          /\ left # <<>> => order' = "none"
          /\ left # <<>> => \E half \in SUBSET corpus : IsCut(half) /\ WrittenSoFar(corpus \ half, half)'
          /\ order' # "none" => \E half \in SUBSET corpus : IsCut(half) /\ IsSplit(corpus \ half, half)'
      <4>1. left # <<>> => order' = "none"
        BY <3>2, <3>4
      <4>2. order' \in {"none", "split"} /\ Len(left) \in 0..3
        BY <3>2, <3>5
      <4>3. /\ left # <<>> => \E half \in SUBSET corpus : IsCut(half) /\ WrittenSoFar(corpus \ half, half)'
            /\ order' # "none" => \E half \in SUBSET corpus : IsCut(half) /\ IsSplit(corpus \ half, half)'
        BY <3>2, <3>6, <3>7
      <4>4. toWrite' = left
        BY <3>2, <3>4
      <4> QED
        BY <2>1, <2>3, <4>1, <4>2, <4>3, <4>4
    <3> QED
      BY <1>1, <2>3, <3>2, <3>5, <3>8, FileIsWritten
  <2> QED
    BY <2>1, <2>2, <2>6, <2>7, <2>8, <2>9 DEF WrittenSoFar
<1> QED
  BY <1>1

LEMMA StopSplitInv == TrainingInv /\ StopSplit => TrainingInv'
<1>1. ASSUME TrainingInv, StopSplit PROVE TrainingInv'
  <2>1. /\ toWrite # <<>> /\ toWrite' = <<>>
        /\ UNCHANGED <<corpus, splitDir, modelDir, fitting, report, order, splits>>
    BY <1>1 DEF StopSplit
  <2>2. TrainingTypeOK'
    BY <1>1, <2>1, TheFiles DEF TrainingInv, TrainingTypeOK
  <2>3. TrainingRecords' /\ HeldOutIsUnseen'
    BY <1>1, <2>1 DEF TrainingInv, TrainingRecords, HeldOutIsUnseen
  <2>4. order = "none" /\ fitting = None
    BY <1>1, <2>1 DEF TrainingInv, CommandsFollow
  <2>5. CommandsFollow'
    BY <2>1, <2>4 DEF CommandsFollow
  <2> QED
    BY <2>2, <2>3, <2>5 DEF TrainingInv
<1> QED
  BY <1>1

\* A training has learnt from the files to train on, whatever was cut.
LEMMA StartFitInv ==
    ASSUME TrainingInv, NEW cut \in BOOLEAN, StartFit(cut)
    PROVE  TrainingInv'
<1>1. PICK examples, validation :
        /\ examples \in IF cut THEN {{d} : d \in Trainable} ELSE {Trainable}
        /\ validation \in SUBSET GroupsOf(examples)
        /\ Cardinality(validation) = IF Cardinality(GroupsOf(examples)) = 1 THEN 0
                                     ELSE ValidationCount(Cardinality(GroupsOf(examples)))
        /\ LET model == [seen      |-> {d \in examples : d.group \notin validation},
                         validated |-> {d \in examples : d.group \in validation}] IN
              /\ modelDir' = [modelDir EXCEPT !.small = model]
              /\ fitting' = [model |-> model, signal |-> ~cut, ordered |-> order # "none"]
  BY DEF StartFit
<1>2. PICK model : model = [seen      |-> {d \in examples : d.group \notin validation},
                            validated |-> {d \in examples : d.group \in validation}]
  OBVIOUS
<1>16. PICK signal \in BOOLEAN : signal = ~cut
  OBVIOUS
<1>17. PICK ordered \in BOOLEAN : ordered = (order # "none")
  OBVIOUS
<1>3. PICK fit : fit = [model |-> model, signal |-> signal, ordered |-> ordered]
  OBVIOUS
<1>4. /\ modelDir' = [modelDir EXCEPT !.small = model] /\ fitting' = fit
      /\ toWrite = <<>> /\ fitting = None /\ report' = None /\ Trainable # {}
      /\ splitDir.trainStates # None
      /\ UNCHANGED <<corpus, splitDir, toWrite, order, splits>>
  BY <1>1, <1>2, <1>3, <1>16, <1>17 DEF StartFit
<1>5. examples # {} /\ examples \subseteq Trainable
  BY <1>1, <1>4
<1>6. splitDir.trainStates \subseteq corpus /\ Trainable \subseteq splitDir.trainStates
  BY <1>4 DEF TrainingInv, TrainingRecords, FileNames, Trainable, Signal
<1>7. corpus \in Corpora
  BY DEF TrainingInv, TrainingTypeOK
<1>8. examples \in SUBSET corpus /\ IsFiniteSet(examples)
  BY <1>5, <1>6, <1>7, TrainingAssumption, FS_Subset
<1>9. model \in Model
  BY <1>2, <1>7, <1>8 DEF Model
<1>10. IsOfSplit(model)
  <2>1. model.seen = {d \in examples : d.group \notin validation}
        /\ model.validated = {d \in examples : d.group \in validation}
    BY <1>2
  <2>2. model.seen # {}
    BY <1>1, <1>5, <1>8, <2>1, SomethingIsSeen
  <2> QED
    BY <1>5, <1>6, <2>1, <2>2 DEF IsOfSplit, GroupsOf
<1>11. fit \in Fitting /\ fit.model = model /\ fit # None
  BY <1>3, <1>9, NoModelAssumption DEF Fitting
<1>12. /\ modelDir' \in [small : Model \cup {None}, full : Model \cup {None}, metrics : Metrics \cup {None}]
       /\ modelDir'.small = model
  BY <1>4, <1>9 DEF TrainingInv, TrainingRecords
<1>13. TrainingTypeOK' /\ TrainingRecords' /\ HeldOutIsUnseen'
  BY <1>4, <1>11, <1>12 DEF TrainingInv, TrainingTypeOK, TrainingRecords, HeldOutIsUnseen
<1>14. IsOfSplit(model)'
  BY <1>4, <1>10 DEF IsOfSplit
<1>15. CommandsFollow'
  BY <1>4, <1>11, <1>12, <1>14 DEF TrainingInv, CommandsFollow, IsCut, IsSplit
<1> QED
  BY <1>13, <1>15 DEF TrainingInv

LEMMA FinishFitInv ==
    ASSUME TrainingInv, NEW works \in BOOLEAN, FinishFit(works)
    PROVE  TrainingInv'
<1>1. fitting \in Fitting /\ modelDir.small = fitting.model /\ toWrite = <<>>
  BY DEF FinishFit, TrainingInv, TrainingRecords, CommandsFollow
<1>2. PICK valid \in BOOLEAN : valid = (fitting.model.validated # {})
  OBVIOUS
<1>3. PICK full \in BOOLEAN : full = (fitting.signal /\ valid /\ works)
  OBVIOUS
<1>4. PICK newFull : newFull = IF full THEN fitting.model ELSE modelDir.full
  OBVIOUS
<1>5. PICK metrics : metrics = [heldOutValid |-> valid, fullTrained |-> full]
  OBVIOUS
<1>6. /\ modelDir' = [small |-> modelDir.small, full |-> newFull, metrics |-> metrics]
      /\ fitting' = None /\ order' \in {order, "trained"}
      /\ order = "none" => order' = "none"
      /\ UNCHANGED <<corpus, splitDir, toWrite, report, splits>>
  <2>1. modelDir' = [modelDir EXCEPT !.full = newFull, !.metrics = metrics]
    BY <1>2, <1>3, <1>4, <1>5 DEF FinishFit
  <2>2. modelDir' = [small |-> modelDir.small, full |-> newFull, metrics |-> metrics]
    BY <2>1 DEF TrainingInv, TrainingRecords
  <2> QED
    BY <2>2 DEF FinishFit
<1>7. metrics \in Metrics /\ metrics # None
  BY <1>5, NoModelAssumption DEF Metrics
<1>8. metrics.heldOutValid = valid /\ metrics.fullTrained = full
  BY <1>5
<1>9. newFull \in Model \cup {None} /\ fitting.model \in Model /\ (full => newFull = fitting.model)
  BY <1>1, <1>4 DEF Fitting, TrainingInv, TrainingRecords
<1>10. /\ modelDir' \in [small : Model \cup {None}, full : Model \cup {None}, metrics : Metrics \cup {None}]
       /\ modelDir'.small = fitting.model /\ modelDir'.full = newFull /\ modelDir'.metrics = metrics
  BY <1>1, <1>6, <1>7, <1>9
<1>11. TrainingTypeOK' /\ TrainingRecords' /\ HeldOutIsUnseen'
  BY <1>6, <1>10 DEF TrainingInv, TrainingTypeOK, TrainingRecords, HeldOutIsUnseen
<1>12. order # "none" => IsOfSplit(fitting.model)
  BY DEF FinishFit, TrainingInv, CommandsFollow
<1>13. order # "none" => IsOfSplit(modelDir.small)'
  BY <1>6, <1>10, <1>12 DEF IsOfSplit
<1>14. order # "none" => \E held \in SUBSET corpus : IsCut(held) /\ IsSplit(corpus \ held, held)
  BY DEF TrainingInv, CommandsFollow
<1>15. order' # "none" => \E held \in SUBSET corpus' : IsCut(held)' /\ IsSplit(corpus \ held, held)'
  <2>1. \A held : IsCut(held)' <=> IsCut(held)
    BY <1>6 DEF IsCut
  <2>2. \A rest, held : IsSplit(rest, held)' <=> IsSplit(rest, held)
    BY <1>6 DEF IsSplit
  <2>3. order' # "none" => order # "none"
    BY <1>6
  <2>4. ASSUME order' # "none" PROVE \E held \in SUBSET corpus' : IsCut(held)' /\ IsSplit(corpus \ held, held)'
    <3>1. PICK held \in SUBSET corpus : IsCut(held) /\ IsSplit(corpus \ held, held)
      BY <1>14, <2>3, <2>4
    <3>2. corpus' = corpus
      BY <1>6
    <3>3. IsSplit(corpus \ held, held)'
      BY <2>2, <3>1, <3>2
    <3> QED
      BY <2>1, <3>1, <3>2, <3>3
  <2> QED
    BY <2>4
<1>16. order' = "trained" =>
          /\ modelDir'.metrics # None /\ IsOfSplit(modelDir.small)'
          /\ modelDir'.metrics.heldOutValid => modelDir'.small.validated # {}
          /\ modelDir'.metrics.fullTrained => modelDir'.full = modelDir'.small
  BY <1>2, <1>6, <1>7, <1>8, <1>9, <1>10, <1>13
<1>17. CommandsFollow'
  <2>1. toWrite' = <<>> /\ fitting' = None
    BY <1>1, <1>6
  <2> QED
    BY <1>15, <1>16, <2>1 DEF CommandsFollow
<1> QED
  BY <1>11, <1>17 DEF TrainingInv

LEMMA StopFitInv == TrainingInv /\ StopFit => TrainingInv'
<1>1. ASSUME TrainingInv, StopFit PROVE TrainingInv'
  <2>1. /\ fitting # None /\ fitting' = None
        /\ order' = (IF order = "trained" THEN "split" ELSE order)
        /\ UNCHANGED <<corpus, splitDir, toWrite, report, splits>>
    BY <1>1 DEF StopFit
  <2>2. order' \in {"none", "split"} /\ (order' = "none" <=> order = "none")
    BY <1>1, <2>1 DEF TrainingInv, TrainingTypeOK
  <2>3. fitting \in Fitting /\ fitting.model \in Model
    BY <1>1, <2>1 DEF TrainingInv, TrainingRecords, Fitting
  <2>4. PICK saved \in BOOLEAN :
          modelDir' = IF saved THEN [modelDir EXCEPT !.full = fitting.model] ELSE modelDir
    BY <1>1 DEF StopFit
  <2>5. /\ modelDir' \in [small : Model \cup {None}, full : Model \cup {None}, metrics : Metrics \cup {None}]
        /\ modelDir'.small = modelDir.small
    BY <1>1, <2>3, <2>4 DEF TrainingInv, TrainingRecords
  <2>6. TrainingTypeOK' /\ TrainingRecords' /\ HeldOutIsUnseen'
    BY <1>1, <2>1, <2>2, <2>5 DEF TrainingInv, TrainingTypeOK, TrainingRecords, HeldOutIsUnseen
  <2>7. CommandsFollow'
    BY <1>1, <2>1, <2>2 DEF TrainingInv, CommandsFollow, IsCut, IsSplit, WrittenSoFar
  <2> QED
    BY <2>6, <2>7 DEF TrainingInv
<1> QED
  BY <1>1

\* An evaluation is of matches held out, if the commands followed one another.
LEMMA EvaluateInv == TrainingInv /\ Evaluate => TrainingInv'
<1>1. ASSUME TrainingInv, Evaluate PROVE TrainingInv'
  <2>1. PICK evaluated : evaluated = Signal(splitDir.heldStates \cap splitDir.heldLabels)
    OBVIOUS
  <2>2. PICK model : model = IF modelDir.full # None THEN modelDir.full ELSE modelDir.small
    OBVIOUS
  <2>3. PICK comparable : comparable = (/\ modelDir.metrics = None \/ modelDir.metrics.heldOutValid
                                        /\ evaluated # {})
    OBVIOUS
  <2>4. PICK current : current = (modelDir.full = None \/ (modelDir.metrics # None /\ modelDir.metrics.fullTrained))
    OBVIOUS
  <2>5. /\ report' = [model |-> model, evaluated |-> evaluated, comparable |-> comparable,
                      ordered |-> order = "trained", current |-> current]
        /\ toWrite = <<>> /\ fitting = None
        /\ UNCHANGED <<corpus, splitDir, toWrite, modelDir, fitting, order, splits>>
    BY <1>1, <2>1, <2>2, <2>3, <2>4 DEF Evaluate
  <2>6. /\ report'.model = model /\ report'.evaluated = evaluated /\ report'.comparable = comparable
        /\ report'.ordered = (order = "trained") /\ report'.current = current
    BY <2>5
  <2>7. TrainingTypeOK' /\ TrainingRecords' /\ CommandsFollow'
    BY <1>1, <2>5 DEF TrainingInv, TrainingTypeOK, TrainingRecords, CommandsFollow,
                      IsCut, IsSplit, WrittenSoFar, IsOfSplit
  <2>8. ASSUME comparable, order = "trained", current
        PROVE  /\ GroupsOf(evaluated) \cap (GroupsOf(model.seen) \cup GroupsOf(model.validated)) = {}
               /\ GroupsOf(model.seen) \cap GroupsOf(model.validated) = {}
               /\ GroupsOf(model.seen) # {} /\ GroupsOf(model.validated) # {}
    <3>1. /\ modelDir.metrics # None /\ IsOfSplit(modelDir.small)
          /\ modelDir.metrics.heldOutValid => modelDir.small.validated # {}
          /\ modelDir.metrics.fullTrained => modelDir.full = modelDir.small
      BY <1>1, <2>5, <2>8 DEF TrainingInv, CommandsFollow
    <3>2. model = modelDir.small
      BY <2>2, <2>4, <2>8, <3>1
    <3>3. IsOfSplit(model) /\ model.validated # {}
      BY <2>3, <2>8, <3>1, <3>2
    <3>4. PICK held \in SUBSET corpus : IsCut(held) /\ IsSplit(corpus \ held, held)
      BY <1>1, <2>8 DEF TrainingInv, CommandsFollow
    <3>5. evaluated \subseteq held /\ model.seen \cup model.validated \subseteq corpus \ held
      BY <2>1, <3>3, <3>4 DEF IsSplit, IsOfSplit, Signal
    <3> QED
      BY <3>3, <3>4, <3>5 DEF IsCut, IsOfSplit, GroupsOf
  <2>9. HeldOutIsUnseen'
    BY <2>6, <2>8 DEF HeldOutIsUnseen
  <2> QED
    BY <2>7, <2>9 DEF TrainingInv
<1> QED
  BY <1>1

LEMMA TrainingInvStep == TrainingInv /\ [TrainingNext]_trainingVars => TrainingInv'
<1>1. ASSUME TrainingInv, UNCHANGED trainingVars PROVE TrainingInv'
  <2>1. TrainingTypeOK' /\ TrainingRecords' /\ HeldOutIsUnseen'
    BY <1>1 DEF TrainingInv, TrainingTypeOK, TrainingRecords, HeldOutIsUnseen, trainingVars
  <2>2. CommandsFollow'
    BY <1>1 DEF TrainingInv, CommandsFollow, IsCut, IsSplit, WrittenSoFar, IsOfSplit, trainingVars
  <2> QED
    BY <2>1, <2>2 DEF TrainingInv
<1> QED
  BY <1>1, StartSplitInv, WriteSplitFileInv, StopSplitInv, StartFitInv, FinishFitInv, StopFitInv,
     EvaluateInv DEF TrainingNext

\* A model's score is that of matches it has not seen.
THEOREM ScoresAreOfUnseenReplays == TrainingSpec => []HeldOutIsUnseen
<1>1. TrainingInv => HeldOutIsUnseen
  BY DEF TrainingInv
<1> QED
  BY <1>1, InitTrainingInv, TrainingInvStep, PTL DEF TrainingSpec

-----------------------------------------------------------------------------
(***************************************************************************)
(* The round-value model, its benchmark and the registered datasets.       *)
(***************************************************************************)

\* The rows in the database, and those a build may add, are of demos of the inputs.
TablesAreOfInputs ==
    /\ \A s \in tables.snapshots : s.group \in DemoNames
    /\ \A b \in building : \A rec \in Range(b) : MatchOf(rec) \in DemoNames
    /\ commands \in Nat

\* A split keeps the test apart, and the calibration from what is fitted.
IsApart(s) ==
    /\ s.test # {} /\ s.test \cap (s.scored \cup s.calibration) = {}
    /\ s.calibration \cap s.fitted = {}

\* The files of the training in progress are its own.
FilesFollow ==
    /\ artifacts = [booster |-> artifacts.booster, small |-> artifacts.small,
                    calibrator |-> artifacts.calibrator, manifest |-> artifacts.manifest]
    /\ \A v, w \in training : v = w
    /\ \A w \in training :
          /\ w = [by |-> w.by, step |-> w.step, dev |-> w.dev, test |-> w.test, small |-> w.small,
                  scored |-> w.scored, calibrated |-> w.calibrated, fitted |-> w.fitted,
                  calibration |-> w.calibration]
          /\ IsApart(w)
          /\ w.step \in {"metrics", "calibrator", "manifest"} => artifacts.booster.by = w.by
          /\ w.step = "manifest" /\ w.calibrated => artifacts.calibrator.by = w.by
    /\ artifacts.manifest.calibrator # 0 => artifacts.manifest.booster = artifacts.manifest.calibrator

\* What was registered, or is about to be from what was read.
IsRegistry(view) == \A a, b \in view : a # b => a.groups \cap b.groups = {}

RegistriesAreApart ==
    /\ IsRegistry(registry)
    /\ \A e \in exporting :
          /\ e = [by |-> e.by, step |-> e.step, asked |-> e.asked, view |-> e.view, groups |-> e.groups]
          /\ IsRegistry(e.view)

LearningInv ==
    /\ TablesAreOfInputs /\ FilesFollow /\ RegistriesAreApart
    /\ TestMatchesAreUnseen /\ BenchmarkIsUnseen

-----------------------------------------------------------------------------
(* Splitting by match.                                                      *)

\* Among finitely many ranked groups one has none above it.
LEMMA OneIsLast ==
    ASSUME NEW groups, IsFiniteSet(groups), groups # {},
           NEW rank, \A g \in groups : rank[g] \in Nat
    PROVE  \E g \in groups : {h \in groups : rank[h] > rank[g]} = {}
<1>. DEFINE Above(g) == {h \in groups : rank[h] > rank[g]}
            sets     == {Above(g) : g \in groups}
<1>1. sets \subseteq SUBSET groups /\ sets # {}
  OBVIOUS
<1>2. IsWellFoundedOn(StrictSubsetOrdering(groups), SUBSET groups)
  BY FS_StrictSubsetOrderingWellFounded, FS_FiniteSubsetsOfFinite
<1>3. PICK x \in sets : \A y \in sets : ~(<<y, x>> \in StrictSubsetOrdering(groups))
  BY <1>1, <1>2, WFMin
<1>4. PICK g \in groups : x = Above(g)
  BY <1>3
<1>5. ASSUME NEW h \in Above(g) PROVE FALSE
  <2>1. h \in groups /\ rank[h] > rank[g] /\ rank[h] \in Nat /\ rank[g] \in Nat
    BY <1>5
  <2>2. Above(h) \subseteq Above(g) /\ h \notin Above(h)
    BY <2>1
  <2>3. Above(h) \in sets /\ Above(h) \in SUBSET groups /\ Above(g) \in SUBSET groups
    BY <2>1
  <2>4. Above(h) # Above(g)
    BY <1>5, <2>2
  <2>. HIDE DEF Above
  <2>5. <<Above(h), Above(g)>> \in StrictSubsetOrdering(groups)
    BY <2>2, <2>3, <2>4 DEF StrictSubsetOrdering
  <2> QED
    BY <1>3, <1>4, <2>3, <2>5
<1> QED
  BY <1>5

LEMMA SomethingIsHeldOut ==
    ASSUME NEW groups, IsFiniteSet(groups), Cardinality(groups) >= 4,
           NEW rank, \A g \in groups : rank[g] \in Nat
    PROVE  HeldOutGroups(groups, rank) # {} /\ HeldOutGroups(groups, rank) \subseteq groups
<1>1. groups # {}
  BY FS_EmptySet
<1>2. PICK g \in groups : {h \in groups : rank[h] > rank[g]} = {}
  BY <1>1, OneIsLast
<1>3. PICK n : n = Cardinality(groups)
  OBVIOUS
<1>4. n \in Nat /\ n >= 4
  BY <1>3, FS_CardinalityType
<1>5. FifthOf(n) > 0
  BY <1>4 DEF FifthOf
<1>6. Cardinality({h \in groups : rank[h] > rank[g]}) < FifthOf(Cardinality(groups))
  BY <1>2, <1>3, <1>5, FS_EmptySet
<1> QED
  BY <1>6 DEF HeldOutGroups

-----------------------------------------------------------------------------
(* What a build adds is of the demos of the inputs.                         *)

LEMMA RowsAreOfTheirMatch ==
    ASSUME NEW rec, NEW row \in SnapshotRows(rec)
    PROVE  row.group = MatchOf(rec)
BY DEF SnapshotRows, SnapshotAt

LEMMA EventRowsAreOfTheirDemo ==
    ASSUME NEW rec, NEW row \in EventRows(rec)
    PROVE  row.group = rec.source
<1>1. \A r, e : EventRowAt(rec, r, e).group = rec.source
  BY DEF EventRowAt
<1>2. PICK r, e : row = EventRowAt(rec, r, e)
  BY DEF EventRows
<1> QED
  BY <1>1, <1>2

LEMMA InputsAreNamed ==
    ASSUME NEW input \in Inputs, NEW rec \in Range(input)
    PROVE  rec.source \in DemoNames /\ MatchOf(rec) \in DemoNames
BY DEF DemoNames

LEMMA SourcesAreNamed ==
    ASSUME TablesAreOfInputs, NEW rows \in Sources
    PROVE  GroupsIn(rows) \subseteq DemoNames
<1>1. CASE rows = tables.snapshots
  BY <1>1 DEF TablesAreOfInputs, GroupsIn
<1>2. CASE rows \in SidecarRows
  <2>1. PICK input \in Inputs : rows = UNION {EventRows(rec) : rec \in Range(input)}
    BY <1>2 DEF SidecarRows
  <2>2. \A row \in rows : \E rec \in Range(input) : row \in EventRows(rec)
    BY <2>1
  <2>3. \A row \in rows : row.group \in DemoNames
    BY <2>2, EventRowsAreOfTheirDemo, InputsAreNamed
  <2> QED
    BY <2>3 DEF GroupsIn
<1> QED
  BY <1>1, <1>2 DEF Sources

-----------------------------------------------------------------------------
(* The invariant.                                                           *)

LEMMA InitLearningInv == ReplayTrainingInit => LearningInv
<1>1. ASSUME ReplayTrainingInit PROVE LearningInv
  <2>1. TablesAreOfInputs
    BY <1>1 DEF ReplayTrainingInit, DatabaseInit, EmptyTables, TablesAreOfInputs
  <2>2. FilesFollow
    BY <1>1 DEF ReplayTrainingInit, LearningInit, FilesFollow, NoManifest
  <2>3. RegistriesAreApart /\ TestMatchesAreUnseen /\ BenchmarkIsUnseen
    BY <1>1 DEF ReplayTrainingInit, LearningInit, RegistriesAreApart, IsRegistry,
                TestMatchesAreUnseen, BenchmarkIsUnseen
  <2> QED
    BY <2>1, <2>2, <2>3 DEF LearningInv
<1> QED
  BY <1>1

LEMMA OneMoreCommand ==
    ASSUME TablesAreOfInputs, Run
    PROVE  commands' \in Nat
BY DEF TablesAreOfInputs, Run

\* A build adds rows of the demos of its input.
LEMMA DatabaseStepTables ==
    ASSUME TablesAreOfInputs, DatabaseNext
    PROVE  TablesAreOfInputs'
<1>1. ASSUME NEW input \in Inputs, NEW replace \in BOOLEAN, NEW clean \in BOOLEAN,
             StartBuild(input, replace, clean)
      PROVE  TablesAreOfInputs'
  <2>1. commands' \in Nat
    BY <1>1, OneMoreCommand DEF StartBuild
  <2>2. \A s \in tables'.snapshots : s.group \in DemoNames
    BY <1>1 DEF StartBuild, EmptyTables, TablesAreOfInputs
  <2>3. PICK b : b = IF clean THEN [n \in DOMAIN input |-> Cleaned(input[n])] ELSE input
    OBVIOUS
  <2>4. \A rec \in Range(b) : MatchOf(rec) \in DemoNames
    <3>1. \A rec : MatchOf(Cleaned(rec)) = MatchOf(rec)
      BY DEF Cleaned, MatchOf
    <3>2. \A n \in DOMAIN input : MatchOf(input[n]) \in DemoNames
      BY InputsAreNamed DEF Range
    <3>3. CASE clean
      BY <2>3, <3>1, <3>2, <3>3 DEF Range
    <3>4. CASE ~clean
      BY <2>3, <3>2, <3>4 DEF Range
    <3> QED
      BY <3>3, <3>4
  <2>5. building' = {b}
    BY <1>1, <2>3 DEF StartBuild
  <2> QED
    BY <2>1, <2>2, <2>4, <2>5 DEF TablesAreOfInputs
<1>2. ASSUME CommitBuild PROVE TablesAreOfInputs'
  <2>1. PICK b \in building : tables' = InsertAll(tables, Range(b)) /\ building' = {}
    BY <1>2 DEF CommitBuild
  <2>2. tables'.snapshots = tables.snapshots \cup UNION {SnapshotRows(rec) : rec \in Range(b)}
    BY <2>1 DEF InsertAll
  <2>3. \A s \in tables'.snapshots : s.group \in DemoNames
    BY <2>1, <2>2, RowsAreOfTheirMatch DEF TablesAreOfInputs
  <2> QED
    BY <1>2, <2>1, <2>3 DEF TablesAreOfInputs, CommitBuild
<1>3. ASSUME AbandonBuild PROVE TablesAreOfInputs'
  BY <1>3 DEF AbandonBuild, TablesAreOfInputs
<1> QED
  BY <1>1, <1>2, <1>3 DEF DatabaseNext

\* A training keeps its test apart, whatever small model it finds.
LEMMA StartTrainingInv ==
    ASSUME LearningInv, NEW rows \in Sources, NEW shuffle \in Shuffles,
           NEW calibrate \in BOOLEAN, NEW reuse \in BOOLEAN, NEW save \in BOOLEAN,
           StartTraining(rows, shuffle, calibrate, reuse, save)
    PROVE  LearningInv'
<1>1. PICK all : all = GroupsIn(rows)
  OBVIOUS
<1>2. PICK test : test = HeldOutGroups(all, shuffle[1])
  OBVIOUS
<1>3. PICK pool : pool = all \ test
  OBVIOUS
<1>4. PICK calib : calib = HeldOutGroups(pool, shuffle[2])
  OBVIOUS
<1>5. PICK rest : rest = pool \ calib
  OBVIOUS
<1>6. PICK tuning : tuning = HeldOutGroups(rest, shuffle[3])
  OBVIOUS
<1>7. PICK learn : learn = rest \ tuning
  OBVIOUS
<1>8. PICK loaded : loaded = (reuse /\ artifacts.small.by # 0)
  OBVIOUS
<1>9. PICK small : small = LoadOrFit(reuse, pool)
  OBVIOUS
<1>10. PICK w : w = [by |-> commands', step |-> "booster", dev |-> pool, test |-> test,
                     small |-> IF loaded \/ save THEN small.by ELSE 0,
                     scored |-> pool \cup ScoredSmall(loaded, small.learnt, pool),
                     calibrated |-> calibrate /\ BothOutcomes(rows, calib),
                     fitted |-> learn \cup tuning, calibration |-> calib]
  OBVIOUS
<1>11. /\ Cardinality(all) >= 4 /\ Run /\ training' = {w}
       /\ artifacts' = [artifacts EXCEPT !.small = IF save THEN small ELSE @]
       /\ UNCHANGED <<tables, building, scores, benchmark, benchScore, exporting, registry>>
  BY <1>1, <1>2, <1>3, <1>4, <1>5, <1>6, <1>7, <1>8, <1>9, <1>10 DEF StartTraining
<1>12. TablesAreOfInputs'
  BY <1>11, OneMoreCommand DEF LearningInv, TablesAreOfInputs
<1>13. w.test # {} /\ w.test = test /\ test \subseteq all
  <2>1. all \subseteq DemoNames
    BY <1>1, SourcesAreNamed DEF LearningInv
  <2>2. IsFiniteSet(all) /\ \A g \in all : shuffle[1][g] \in Nat
    BY <2>1, InputsAssumption, ShufflesAssumption, FS_Subset
  <2> QED
    BY <1>2, <1>10, <1>11, <2>2, SomethingIsHeldOut
<1>14. w.calibration = calib /\ calib \subseteq pool /\ w.fitted \subseteq rest
  BY <1>4, <1>6, <1>7, <1>10 DEF HeldOutGroups
<1>15. w.scored = pool
  <2>1. CASE loaded
    BY <1>10, <2>1 DEF ScoredSmall
  <2>2. CASE ~loaded
    <3>1. small.learnt = pool
      BY <1>8, <1>9, <2>2 DEF LoadOrFit
    <3> QED
      BY <1>10, <2>2, <3>1 DEF ScoredSmall
  <2> QED
    BY <2>1, <2>2
<1>16. IsApart(w)
  BY <1>3, <1>5, <1>13, <1>14, <1>15 DEF IsApart
<1>17. /\ artifacts' = [booster |-> artifacts.booster, small |-> IF save THEN small ELSE artifacts.small,
                        calibrator |-> artifacts.calibrator, manifest |-> artifacts.manifest]
  BY <1>11 DEF LearningInv, FilesFollow
<1>18. w.step = "booster"
       /\ w = [by |-> w.by, step |-> w.step, dev |-> w.dev, test |-> w.test, small |-> w.small,
               scored |-> w.scored, calibrated |-> w.calibrated, fitted |-> w.fitted,
               calibration |-> w.calibration]
  BY <1>10
<1>19. FilesFollow'
  BY <1>11, <1>16, <1>17, <1>18 DEF LearningInv, FilesFollow
<1>20. RegistriesAreApart' /\ TestMatchesAreUnseen' /\ BenchmarkIsUnseen'
  BY <1>11 DEF LearningInv, RegistriesAreApart, TestMatchesAreUnseen, BenchmarkIsUnseen
<1> QED
  BY <1>12, <1>19, <1>20 DEF LearningInv

\* Of the files of a training the calibrator is written after the booster, and
\* the manifest, which names both, after the calibrator.
LEMMA TrainingStepInv ==
    ASSUME LearningInv, TrainingStep
    PROVE  LearningInv'
<1>1. PICK w \in training : \/ WriteBooster(w) \/ WriteMetrics(w) \/ WriteCalibrator(w)
                            \/ WriteManifest(w) \/ FinishManifest(w) \/ StopTraining(w)
  BY DEF TrainingStep
<1>2. UNCHANGED <<tables, building, commands, benchmark, benchScore, exporting, registry>>
  BY DEF TrainingStep, databaseVars
<1>3. TablesAreOfInputs' /\ RegistriesAreApart' /\ BenchmarkIsUnseen'
  BY <1>2 DEF LearningInv, TablesAreOfInputs, RegistriesAreApart, BenchmarkIsUnseen
<1>4. /\ IsApart(w)
      /\ w = [by |-> w.by, step |-> w.step, dev |-> w.dev, test |-> w.test, small |-> w.small,
              scored |-> w.scored, calibrated |-> w.calibrated, fitted |-> w.fitted,
              calibration |-> w.calibration]
      /\ w.step \in {"metrics", "calibrator", "manifest"} => artifacts.booster.by = w.by
      /\ w.step = "manifest" /\ w.calibrated => artifacts.calibrator.by = w.by
      /\ artifacts.manifest.calibrator # 0 => artifacts.manifest.booster = artifacts.manifest.calibrator
      /\ artifacts = [booster |-> artifacts.booster, small |-> artifacts.small,
                      calibrator |-> artifacts.calibrator, manifest |-> artifacts.manifest]
  BY <1>1 DEF LearningInv, FilesFollow
<1>5. ASSUME NEW step, training' = {[w EXCEPT !.step = step]},
             artifacts' = [booster |-> artifacts'.booster, small |-> artifacts'.small,
                           calibrator |-> artifacts'.calibrator, manifest |-> artifacts'.manifest],
             step \in {"metrics", "calibrator", "manifest"} => artifacts'.booster.by = w.by,
             step = "manifest" /\ w.calibrated => artifacts'.calibrator.by = w.by,
             artifacts'.manifest.calibrator # 0 => artifacts'.manifest.booster = artifacts'.manifest.calibrator
      PROVE  FilesFollow'
  <2>1. PICK v : v = [w EXCEPT !.step = step]
    OBVIOUS
  <2>2. v = [by |-> w.by, step |-> step, dev |-> w.dev, test |-> w.test, small |-> w.small,
             scored |-> w.scored, calibrated |-> w.calibrated, fitted |-> w.fitted,
             calibration |-> w.calibration]
    BY <1>4, <2>1
  <2>3. IsApart(v)
    BY <1>4, <2>2 DEF IsApart
  <2>4. training' = {v}
    BY <1>5, <2>1
  <2>5. v.by = w.by /\ v.step = step /\ v.calibrated = w.calibrated
        /\ v = [by |-> v.by, step |-> v.step, dev |-> v.dev, test |-> v.test, small |-> v.small,
                scored |-> v.scored, calibrated |-> v.calibrated, fitted |-> v.fitted,
                calibration |-> v.calibration]
    BY <2>2
  <2> QED
    BY <1>5, <2>3, <2>4, <2>5 DEF FilesFollow
<1>6. CASE WriteBooster(w)
  <2>1. artifacts' = [booster |-> Refitted(w), small |-> artifacts.small,
                      calibrator |-> artifacts.calibrator, manifest |-> artifacts.manifest]
    BY <1>4, <1>6 DEF WriteBooster
  <2>2. artifacts'.booster.by = w.by /\ training' = {[w EXCEPT !.step = "metrics"]} /\ UNCHANGED scores
    BY <1>6, <2>1 DEF WriteBooster, Refitted
  <2>3. FilesFollow'
    BY <1>4, <1>5, <2>1, <2>2
  <2> QED
    BY <1>3, <2>2, <2>3 DEF LearningInv, TestMatchesAreUnseen
<1>7. CASE WriteMetrics(w)
  <2>1. /\ w.step = "metrics" /\ training' = {[w EXCEPT !.step = "calibrator"]} /\ artifacts' = artifacts
        /\ scores' = {[scored |-> w.scored, test |-> w.test, fitted |-> w.fitted, calibration |-> w.calibration]}
    BY <1>7 DEF WriteMetrics
  <2>2. FilesFollow'
    BY <1>4, <1>5, <2>1
  <2>3. TestMatchesAreUnseen'
    BY <1>4, <2>1 DEF TestMatchesAreUnseen, IsApart
  <2> QED
    BY <1>3, <2>2, <2>3 DEF LearningInv
<1>8. CASE WriteCalibrator(w)
  <2>1. PICK calibrator : calibrator = IF w.calibrated THEN [by |-> w.by, learnt |-> w.calibration] ELSE artifacts.calibrator
    OBVIOUS
  <2>2. artifacts' = [booster |-> artifacts.booster, small |-> artifacts.small,
                      calibrator |-> calibrator, manifest |-> artifacts.manifest]
    BY <1>4, <1>8, <2>1 DEF WriteCalibrator
  <2>3. /\ w.step = "calibrator" /\ training' = {[w EXCEPT !.step = "manifest"]} /\ UNCHANGED scores
        /\ w.calibrated => artifacts'.calibrator.by = w.by
    BY <1>8, <2>1, <2>2 DEF WriteCalibrator
  <2>4. FilesFollow'
    BY <1>4, <1>5, <2>2, <2>3
  <2> QED
    BY <1>3, <2>3, <2>4 DEF LearningInv, TestMatchesAreUnseen
<1>9. CASE WriteManifest(w) /\ w.small # 0
  <2>1. PICK named : named = [booster |-> artifacts.booster.by, small |-> artifacts.small.by,
                              calibrator |-> IF w.calibrated THEN artifacts.calibrator.by ELSE 0]
    OBVIOUS
  <2>2. artifacts' = [booster |-> artifacts.booster, small |-> artifacts.small,
                      calibrator |-> artifacts.calibrator, manifest |-> named]
    BY <1>4, <1>9, <2>1 DEF WriteManifest
  <2>3. w.step = "manifest" /\ training' = {[w EXCEPT !.step = "extras"]} /\ UNCHANGED scores
    BY <1>9 DEF WriteManifest
  <2>4. named.calibrator # 0 => named.booster = named.calibrator
    BY <1>4, <2>1, <2>3
  <2>5. FilesFollow'
    BY <1>5, <2>2, <2>3, <2>4
  <2> QED
    BY <1>3, <2>3, <2>5 DEF LearningInv, TestMatchesAreUnseen
<1>10. CASE (WriteManifest(w) /\ w.small = 0) \/ FinishManifest(w) \/ StopTraining(w)
  <2>1. training' = {} /\ UNCHANGED scores
    BY <1>10 DEF WriteManifest, FinishManifest, StopTraining
  <2>2. artifacts' = artifacts \/ artifacts' = [artifacts EXCEPT !.manifest = NoManifest]
    BY <1>10 DEF WriteManifest, FinishManifest, StopTraining
  <2>3. artifacts' = artifacts \/ artifacts' =
            [booster |-> artifacts.booster, small |-> artifacts.small,
             calibrator |-> artifacts.calibrator, manifest |-> NoManifest]
    BY <1>4, <2>2
  <2>4. FilesFollow'
    BY <1>4, <2>1, <2>3 DEF FilesFollow, NoManifest
  <2> QED
    BY <1>3, <2>1, <2>4 DEF LearningInv, TestMatchesAreUnseen
<1> QED
  BY <1>1, <1>6, <1>7, <1>8, <1>9, <1>10

LEMMA TrainSmallModelInv == LearningInv /\ TrainSmallModel => LearningInv'
<1>1. ASSUME LearningInv, TrainSmallModel PROVE LearningInv'
  <2>1. PICK small : artifacts' = [artifacts EXCEPT !.small = small]
    BY <1>1 DEF TrainSmallModel
  <2>2. Run /\ UNCHANGED <<tables, building, training, scores, benchmark, benchScore, exporting, registry>>
    BY <1>1 DEF TrainSmallModel
  <2>3. artifacts' = [booster |-> artifacts.booster, small |-> small,
                      calibrator |-> artifacts.calibrator, manifest |-> artifacts.manifest]
    BY <1>1, <2>1 DEF LearningInv, FilesFollow
  <2>4. FilesFollow'
    BY <1>1, <2>2, <2>3 DEF LearningInv, FilesFollow
  <2>5. TablesAreOfInputs'
    BY <1>1, <2>2, OneMoreCommand DEF LearningInv, TablesAreOfInputs
  <2>6. RegistriesAreApart' /\ TestMatchesAreUnseen' /\ BenchmarkIsUnseen'
    BY <1>1, <2>2 DEF LearningInv, RegistriesAreApart, TestMatchesAreUnseen, BenchmarkIsUnseen
  <2> QED
    BY <2>4, <2>5, <2>6 DEF LearningInv
<1> QED
  BY <1>1

\* A benchmark is asked for again before it is scored.
LEMMA BenchmarkInv == LearningInv /\ (SealBenchmark \/ EvaluateBenchmark) => LearningInv'
<1>1. ASSUME LearningInv, SealBenchmark \/ EvaluateBenchmark PROVE LearningInv'
  <2>1. Run /\ UNCHANGED <<tables, building, artifacts, training, scores, exporting, registry>>
    BY <1>1 DEF SealBenchmark, EvaluateBenchmark
  <2>2. TablesAreOfInputs'
    BY <1>1, <2>1, OneMoreCommand DEF LearningInv, TablesAreOfInputs
  <2>3. FilesFollow' /\ RegistriesAreApart' /\ TestMatchesAreUnseen'
    BY <1>1, <2>1 DEF LearningInv, FilesFollow, RegistriesAreApart, TestMatchesAreUnseen
  <2>4. CASE SealBenchmark
    BY <1>1, <2>2, <2>3, <2>4 DEF LearningInv, SealBenchmark, BenchmarkIsUnseen
  <2>5. CASE EvaluateBenchmark
    <3>1. PICK learnt : learnt = artifacts.booster.learnt \cup artifacts.small.learnt
      OBVIOUS
    <3>2. PICK kept : kept = (learnt \subseteq {r.match : r \in tables.replays})
      OBVIOUS
    <3>3. benchScore' = {[demos |-> {d.match : d \in benchmark}, learnt |-> learnt, kept |-> kept]}
      BY <2>5, <3>1, <3>2 DEF EvaluateBenchmark
    <3>4. \A d \in benchmark : d.match \notin {r.match : r \in tables.replays}
      BY <2>5 DEF EvaluateBenchmark, StillUnseen, Unseen, KnownKeys
    <3>5. kept => {d.match : d \in benchmark} \cap learnt = {}
      BY <3>2, <3>4
    <3> QED
      BY <2>2, <2>3, <3>3, <3>5 DEF BenchmarkIsUnseen, LearningInv
  <2> QED
    BY <1>1, <2>2, <2>3, <2>4, <2>5 DEF LearningInv
<1> QED
  BY <1>1

\* An export is registered beside what it has read, and the file is replaced.
LEMMA ExportInv ==
    ASSUME LearningInv, ExportStep \/ \E wanted \in Askable : StartExport(wanted)
    PROVE  LearningInv'
<1>1. TablesAreOfInputs'
  <2>1. CASE ExportStep
    BY <2>1 DEF ExportStep, databaseVars, LearningInv, TablesAreOfInputs
  <2>2. ASSUME NEW wanted \in Askable, StartExport(wanted) PROVE TablesAreOfInputs'
    BY <2>2, OneMoreCommand DEF StartExport, LearningInv, TablesAreOfInputs
  <2> QED
    BY <2>1, <2>2
<1>2. UNCHANGED <<artifacts, training, scores, benchmark, benchScore>>
  BY DEF ExportStep, StartExport
<1>3. FilesFollow' /\ TestMatchesAreUnseen' /\ BenchmarkIsUnseen'
  BY <1>2 DEF LearningInv, FilesFollow, TestMatchesAreUnseen, BenchmarkIsUnseen
<1>4. RegistriesAreApart
  BY DEF LearningInv
<1>5. ASSUME NEW e, e = [by |-> e.by, step |-> e.step, asked |-> e.asked, view |-> e.view, groups |-> e.groups],
             IsRegistry(e.view), registry' = registry,
             exporting' \subseteq exporting \cup {e}
      PROVE  RegistriesAreApart'
  BY <1>4, <1>5 DEF RegistriesAreApart, IsRegistry
<1>6. ASSUME NEW wanted \in Askable, StartExport(wanted) PROVE RegistriesAreApart'
  <2>1. PICK by, groups : exporting' = exporting \cup
            {[by |-> by, step |-> "actions", asked |-> wanted, view |-> {}, groups |-> groups]}
    BY <1>6 DEF StartExport
  <2>2. PICK e : e = [by |-> by, step |-> "actions", asked |-> wanted, view |-> {}, groups |-> groups]
    OBVIOUS
  <2>3. /\ e = [by |-> e.by, step |-> e.step, asked |-> e.asked, view |-> e.view, groups |-> e.groups]
        /\ e.view = {}
    BY <2>2
  <2>4. IsRegistry(e.view) /\ registry' = registry
    BY <1>6, <2>3 DEF IsRegistry, StartExport
  <2> QED
    BY <1>5, <2>1, <2>2, <2>3, <2>4
<1>7. ASSUME NEW e \in exporting, PublishExport(e) PROVE RegistriesAreApart'
  <2>1. PICK groups : exporting' \subseteq exporting \cup {[e EXCEPT !.step = "load", !.groups = groups]}
    BY <1>7 DEF PublishExport
  <2>2. PICK x : x = [e EXCEPT !.step = "load", !.groups = groups]
    OBVIOUS
  <2>3. x = [by |-> e.by, step |-> "load", asked |-> e.asked, view |-> e.view, groups |-> groups]
    <3>1. e = [by |-> e.by, step |-> e.step, asked |-> e.asked, view |-> e.view, groups |-> e.groups]
      BY <1>4 DEF RegistriesAreApart
    <3>2. PICK by, step, wanted, view, old : e = [by |-> by, step |-> step, asked |-> wanted, view |-> view, groups |-> old]
      BY <3>1
    <3> QED
      BY <2>2, <3>2
  <2>4. /\ x = [by |-> x.by, step |-> x.step, asked |-> x.asked, view |-> x.view, groups |-> x.groups]
        /\ x.view = e.view
    BY <2>3
  <2>5. IsRegistry(x.view) /\ registry' = registry
    BY <1>4, <1>7, <2>4 DEF RegistriesAreApart, PublishExport
  <2> QED
    BY <1>5, <2>1, <2>2, <2>4, <2>5
<1>8. ASSUME NEW e \in exporting, LoadRegistry(e) PROVE RegistriesAreApart'
  <2>1. PICK x : x = [e EXCEPT !.step = "save", !.view = registry]
    OBVIOUS
  <2>2. x = [by |-> e.by, step |-> "save", asked |-> e.asked, view |-> registry, groups |-> e.groups]
    <3>1. e = [by |-> e.by, step |-> e.step, asked |-> e.asked, view |-> e.view, groups |-> e.groups]
      BY <1>4 DEF RegistriesAreApart
    <3>2. PICK by, step, wanted, view, groups : e = [by |-> by, step |-> step, asked |-> wanted, view |-> view, groups |-> groups]
      BY <3>1
    <3> QED
      BY <2>1, <3>2
  <2>3. /\ x = [by |-> x.by, step |-> x.step, asked |-> x.asked, view |-> x.view, groups |-> x.groups]
        /\ x.view = registry
    BY <2>2
  <2>4. IsRegistry(x.view) /\ registry' = registry /\ exporting' \subseteq exporting \cup {x}
    BY <1>4, <1>8, <2>1, <2>3 DEF RegistriesAreApart, LoadRegistry
  <2> QED
    BY <1>5, <2>3, <2>4
<1>9. ASSUME NEW e \in exporting, SaveRegistry(e) PROVE RegistriesAreApart'
  <2>1. IsRegistry(e.view) /\ exporting' \subseteq exporting
    BY <1>4, <1>9 DEF RegistriesAreApart, SaveRegistry
  <2>2. PICK entry : entry = [id |-> e.by, groups |-> e.groups]
    OBVIOUS
  <2>3. \/ registry' = registry
        \/ registry' = e.view \cup {entry} /\ \A other \in e.view : other.groups \cap e.groups = {}
    BY <1>9, <2>2 DEF SaveRegistry, Registered
  <2>4. IsRegistry(registry')
    BY <1>4, <2>1, <2>2, <2>3 DEF RegistriesAreApart, IsRegistry
  <2> QED
    BY <1>4, <2>1, <2>4 DEF RegistriesAreApart, IsRegistry
<1>10. RegistriesAreApart'
  BY <1>6, <1>7, <1>8, <1>9 DEF ExportStep
<1> QED
  BY <1>1, <1>3, <1>10 DEF LearningInv

LEMMA LearningInvStep == LearningInv /\ [LearningNext \/ ExportNext]_replayTrainingVars => LearningInv'
<1>1. ASSUME LearningInv, UNCHANGED replayTrainingVars PROVE LearningInv'
  BY <1>1 DEF LearningInv, TablesAreOfInputs, FilesFollow, RegistriesAreApart, TestMatchesAreUnseen,
              BenchmarkIsUnseen, replayTrainingVars, databaseVars, learningVars
<1>2. ASSUME LearningInv, DatabaseNext /\ UNCHANGED learningVars PROVE LearningInv'
  <2>1. TablesAreOfInputs'
    BY <1>2, DatabaseStepTables DEF LearningInv
  <2>2. FilesFollow' /\ RegistriesAreApart' /\ TestMatchesAreUnseen' /\ BenchmarkIsUnseen'
    BY <1>2 DEF LearningInv, FilesFollow, RegistriesAreApart, TestMatchesAreUnseen, BenchmarkIsUnseen,
                learningVars
  <2> QED
    BY <2>1, <2>2 DEF LearningInv
<1> QED
  BY <1>1, <1>2, StartTrainingInv, TrainingStepInv, TrainSmallModelInv, BenchmarkInv, ExportInv
  DEF LearningNext, ExportNext

\* What the parts of the invariant say of the scores.
LEMMA LearningIsSafe ==
    LearningInv => /\ TestMatchesAreUnseen /\ BenchmarkIsUnseen
                   /\ DatasetsAreApart /\ LoadedModelIsOfOneTraining
<1>1. ASSUME LearningInv PROVE DatasetsAreApart
  BY <1>1 DEF LearningInv, RegistriesAreApart, IsRegistry, DatasetsAreApart
<1>2. ASSUME LearningInv PROVE LoadedModelIsOfOneTraining
  BY <1>2 DEF LearningInv, FilesFollow, LoadedModelIsOfOneTraining, Loadable
<1> QED
  BY <1>1, <1>2 DEF LearningInv

-----------------------------------------------------------------------------
(* No score is one of matches that were learnt.                             *)

\* Both at once: the part that is not at work is at rest, without a report.
ScoresInv ==
    /\ part = "training" => TrainingInv
    /\ part # "training" => report = None
    /\ LearningInv

LEMMA InitScoresInv == Init => ScoresInv
<1>1. ASSUME Init PROVE ScoresInv
  <2>1. part = "training" => TrainingInv
    BY <1>1, InitTrainingInv DEF Init
  <2>2. part # "training" => report = None
    BY <1>1 DEF Init, TrainingRests
  <2>3. LearningInv
    BY <1>1, InitLearningInv DEF Init
  <2> QED
    BY <2>1, <2>2, <2>3 DEF ScoresInv
<1> QED
  BY <1>1

LEMMA ScoresInvStep == ScoresInv /\ [Next]_backendVars => ScoresInv'
<1>1. ASSUME [Next]_backendVars
      PROVE  /\ part' = part
             /\ part = "training" => [TrainingNext]_trainingVars
             /\ part # "training" => UNCHANGED trainingVars
             /\ [LearningNext \/ ExportNext]_replayTrainingVars
  BY <1>1 DEF Next, backendVars
<1>2. ASSUME ScoresInv, [Next]_backendVars PROVE ScoresInv'
  <2>1. part = "training" => TrainingInv'
    BY <1>1, <1>2, TrainingInvStep DEF ScoresInv
  <2>2. part # "training" => report' = None
    BY <1>1, <1>2 DEF ScoresInv, trainingVars
  <2>3. LearningInv'
    BY <1>1, <1>2, LearningInvStep DEF ScoresInv
  <2> QED
    BY <1>1, <1>2, <2>1, <2>2, <2>3 DEF ScoresInv
<1> QED
  BY <1>2

LEMMA ScoresInvIsSafe == ScoresInv => ScoresAreOfUnseenMatches
<1>1. ASSUME ScoresInv PROVE HeldOutIsUnseen
  BY <1>1 DEF ScoresInv, TrainingInv, HeldOutIsUnseen
<1> QED
  BY <1>1, LearningIsSafe DEF ScoresInv, ScoresAreOfUnseenMatches

\* No score is one of matches that were learnt, whichever commands are run, in
\* which order, and wherever they stop; registered datasets stay apart.
THEOREM ScoresStayOfUnseenMatches == Spec => []ScoresAreOfUnseenMatches
BY InitScoresInv, ScoresInvStep, ScoresInvIsSafe, PTL DEF Spec

-----------------------------------------------------------------------------
(***************************************************************************)
(* The database: what a snapshot says of its round is what is stored of    *)
(* the round.  A demo may be built cleaned and as it is; that the unique   *)
(* index then keeps the second build out rests on cleaning keeping every   *)
(* snapshot of a round it keeps.                                           *)
(***************************************************************************)

IsWellTold(rec) ==
    /\ IsFiniteSet(rec.ticks) /\ IsFiniteSet(rec.events)
    /\ \A x \in rec.ticks : x.nth \in Nat
    /\ RepeatsAgree(rec)

LEMMA LeastOfFinite ==
    ASSUME NEW B \in SUBSET Int, IsFiniteSet(B), B # {}
    PROVE  \E n \in B : \A k \in B : n <= k
<1> DEFINE R == {x \in B \X B : x[1] < x[2]}
<1>1. IsOrder(B, R)
  BY DEF IsOrder
<1>2. Cardinality(B) \in Nat /\ Cardinality(B) # 0
  BY FS_CardinalityType, FS_EmptySet
<1>3. PICK n \in B : Cardinality(Below(B, R, n)) = 0
  <2> HIDE DEF R
  <2>1. 1 \in 1 .. Cardinality(B)
    BY <1>2
  <2>2. \E n \in B : Cardinality(Below(B, R, n)) = 1 - 1
    BY <1>1, <2>1, RanksExist
  <2> QED
    BY <2>2
<1>4. Below(B, R, n) = {}
  <2>1. IsFiniteSet(Below(B, R, n))
    BY FS_Subset DEF Below
  <2> QED
    BY <1>3, <2>1, FS_EmptySet
<1>5. \A k \in B : ~(k < n)
  BY <1>4 DEF Below
<1> QED
  BY <1>5

\* Of rows told twice, one is kept.
LEMMA OneRowIsKept ==
    ASSUME NEW rows, IsFiniteSet(rows), \A x \in rows : x.nth \in Nat, NEW x \in rows
    PROVE  \E y \in FirstOnly(rows) : SameTick(y, x)
<1> DEFINE same == {y \in rows : SameTick(y, x)}
           B == {y.nth : y \in same}
           f == [y \in same |-> y.nth]
<1>1. IsFiniteSet(same)
  BY FS_Subset
<1>2. f \in Surjection(same, B)
  <2>1. f \in [same -> B] /\ \A t \in B : \E y \in same : f[y] = t
    OBVIOUS
  <2> HIDE DEF same, B, f
  <2> QED
    BY <2>1 DEF Surjection
<1>3. x \in same
  BY DEF SameTick
<1>4. B \in SUBSET Nat /\ B # {}
  BY <1>3
<1>5. IsFiniteSet(B)
  <2> HIDE DEF same, B, f
  <2> QED
    BY <1>1, <1>2, FS_Surjection
<1>6. PICK n \in B : \A k \in B : n <= k
  <2> HIDE DEF B
  <2> QED
    BY <1>4, <1>5, LeastOfFinite
<1>7. PICK y \in same : y.nth = n
  OBVIOUS
<1>8. ASSUME NEW z \in rows, SameTick(y, z), z.nth < y.nth PROVE FALSE
  <2>1. z \in same
    BY <1>7, <1>8 DEF SameTick
  <2>2. n <= z.nth /\ z.nth \in Nat /\ n \in Nat
    BY <1>4, <1>6, <2>1
  <2> QED
    BY <1>7, <1>8, <2>2
<1> QED
  BY <1>7, <1>8 DEF FirstOnly

\* The rounds that cleaning keeps, and what it keeps of them.
IsKept(rec, num) == \E q \in rec.rounds : q.num = num /\ IsSoundRound(q)

LEMMA CleaningKeeps ==
    ASSUME NEW rec, IsWellTold(rec), NEW r, IsKept(rec, r.num), NEW clean, clean = Cleaned(rec)
    PROVE  /\ OfRound(clean.events, r) = OfRound(rec.events, r)
           /\ OfRound(clean.ticks, r) \subseteq OfRound(rec.ticks, r)
           /\ \A x \in OfRound(rec.ticks, r) : \E y \in OfRound(clean.ticks, r) : SameTick(y, x)
           /\ TicksOf(OfRound(clean.ticks, r)) = TicksOf(OfRound(rec.ticks, r))
<1> DEFINE kept == {q.num : q \in {q \in rec.rounds : IsSoundRound(q)}}
           rows == {x \in rec.ticks : x.round \in kept}
<1>1. r.num \in kept
  BY DEF IsKept
<1>2. /\ clean.ticks = FirstOnly(rows)
      /\ clean.events = {e \in rec.events : e.kind = "shot" \/ e.round \in kept}
  BY DEF Cleaned
<1> HIDE DEF kept
<1>3. OfRound(clean.events, r) = OfRound(rec.events, r)
  BY <1>1, <1>2 DEF OfRound
<1>4. OfRound(clean.ticks, r) \subseteq OfRound(rec.ticks, r)
  BY <1>2 DEF OfRound, FirstOnly
<1>5. ASSUME NEW x \in OfRound(rec.ticks, r)
      PROVE  \E y \in OfRound(clean.ticks, r) : SameTick(y, x)
  <2>1. x \in rows /\ x.round = r.num
    BY <1>1, <1>5 DEF OfRound
  <2>2. IsFiniteSet(rows) /\ \A z \in rows : z.nth \in Nat
    BY FS_Subset DEF IsWellTold
  <2> HIDE DEF rows
  <2>3. PICK y \in FirstOnly(rows) : SameTick(y, x)
    BY <2>1, <2>2, OneRowIsKept
  <2> QED
    BY <1>2, <2>1, <2>3 DEF OfRound, SameTick
<1>6. TicksOf(OfRound(clean.ticks, r)) = TicksOf(OfRound(rec.ticks, r))
  BY <1>4, <1>5 DEF TicksOf, SameTick
<1> QED
  BY <1>3, <1>4, <1>5, <1>6

\* A round that is kept has the same states to be told of, and each is told of
\* with or without cleaning.
LEMMA SomebodyLives ==
    ASSUME NEW S, IsFiniteSet(S) PROVE Cardinality(S) > 0 <=> S # {}
<1>1. Cardinality(S) \in Nat /\ (Cardinality(S) = 0 <=> S = {})
  BY FS_CardinalityType, FS_EmptySet
<1> QED
  BY <1>1

LEMMA CleaningKeepsStates ==
    ASSUME NEW rec, IsWellTold(rec), NEW r, IsKept(rec, r.num), NEW t
    PROVE  /\ t \in SampledTicks(Cleaned(rec), r) <=> t \in SampledTicks(rec, r)
           /\ Contact(Cleaned(rec), r) = Contact(rec, r)
           /\ \A side : Living(Cleaned(rec), r, t, side) > 0 <=> Living(rec, r, t, side) > 0
<1>1. PICK clean : clean = Cleaned(rec)
  OBVIOUS
<1>2. /\ OfRound(clean.events, r) = OfRound(rec.events, r)
      /\ OfRound(clean.ticks, r) \subseteq OfRound(rec.ticks, r)
      /\ \A x \in OfRound(rec.ticks, r) : \E y \in OfRound(clean.ticks, r) : SameTick(y, x)
      /\ TicksOf(OfRound(clean.ticks, r)) = TicksOf(OfRound(rec.ticks, r))
  BY <1>1, CleaningKeeps
<1>3. ASSUME NEW side
      PROVE  Living(clean, r, t, side) > 0 <=> Living(rec, r, t, side) > 0
  <2> DEFINE A == {x \in OfRound(clean.ticks, r) : x.tick = t /\ x.side = side /\ x.alive}
             B == {x \in OfRound(rec.ticks, r) : x.tick = t /\ x.side = side /\ x.alive}
  <2>1. A \subseteq B
    BY <1>2
  <2>2. B # {} => A # {}
    <3>1. ASSUME NEW x \in B PROVE A # {}
      <4>1. PICK y \in OfRound(clean.ticks, r) : SameTick(y, x)
        BY <1>2
      <4>2. y \in rec.ticks /\ x \in rec.ticks
        BY <1>2 DEF OfRound
      <4>3. y.alive = x.alive /\ y.side = x.side /\ y.tick = x.tick
        BY <4>1, <4>2 DEF IsWellTold, RepeatsAgree, SameTick
      <4> QED
        BY <4>1, <4>3
    <3> QED
      BY <3>1
  <2>3. IsFiniteSet(B) /\ IsFiniteSet(A)
    <3>1. B \subseteq rec.ticks
      BY DEF OfRound
    <3> HIDE DEF A, B
    <3> QED
      BY <2>1, <3>1, FS_Subset DEF IsWellTold
  <2>4. Living(clean, r, t, side) = Cardinality(A) /\ Living(rec, r, t, side) = Cardinality(B)
    BY DEF Living
  <2> HIDE DEF A, B
  <2>5. (Cardinality(A) > 0 <=> A # {}) /\ (Cardinality(B) > 0 <=> B # {})
    BY <2>3, SomebodyLives
  <2> QED
    BY <2>1, <2>2, <2>4, <2>5
<1>4. SampledTicks(clean, r) = SampledTicks(rec, r)
  BY <1>2 DEF SampledTicks
<1>5. Contact(clean, r) = Contact(rec, r)
  BY <1>2 DEF Contact, EventsOf
<1> QED
  BY <1>1, <1>3, <1>4, <1>5

\* When a round has a snapshot at a tick.
HasSnapshot(v, r, t) ==
    /\ r.winner # "none" /\ t \in SampledTicks(v, r) /\ Near(t, Contact(v, r))
    /\ Living(v, r, t, "ct") > 0 /\ Living(v, r, t, "t") > 0

LEMMA SnapshotsOfRounds ==
    ASSUME NEW v
    PROVE  /\ \A s \in SnapshotRows(v) :
                  \E r \in v.rounds : \E t : HasSnapshot(v, r, t) /\ s = SnapshotAt(v, r, t)
           /\ \A r \in v.rounds : \A t : HasSnapshot(v, r, t) => SnapshotAt(v, r, t) \in SnapshotRows(v)
<1> DEFINE states(r) == {SnapshotAt(v, r, t) : t \in {u \in SampledTicks(v, r) : Near(u, Contact(v, r))}}
           alive(r) == {row \in states(r) : row.ct > 0 /\ row.t > 0}
<1>1. SnapshotRows(v) = UNION {alive(r) : r \in {q \in v.rounds : q.winner # "none"}}
  BY DEF SnapshotRows
<1>2. \A r, t : /\ SnapshotAt(v, r, t).ct = Living(v, r, t, "ct")
                /\ SnapshotAt(v, r, t).t = Living(v, r, t, "t")
  BY DEF SnapshotAt
<1>3. ASSUME NEW s \in SnapshotRows(v)
      PROVE  \E r \in v.rounds : \E t : HasSnapshot(v, r, t) /\ s = SnapshotAt(v, r, t)
  <2>1. PICK r \in v.rounds : r.winner # "none" /\ s \in alive(r)
    BY <1>1
  <2>2. PICK t \in SampledTicks(v, r) : Near(t, Contact(v, r)) /\ s = SnapshotAt(v, r, t)
    BY <2>1
  <2>3. s.ct > 0 /\ s.t > 0
    BY <2>1
  <2> QED
    BY <1>2, <2>1, <2>2, <2>3 DEF HasSnapshot
<1>4. ASSUME NEW r \in v.rounds, NEW t, HasSnapshot(v, r, t)
      PROVE  SnapshotAt(v, r, t) \in SnapshotRows(v)
  <2>1. SnapshotAt(v, r, t) \in states(r)
    BY <1>4 DEF HasSnapshot
  <2>2. SnapshotAt(v, r, t) \in alive(r)
    BY <1>2, <1>4, <2>1 DEF HasSnapshot
  <2> HIDE DEF alive
  <2> QED
    BY <1>1, <1>4, <2>2 DEF HasSnapshot
<1> QED
  BY <1>3, <1>4

LEMMA SnapshotFields ==
    ASSUME NEW v, NEW r, NEW t
    PROVE  LET s == SnapshotAt(v, r, t)
           IN  /\ s.source = v.source /\ s.round = r.num /\ s.tick = t /\ s.label = r.winner
               /\ s.kills = SeenBy(EventsOf(v, r, {"kill"}), t)
               /\ s.hits = SeenBy(EventsOf(v, r, {"damage"}), t)
BY DEF SnapshotAt

\* Where something is told of a round, states are taken from the round alone.
LEMMA OneRoundsStates ==
    ASSUME NEW v, NEW r, NEW q, r.num = q.num, NEW t, HasSnapshot(v, r, t), q.winner # "none"
    PROVE  HasSnapshot(v, q, t)
<1>1. \A s : OfRound(s, r) = OfRound(s, q)
  BY DEF OfRound
<1>2. SampledTicks(v, r) = SampledTicks(v, q)
  BY <1>1 DEF SampledTicks
<1>3. Contact(v, r) = Contact(v, q)
  <2>1. \A kinds : EventsOf(v, r, kinds) = EventsOf(v, q, kinds)
    <3>1. PICK told : told = OfRound(v.events, r)
      OBVIOUS
    <3>2. told = OfRound(v.events, q)
      BY <1>1, <3>1
    <3> QED
      BY <3>1, <3>2 DEF EventsOf
  <2> QED
    BY <2>1 DEF Contact
<1>4. \A side : Living(v, r, t, side) = Living(v, q, t, side)
  BY <1>1 DEF Living
<1> QED
  BY <1>2, <1>3, <1>4 DEF HasSnapshot

LEMMA CleanedFields ==
    ASSUME NEW rec
    PROVE  /\ Cleaned(rec).source = rec.source
           /\ \A q \in Cleaned(rec).rounds :
                  q \in rec.rounds /\ IsSoundRound(q) /\ q.winner # "none" /\ IsKept(rec, q.num)
           /\ \A q \in rec.rounds : IsSoundRound(q) => q \in Cleaned(rec).rounds
           /\ \A e \in Cleaned(rec).events :
                  e \in rec.events /\ (e.kind # "shot" => IsKept(rec, e.round))
<1>1. /\ Cleaned(rec).source = rec.source
      /\ Cleaned(rec).rounds = {r \in rec.rounds : IsSoundRound(r)}
      /\ Cleaned(rec).events =
             {e \in rec.events : e.kind = "shot" \/ e.round \in {r.num : r \in {q \in rec.rounds : IsSoundRound(q)}}}
  BY DEF Cleaned
<1> QED
  BY <1>1 DEF IsSoundRound, IsKept

IsFightEvent(e) == e.kind \in {"kill", "damage"}

\* Once a snapshot of a round is stored, a version of the demo that tells
\* anything of the round, cleaned or not, has the same snapshot, and collides.
LEMMA RepeatsCollide ==
    ASSUME NEW rec, IsWellTold(rec),
           NEW v \in {rec, Cleaned(rec)}, NEW w \in {rec, Cleaned(rec)}, NEW s \in SnapshotRows(v),
           \/ \E q \in w.rounds : q.num = s.round
           \/ \E e \in w.events : e.round = s.round /\ IsFightEvent(e)
    PROVE  \E n \in SnapshotRows(w) : n.source = s.source /\ n.round = s.round /\ n.tick = s.tick
<1>0. PICK r \in v.rounds : \E t : HasSnapshot(v, r, t) /\ s = SnapshotAt(v, r, t)
  BY SnapshotsOfRounds
<1>1. PICK t : HasSnapshot(v, r, t) /\ s = SnapshotAt(v, r, t)
  BY <1>0
<1>2. s.source = v.source /\ s.round = r.num /\ s.tick = t
  BY <1>1, SnapshotFields
<1>3. SUFFICES ASSUME v # w PROVE \E q \in w.rounds : q.num = r.num /\ HasSnapshot(w, q, t)
  <2>1. CASE v = w
    BY <2>1
  <2>2. CASE v # w
    <3>1. PICK q \in w.rounds : q.num = r.num /\ HasSnapshot(w, q, t)
      BY <1>3, <2>2
    <3>2. SnapshotAt(w, q, t) \in SnapshotRows(w)
      BY <3>1, SnapshotsOfRounds
    <3>3. PICK n : n = SnapshotAt(w, q, t)
      OBVIOUS
    <3>4. n.source = w.source /\ n.round = q.num /\ n.tick = t
      BY <3>3, SnapshotFields
    <3>5. w.source = v.source
      BY CleanedFields
    <3> QED
      BY <1>2, <3>1, <3>2, <3>3, <3>4, <3>5
  <2> QED
    BY <2>1, <2>2
<1>4. CASE v = rec /\ w = Cleaned(rec)
  <2>1. PICK q \in rec.rounds : q.num = r.num /\ IsSoundRound(q)
    BY <1>2, <1>4, CleanedFields DEF IsFightEvent, IsKept
  <2>2. q \in w.rounds /\ q.winner # "none" /\ IsKept(rec, q.num)
    BY <1>4, <2>1, CleanedFields DEF IsSoundRound, IsKept
  <2>3. HasSnapshot(rec, q, t)
    BY <1>1, <1>4, <2>1, <2>2, OneRoundsStates
  <2>4. HasSnapshot(w, q, t)
    BY <1>4, <2>2, <2>3, CleaningKeepsStates DEF HasSnapshot
  <2> QED
    BY <2>1, <2>2, <2>4
<1>5. CASE v = Cleaned(rec) /\ w = rec
  <2>1. r \in rec.rounds /\ IsKept(rec, r.num)
    BY <1>1, <1>5, CleanedFields
  <2>2. HasSnapshot(rec, r, t)
    BY <1>1, <1>5, <2>1, CleaningKeepsStates DEF HasSnapshot
  <2> QED
    BY <1>5, <2>1, <2>2
<1> QED
  BY <1>3, <1>4, <1>5

\* Of a snapshot: its round is stored, and the fights stored of its round are
\* those of the version it was taken from, each of them once.
IsStored(db, v, s) ==
    /\ \E r \in db.rounds : r.source = s.source /\ r.row.num = s.round /\ r.row.winner = s.label
    /\ \A x \in DOMAIN db.events :
           x.source = s.source /\ x.row.round = s.round /\ IsFightEvent(x.row)
               => x.row \in v.events /\ db.events[x] = 1
    /\ \A e \in v.events :
           e.round = s.round /\ IsFightEvent(e) => [source |-> s.source, row |-> e] \in DOMAIN db.events

IsToldEvent(db, x) ==
    /\ x = [source |-> x.source, row |-> x.row]
    /\ \E rec \in RecordsTold : \E v \in {rec, Cleaned(rec)} :
           v.source = x.source /\ x.row \in v.events /\ SnapshotRows(v) \subseteq db.snapshots

TablesAreSound(db) ==
    /\ \A x \in DOMAIN db.events : IsToldEvent(db, x)
    /\ \A s \in db.snapshots : \E rec \in RecordsTold : \E v \in {rec, Cleaned(rec)} :
           s \in SnapshotRows(v) /\ IsStored(db, v, s)

\* The records of a build: versions of what is told, one of a demo.
AreVersions(recs) ==
    /\ \A v \in recs : \E rec \in RecordsTold : v \in {rec, Cleaned(rec)}
    /\ \A v, w \in recs : v.source = w.source => v = w

LEMMA InsertedTables ==
    ASSUME NEW db, NEW recs
    PROVE  LET new == UNION {Tagged(v, v.events) : v \in recs}
               after == InsertAll(db, recs)
           IN  /\ after.snapshots = db.snapshots \cup UNION {SnapshotRows(v) : v \in recs}
               /\ \A r \in db.rounds :
                     (\A v \in recs : \A q \in v.rounds : r.source # v.source \/ r.row.num # q.num)
                         => r \in after.rounds
               /\ \A v \in recs : \A q \in v.rounds : [source |-> v.source, row |-> q] \in after.rounds
               /\ DOMAIN after.events = DOMAIN db.events \cup new
               /\ \A x \in DOMAIN db.events : x \notin new => after.events[x] = db.events[x] + 0
               /\ \A x \in new : x \notin DOMAIN db.events => after.events[x] = 1
<1> DEFINE new == UNION {Tagged(v, v.events) : v \in recs}
           after == InsertAll(db, recs)
<1>1. /\ after.snapshots = db.snapshots \cup UNION {SnapshotRows(v) : v \in recs}
      /\ after.rounds = {r \in db.rounds :
                            \A v \in recs : \A q \in v.rounds : r.source # v.source \/ r.row.num # q.num}
                            \cup UNION {Tagged(v, v.rounds) : v \in recs}
      /\ after.events = db.events (+) SetToBag(new)
  BY DEF InsertAll
<1>2. ASSUME NEW v \in recs, NEW q \in v.rounds PROVE [source |-> v.source, row |-> q] \in after.rounds
  <2>1. [source |-> v.source, row |-> q] \in Tagged(v, v.rounds)
    BY DEF Tagged
  <2> QED
    BY <1>1, <2>1
<1> HIDE DEF new, after
<1>3. DOMAIN SetToBag(new) = new /\ \A x \in new : SetToBag(new)[x] = 1
  BY DEF SetToBag
<1>4. PICK added : added = SetToBag(new)
  OBVIOUS
<1>5. /\ DOMAIN (db.events (+) added) = DOMAIN db.events \cup DOMAIN added
      /\ \A x \in DOMAIN db.events : x \notin DOMAIN added => (db.events (+) added)[x] = db.events[x] + 0
      /\ \A x \in DOMAIN added : x \notin DOMAIN db.events => (db.events (+) added)[x] = 0 + added[x]
  BY DEF (+)
<1>6. DOMAIN after.events = DOMAIN db.events \cup new
  BY <1>1, <1>3, <1>4, <1>5
<1>7. \A x \in DOMAIN db.events : x \notin new => after.events[x] = db.events[x] + 0
  BY <1>1, <1>3, <1>4, <1>5
<1>8. \A x \in new : x \notin DOMAIN db.events => after.events[x] = 1
  BY <1>1, <1>3, <1>4, <1>5
<1>9. \A r \in db.rounds :
         (\A v \in recs : \A q \in v.rounds : r.source # v.source \/ r.row.num # q.num)
             => r \in after.rounds
  BY <1>1
<1> QED
  BY <1>1, <1>2, <1>6, <1>7, <1>8, <1>9 DEF new, after

\* A build that collides with nothing: nothing stored of the rounds that have a
\* snapshot is replaced or added to, nor is anything stored of the rounds it adds.
LEMMA OldRoundsAreLeftAlone ==
    ASSUME DemosAreToldAlike, \A rec \in RecordsTold : IsWellTold(rec),
           NEW db, TablesAreSound(db), NEW recs, AreVersions(recs), \A v \in recs : ~Collides(db, v),
           NEW s \in db.snapshots, NEW w \in recs, w.source = s.source
    PROVE  /\ \A q \in w.rounds : q.num # s.round
           /\ \A e \in w.events : IsFightEvent(e) => e.round # s.round
<1>1. PICK rec \in RecordsTold : \E v \in {rec, Cleaned(rec)} : s \in SnapshotRows(v)
  BY DEF TablesAreSound
<1>2. PICK v \in {rec, Cleaned(rec)} : s \in SnapshotRows(v)
  BY <1>1
<1>3. PICK other \in RecordsTold : w \in {other, Cleaned(other)}
  BY DEF AreVersions
<1>4. rec = other
  <2>1. s.source = v.source
    BY <1>2, SnapshotsOfRounds, SnapshotFields
  <2>2. v.source = rec.source /\ w.source = other.source
    BY <1>3, CleanedFields
  <2> QED
    BY <2>1, <2>2 DEF DemosAreToldAlike
<1>5. ASSUME (\E q \in w.rounds : q.num = s.round) \/ (\E e \in w.events : e.round = s.round /\ IsFightEvent(e))
      PROVE  FALSE
  <2>1. IsWellTold(rec)
    OBVIOUS
  <2>2. \E n \in SnapshotRows(w) : n.source = s.source /\ n.round = s.round /\ n.tick = s.tick
    BY <1>2, <1>3, <1>4, <1>5, <2>1, RepeatsCollide
  <2> QED
    BY <2>2 DEF Collides
<1> QED
  BY <1>5

LEMMA NewRoundsAreNew ==
    ASSUME DemosAreToldAlike, \A rec \in RecordsTold : IsWellTold(rec),
           NEW db, TablesAreSound(db), NEW recs, AreVersions(recs), \A v \in recs : ~Collides(db, v),
           NEW w \in recs, NEW s \in SnapshotRows(w), NEW x \in DOMAIN db.events,
           x.source = s.source, x.row.round = s.round
    PROVE  ~IsFightEvent(x.row)
<1>1. PICK other \in RecordsTold : w \in {other, Cleaned(other)}
  BY DEF AreVersions
<1>2. PICK rec \in RecordsTold : \E v \in {rec, Cleaned(rec)} :
               v.source = x.source /\ x.row \in v.events /\ SnapshotRows(v) \subseteq db.snapshots
  BY DEF TablesAreSound, IsToldEvent
<1>3. PICK v \in {rec, Cleaned(rec)} :
               v.source = x.source /\ x.row \in v.events /\ SnapshotRows(v) \subseteq db.snapshots
  BY <1>2
<1>4. rec = other
  <2>1. s.source = w.source
    BY SnapshotsOfRounds, SnapshotFields
  <2>2. v.source = rec.source /\ w.source = other.source
    BY <1>1, CleanedFields
  <2> QED
    BY <1>3, <2>1, <2>2 DEF DemosAreToldAlike
<1>5. ASSUME IsFightEvent(x.row) PROVE FALSE
  <2>1. IsWellTold(rec) /\ w \in {rec, Cleaned(rec)}
    BY <1>1, <1>4
  <2>2. \E e \in v.events : e.round = s.round /\ IsFightEvent(e)
    BY <1>3, <1>5
  <2>3. \E n \in SnapshotRows(v) : n.source = s.source /\ n.round = s.round /\ n.tick = s.tick
    BY <2>1, <2>2, RepeatsCollide
  <2> QED
    BY <1>3, <2>3 DEF Collides
<1> QED
  BY <1>5

LEMMA TaggedRows ==
    ASSUME NEW recs, NEW x
    PROVE  x \in UNION {Tagged(v, v.events) : v \in recs}
               <=> \E v \in recs : \E e \in v.events : x = [source |-> v.source, row |-> e]
BY DEF Tagged

LEMMA InsertingIsSound ==
    ASSUME DemosAreToldAlike, \A rec \in RecordsTold : IsWellTold(rec),
           NEW db, TablesAreSound(db), NEW recs, AreVersions(recs), \A v \in recs : ~Collides(db, v)
    PROVE  TablesAreSound(InsertAll(db, recs))
<1>1. PICK after : after = InsertAll(db, recs)
  OBVIOUS
<1>2. PICK new : new = UNION {Tagged(v, v.events) : v \in recs}
  OBVIOUS
<1>3. \A x : x \in new <=> \E v \in recs : \E e \in v.events : x = [source |-> v.source, row |-> e]
  BY <1>2, TaggedRows
<1>4. /\ after.snapshots = db.snapshots \cup UNION {SnapshotRows(v) : v \in recs}
      /\ \A r \in db.rounds :
            (\A v \in recs : \A q \in v.rounds : r.source # v.source \/ r.row.num # q.num)
                => r \in after.rounds
      /\ \A v \in recs : \A q \in v.rounds : [source |-> v.source, row |-> q] \in after.rounds
      /\ DOMAIN after.events = DOMAIN db.events \cup new
      /\ \A x \in DOMAIN db.events : x \notin new => after.events[x] = db.events[x] + 0
      /\ \A x \in new : x \notin DOMAIN db.events => after.events[x] = 1
  BY <1>1, <1>2, InsertedTables
<1>5. ASSUME NEW x \in DOMAIN after.events PROVE IsToldEvent(after, x)
  <2>1. CASE x \in DOMAIN db.events
    BY <1>4, <2>1 DEF TablesAreSound, IsToldEvent
  <2>2. CASE x \in new
    <3>1. PICK v \in recs : \E e \in v.events : x = [source |-> v.source, row |-> e]
      BY <1>3, <2>2
    <3>2. PICK rec \in RecordsTold : v \in {rec, Cleaned(rec)}
      BY DEF AreVersions
    <3>3. SnapshotRows(v) \subseteq after.snapshots
      BY <1>4
    <3>4. x = [source |-> x.source, row |-> x.row] /\ v.source = x.source /\ x.row \in v.events
      BY <3>1
    <3> QED
      BY <3>2, <3>3, <3>4 DEF IsToldEvent
  <2> QED
    BY <1>4, <2>1, <2>2
<1>6. ASSUME NEW s \in db.snapshots
      PROVE  \E rec \in RecordsTold : \E v \in {rec, Cleaned(rec)} : s \in SnapshotRows(v) /\ IsStored(after, v, s)
  <2>1. PICK rec \in RecordsTold : \E v \in {rec, Cleaned(rec)} : s \in SnapshotRows(v) /\ IsStored(db, v, s)
    BY DEF TablesAreSound
  <2>2. PICK v \in {rec, Cleaned(rec)} : s \in SnapshotRows(v) /\ IsStored(db, v, s)
    BY <2>1
  <2>3. \A w \in recs : w.source = s.source => /\ \A q \in w.rounds : q.num # s.round
                                               /\ \A e \in w.events : IsFightEvent(e) => e.round # s.round
    BY OldRoundsAreLeftAlone
  <2>4. \E r \in after.rounds : r.source = s.source /\ r.row.num = s.round /\ r.row.winner = s.label
    BY <1>4, <2>2, <2>3 DEF IsStored
  <2>5. ASSUME NEW x \in DOMAIN after.events, x.source = s.source, x.row.round = s.round, IsFightEvent(x.row)
        PROVE  x.row \in v.events /\ after.events[x] = 1
    <3>1. x \notin new
      BY <1>3, <2>3, <2>5
    <3>2. x \in DOMAIN db.events /\ after.events[x] = db.events[x] + 0
      BY <1>4, <3>1
    <3> QED
      BY <2>2, <2>5, <3>2 DEF IsStored
  <2>6. \A e \in v.events :
            e.round = s.round /\ IsFightEvent(e) => [source |-> s.source, row |-> e] \in DOMAIN after.events
    BY <1>4, <2>2 DEF IsStored
  <2>7. IsStored(after, v, s)
    BY <2>4, <2>5, <2>6 DEF IsStored
  <2> QED
    BY <2>2, <2>7
<1>7. ASSUME NEW w \in recs, NEW s \in SnapshotRows(w)
      PROVE  \E rec \in RecordsTold : \E v \in {rec, Cleaned(rec)} : s \in SnapshotRows(v) /\ IsStored(after, v, s)
  <2>1. PICK rec \in RecordsTold : w \in {rec, Cleaned(rec)}
    BY DEF AreVersions
  <2>2. PICK r \in w.rounds : \E t : HasSnapshot(w, r, t) /\ s = SnapshotAt(w, r, t)
    BY SnapshotsOfRounds
  <2>3. s.source = w.source /\ s.round = r.num /\ s.label = r.winner
    BY <2>2, SnapshotFields
  <2>4. \E q \in after.rounds : q.source = s.source /\ q.row.num = s.round /\ q.row.winner = s.label
    <3>1. PICK q : q = [source |-> w.source, row |-> r]
      OBVIOUS
    <3>2. q \in after.rounds
      BY <1>4, <3>1
    <3> QED
      BY <2>3, <3>1, <3>2
  <2>5. ASSUME NEW x \in DOMAIN after.events, x.source = s.source, x.row.round = s.round, IsFightEvent(x.row)
        PROVE  x.row \in w.events /\ after.events[x] = 1
    <3>1. x \notin DOMAIN db.events
      BY <2>5, NewRoundsAreNew
    <3>2. x \in new /\ after.events[x] = 1
      BY <1>4, <3>1
    <3>3. PICK v \in recs : \E e \in v.events : x = [source |-> v.source, row |-> e]
      BY <1>3, <3>2
    <3>4. v.source = w.source /\ x.row \in v.events
      BY <2>3, <2>5, <3>3
    <3>5. v = w
      BY <3>4 DEF AreVersions
    <3> QED
      BY <3>2, <3>4, <3>5
  <2>6. ASSUME NEW e \in w.events
        PROVE  [source |-> s.source, row |-> e] \in DOMAIN after.events
    BY <1>3, <1>4, <2>3
  <2>7. IsStored(after, w, s)
    BY <2>4, <2>5, <2>6 DEF IsStored
  <2> QED
    BY <2>1, <2>7
<1>8. \A s \in after.snapshots : \E rec \in RecordsTold : \E v \in {rec, Cleaned(rec)} :
          s \in SnapshotRows(v) /\ IsStored(after, v, s)
  BY <1>4, <1>6, <1>7
<1> QED
  BY <1>1, <1>5, <1>8 DEF TablesAreSound

\* The real events stored of a round are counted as they are in the record.
LEMMA CountedAsStored ==
    ASSUME NEW db, NEW v, NEW s, IsFiniteSet(v.events), IsStored(db, v, s),
           \A x \in DOMAIN db.events : x = [source |-> x.source, row |-> x.row],
           NEW kind \in {"kill", "damage"}, NEW r, r.num = s.round
    PROVE  LET stored == {x \in DOMAIN db.events : x.source = s.source /\ x.row.round = s.round}
               some == {x \in stored : x.row.kind = kind}
           IN  Cardinality({x \in some : x.row.by = "other" /\ x.row.tick <= s.tick}) = SeenBy(EventsOf(v, r, {kind}), s.tick)
<1> DEFINE stored == {x \in DOMAIN db.events : x.source = s.source /\ x.row.round = s.round}
           some == {x \in stored : x.row.kind = kind}
           A == {x \in some : x.row.by = "other" /\ x.row.tick <= s.tick}
           B == {e \in EventsOf(v, r, {kind}) : e.tick <= s.tick}
           f == [e \in B |-> [source |-> s.source, row |-> e]]
<1>1. \A e : e \in B <=> e \in v.events /\ e.round = s.round /\ e.kind = kind /\ e.by = "other" /\ e.tick <= s.tick
  BY DEF EventsOf, OfRound, IsReal
<1>2. \A e \in B : f[e] \in A
  <2>1. ASSUME NEW e \in B PROVE f[e] \in A
    <3>1. e \in v.events /\ e.round = s.round /\ e.kind = kind /\ e.by = "other" /\ e.tick <= s.tick /\ IsFightEvent(e)
      BY <1>1 DEF IsFightEvent
    <3>2. PICK x : x = [source |-> s.source, row |-> e]
      OBVIOUS
    <3>3. x \in DOMAIN db.events /\ x.source = s.source /\ x.row = e
      BY <3>1, <3>2 DEF IsStored
    <3> QED
      BY <3>1, <3>2, <3>3
  <2> QED
    BY <2>1
<1>3. \A x \in A : x.row \in B /\ f[x.row] = x
  <2>1. ASSUME NEW x \in A PROVE x.row \in B /\ f[x.row] = x
    <3>1. /\ x \in DOMAIN db.events /\ x.source = s.source /\ x.row.round = s.round
          /\ x.row.kind = kind /\ x.row.by = "other" /\ x.row.tick <= s.tick
      OBVIOUS
    <3>2. x.row \in v.events
      BY <3>1 DEF IsStored, IsFightEvent
    <3>3. x.row \in B
      BY <1>1, <3>1, <3>2
    <3>4. x = [source |-> s.source, row |-> x.row]
      BY <3>1
    <3> QED
      BY <3>3, <3>4
  <2> QED
    BY <2>1
<1>4. \A e, d \in B : f[e] = f[d] => e = d
  OBVIOUS
<1>5. f \in [B -> A]
  BY <1>2
<1>6. IsFiniteSet(B)
  <2>1. B \subseteq v.events
    BY <1>1
  <2> HIDE DEF B
  <2> QED
    BY <2>1, FS_Subset
<1> HIDE DEF A, B, f
<1>7. f \in Injection(B, A) /\ f \in Surjection(B, A)
  BY <1>3, <1>4, <1>5 DEF Injection, IsInjective, Surjection
<1>8. ExistsBijection(B, A)
  BY <1>7 DEF Bijection, ExistsBijection
<1>9. Cardinality(A) = Cardinality(B)
  BY <1>6, <1>8, FS_Bijection
<1> QED
  BY <1>9 DEF A, B, SeenBy

LEMMA SoundTablesMatch ==
    ASSUME \A rec \in RecordsTold : IsWellTold(rec), TablesAreSound(tables)
    PROVE  SnapshotsMatchTheirRounds
<1> DEFINE stored(s) == {x \in BagToSet(tables.events) : x.source = s.source /\ x.row.round = s.round}
           kills(s) == {x \in stored(s) : x.row.kind = "kill"}
           hits(s) == {x \in stored(s) : x.row.kind = "damage"}
<1>1. SUFFICES ASSUME NEW s \in tables.snapshots
               PROVE  /\ \E r \in tables.rounds :
                             r.source = s.source /\ r.row.num = s.round /\ r.row.winner = s.label
                      /\ \A x \in kills(s) \cup hits(s) : tables.events[x] = 1
                      /\ Cardinality({x \in kills(s) : x.row.by = "other" /\ x.row.tick <= s.tick}) = s.kills
                      /\ Cardinality({x \in hits(s) : x.row.by = "other" /\ x.row.tick <= s.tick}) = s.hits
  BY DEF SnapshotsMatchTheirRounds
<1>2. PICK rec \in RecordsTold : \E v \in {rec, Cleaned(rec)} : s \in SnapshotRows(v) /\ IsStored(tables, v, s)
  BY DEF TablesAreSound
<1>3. PICK v \in {rec, Cleaned(rec)} : s \in SnapshotRows(v) /\ IsStored(tables, v, s)
  BY <1>2
<1>4. PICK r \in v.rounds : \E t : HasSnapshot(v, r, t) /\ s = SnapshotAt(v, r, t)
  BY <1>3, SnapshotsOfRounds
<1>5. PICK t : HasSnapshot(v, r, t) /\ s = SnapshotAt(v, r, t)
  BY <1>4
<1>6. /\ s.round = r.num /\ s.tick = t
      /\ s.kills = SeenBy(EventsOf(v, r, {"kill"}), s.tick)
      /\ s.hits = SeenBy(EventsOf(v, r, {"damage"}), s.tick)
  BY <1>5, SnapshotFields
<1>7. IsFiniteSet(v.events)
  <2>1. Cleaned(rec).events \subseteq rec.events /\ IsFiniteSet(rec.events)
    BY CleanedFields DEF IsWellTold
  <2>2. v.events \subseteq rec.events
    BY <2>1
  <2> QED
    BY <2>1, <2>2, FS_Subset
<1>8. BagToSet(tables.events) = DOMAIN tables.events
  BY DEF BagToSet
<1>9. \A x \in DOMAIN tables.events : x = [source |-> x.source, row |-> x.row]
  BY DEF TablesAreSound, IsToldEvent
<1>10. Cardinality({x \in kills(s) : x.row.by = "other" /\ x.row.tick <= s.tick}) = s.kills
  <2>1. \A kind \in {"kill"} :
            Cardinality({x \in {y \in stored(s) : y.row.kind = kind} : x.row.by = "other" /\ x.row.tick <= s.tick})
                = SeenBy(EventsOf(v, r, {kind}), s.tick)
    BY <1>3, <1>6, <1>7, <1>8, <1>9, CountedAsStored
  <2> QED
    BY <1>6, <2>1
<1>11. Cardinality({x \in hits(s) : x.row.by = "other" /\ x.row.tick <= s.tick}) = s.hits
  <2>1. \A kind \in {"damage"} :
            Cardinality({x \in {y \in stored(s) : y.row.kind = kind} : x.row.by = "other" /\ x.row.tick <= s.tick})
                = SeenBy(EventsOf(v, r, {kind}), s.tick)
    BY <1>3, <1>6, <1>7, <1>8, <1>9, CountedAsStored
  <2> QED
    BY <1>6, <2>1
<1>12. \A x \in kills(s) \cup hits(s) : tables.events[x] = 1
  BY <1>3, <1>8 DEF IsStored, IsFightEvent
<1> QED
  BY <1>3, <1>10, <1>11, <1>12 DEF IsStored

-----------------------------------------------------------------------------
(* The invariant of the database.                                           *)

DatabaseInv == TablesAreSound(tables) /\ \A b \in building : AreVersions(Range(b))

LEMMA InputsAreVersions ==
    ASSUME NEW input \in Inputs, NEW clean \in BOOLEAN, NEW b,
           b = IF clean THEN [n \in DOMAIN input |-> Cleaned(input[n])] ELSE input
    PROVE  AreVersions(Range(b))
<1>1. /\ DOMAIN b = DOMAIN input
      /\ \A n \in DOMAIN input : b[n] = IF clean THEN Cleaned(input[n]) ELSE input[n]
  OBVIOUS
<1>2. \A n \in DOMAIN input : input[n] \in RecordsTold /\ b[n] \in {input[n], Cleaned(input[n])}
  BY <1>1 DEF RecordsTold, Range
<1>3. \A n \in DOMAIN input : b[n].source = input[n].source
  BY <1>2, CleanedFields
<1>4. \A m, n \in DOMAIN input : input[m].source = input[n].source => m = n
  BY InputsAssumption
<1>5. \A m, n \in DOMAIN b : b[m].source = b[n].source => b[m] = b[n]
  BY <1>1, <1>3, <1>4
<1>6. \A v \in Range(b) : \E n \in DOMAIN b : v = b[n]
  BY DEF Range
<1>7. \A v \in Range(b) : \E rec \in RecordsTold : v \in {rec, Cleaned(rec)}
  BY <1>1, <1>2, <1>6
<1>8. \A v, w \in Range(b) : v.source = w.source => v = w
  BY <1>5, <1>6
<1> QED
  BY <1>7, <1>8 DEF AreVersions

LEMMA EmptyTablesAreSound == TablesAreSound(EmptyTables)
<1>1. EmptyTables.snapshots = {} /\ EmptyTables.events = EmptyBag
  BY DEF EmptyTables
<1>2. DOMAIN EmptyBag = {}
  BY DEF EmptyBag, SetToBag
<1> QED
  BY <1>1, <1>2 DEF TablesAreSound

LEMMA DatabaseInvStep ==
    ASSUME DemosAreToldAlike, \A rec \in RecordsTold : IsWellTold(rec), DatabaseInv,
           [DatabaseNext]_databaseVars
    PROVE  DatabaseInv'
<1>1. ASSUME NEW input \in Inputs, NEW replace \in BOOLEAN, NEW clean \in BOOLEAN,
             StartBuild(input, replace, clean)
      PROVE  DatabaseInv'
  <2>1. TablesAreSound(tables')
    BY <1>1, EmptyTablesAreSound DEF StartBuild, DatabaseInv
  <2>2. PICK b : b = IF clean THEN [n \in DOMAIN input |-> Cleaned(input[n])] ELSE input
    OBVIOUS
  <2>3. building' = {b}
    BY <1>1, <2>2 DEF StartBuild
  <2>4. AreVersions(Range(b))
    BY <2>2, InputsAreVersions
  <2>5. \A d \in building' : AreVersions(Range(d))
    BY <2>3, <2>4
  <2> QED
    BY <2>1, <2>5 DEF DatabaseInv
<1>2. ASSUME CommitBuild PROVE DatabaseInv'
  <2>1. PICK b \in building : /\ \A rec \in Range(b) : ~Collides(tables, rec)
                              /\ tables' = InsertAll(tables, Range(b)) /\ building' = {}
    BY <1>2 DEF CommitBuild
  <2>2. PICK recs : recs = Range(b)
    OBVIOUS
  <2>3. AreVersions(recs) /\ TablesAreSound(tables) /\ \A rec \in recs : ~Collides(tables, rec)
    BY <2>1, <2>2 DEF DatabaseInv
  <2>4. TablesAreSound(InsertAll(tables, recs))
    BY <2>3, InsertingIsSound
  <2>5. TablesAreSound(tables')
    BY <2>1, <2>2, <2>4
  <2> QED
    BY <2>1, <2>5 DEF DatabaseInv
<1>3. ASSUME AbandonBuild PROVE DatabaseInv'
  BY <1>3 DEF AbandonBuild, DatabaseInv
<1>4. ASSUME UNCHANGED databaseVars PROVE DatabaseInv'
  BY <1>4 DEF databaseVars, DatabaseInv
<1> QED
  BY <1>1, <1>2, <1>3, <1>4 DEF DatabaseNext

\* Training, the benchmark and the exports read the database and count commands.
LEMMA LearningReadsTables ==
    ASSUME [LearningNext \/ ExportNext]_replayTrainingVars
    PROVE  \/ [DatabaseNext]_databaseVars
           \/ UNCHANGED <<tables, building>> /\ (Run \/ commands' = commands)
<1>1. ASSUME NEW rows \in Sources, NEW shuffle \in Shuffles, NEW calibrate \in BOOLEAN,
             NEW reuse \in BOOLEAN, NEW save \in BOOLEAN,
             StartTraining(rows, shuffle, calibrate, reuse, save)
      PROVE  UNCHANGED <<tables, building>> /\ Run
  BY <1>1 DEF StartTraining
<1>2. ASSUME TrainingStep PROVE UNCHANGED databaseVars
  BY <1>2 DEF TrainingStep
<1>3. ASSUME TrainSmallModel PROVE UNCHANGED <<tables, building>> /\ Run
  BY <1>3 DEF TrainSmallModel
<1>4. ASSUME SealBenchmark PROVE UNCHANGED <<tables, building>> /\ Run
  BY <1>4 DEF SealBenchmark
<1>5. ASSUME EvaluateBenchmark PROVE UNCHANGED <<tables, building>> /\ Run
  BY <1>5 DEF EvaluateBenchmark
<1>6. ASSUME NEW groups \in Askable, StartExport(groups) PROVE UNCHANGED <<tables, building>> /\ Run
  BY <1>6 DEF StartExport
<1>7. ASSUME ExportStep PROVE UNCHANGED databaseVars
  BY <1>7 DEF ExportStep
<1>8. ASSUME UNCHANGED replayTrainingVars PROVE UNCHANGED databaseVars
  BY <1>8 DEF replayTrainingVars
<1>9. CASE UNCHANGED replayTrainingVars
  BY <1>8, <1>9
<1>10. CASE LearningNext
  BY <1>1, <1>2, <1>3, <1>4, <1>5, <1>10 DEF LearningNext, databaseVars
<1>11. CASE ExportNext
  BY <1>6, <1>7, <1>11 DEF ExportNext, databaseVars
<1> QED
  BY <1>9, <1>10, <1>11

-----------------------------------------------------------------------------
(* Every event stored is of a demo that is there; at most one build runs.   *)

LEMMA InitDatabaseTypes == DatabaseInit => DatabaseTypeOK
<1>1. EmptyTables.events = EmptyBag /\ BagToSet(EmptyBag) = {}
  BY DEF EmptyTables, EmptyBag, SetToBag, BagToSet
<1> QED
  BY <1>1, DatabaseAssumption, FS_EmptySet DEF DatabaseInit, DatabaseTypeOK

LEMMA CommandsAreCounted ==
    ASSUME commands \in 0..MaxCommands, Run
    PROVE  commands' \in 0..MaxCommands
BY DatabaseAssumption DEF Run

LEMMA DatabaseTypesStep ==
    ASSUME DatabaseTypeOK, [DatabaseNext]_databaseVars
    PROVE  DatabaseTypeOK'
<1>1. ASSUME NEW input \in Inputs, NEW replace \in BOOLEAN, NEW clean \in BOOLEAN,
             StartBuild(input, replace, clean)
      PROVE  DatabaseTypeOK'
  <2>1. PICK b : building' = {b}
    BY <1>1 DEF StartBuild
  <2>2. Cardinality(building') <= 1
    BY <2>1, FS_Singleton
  <2>3. EmptyTables.events = EmptyBag /\ BagToSet(EmptyBag) = {}
    BY DEF EmptyTables, EmptyBag, SetToBag, BagToSet
  <2>4. \A x \in BagToSet(tables'.events) : x.source \in {r.source : r \in tables'.replays}
    BY <1>1, <2>3 DEF StartBuild, DatabaseTypeOK
  <2>5. commands' \in 0..MaxCommands
    BY <1>1, CommandsAreCounted DEF StartBuild, DatabaseTypeOK
  <2> QED
    BY <2>2, <2>4, <2>5 DEF DatabaseTypeOK
<1>2. ASSUME CommitBuild PROVE DatabaseTypeOK'
  <2>1. PICK b \in building : tables' = InsertAll(tables, Range(b)) /\ building' = {} /\ UNCHANGED commands
    BY <1>2 DEF CommitBuild
  <2>2. PICK recs : recs = Range(b)
    OBVIOUS
  <2>3. tables'.replays = {r \in tables.replays : \A rec \in recs : r.source # rec.source}
                              \cup {[source |-> rec.source, match |-> MatchOf(rec)] : rec \in recs}
    BY <2>1, <2>2 DEF InsertAll
  <2>4. /\ \A r \in tables.replays : r.source \in {q.source : q \in tables'.replays}
        /\ \A rec \in recs : rec.source \in {q.source : q \in tables'.replays}
    <3>1. ASSUME NEW rec \in recs PROVE rec.source \in {q.source : q \in tables'.replays}
      <4>1. [source |-> rec.source, match |-> MatchOf(rec)] \in tables'.replays
        BY <2>3
      <4> QED
        BY <4>1
    <3>2. ASSUME NEW r \in tables.replays PROVE r.source \in {q.source : q \in tables'.replays}
      <4>1. CASE r \in tables'.replays
        BY <4>1
      <4>2. CASE r \notin tables'.replays
        BY <2>3, <3>1, <4>2
      <4> QED
        BY <4>1, <4>2
    <3> QED
      BY <3>1, <3>2
  <2>5. PICK new : new = UNION {Tagged(v, v.events) : v \in recs}
    OBVIOUS
  <2>6. DOMAIN tables'.events = DOMAIN tables.events \cup new
    BY <2>1, <2>2, <2>5, InsertedTables
  <2>7. \A x \in new : \E v \in recs : x.source = v.source
    BY <2>5, TaggedRows
  <2>8. \A x \in DOMAIN tables.events : \E r \in tables.replays : x.source = r.source
    BY DEF DatabaseTypeOK, BagToSet
  <2>9. \A x \in BagToSet(tables'.events) : x.source \in {r.source : r \in tables'.replays}
    BY <2>4, <2>6, <2>7, <2>8 DEF BagToSet
  <2>10. Cardinality(building') <= 1
    BY <2>1, FS_EmptySet
  <2> QED
    BY <2>1, <2>9, <2>10 DEF DatabaseTypeOK
<1>3. ASSUME AbandonBuild PROVE DatabaseTypeOK'
  BY <1>3, FS_EmptySet DEF AbandonBuild, DatabaseTypeOK
<1>4. ASSUME UNCHANGED databaseVars PROVE DatabaseTypeOK'
  BY <1>4 DEF databaseVars, DatabaseTypeOK
<1> QED
  BY <1>1, <1>2, <1>3, <1>4 DEF DatabaseNext

-----------------------------------------------------------------------------
(***************************************************************************)
(* The parts side by side: the invariant of the part that is at work, and  *)
(* of the database, which is at rest with the others.                      *)
(***************************************************************************)

PartsInv ==
    /\ part \in Parts
    /\ part = "replay"    => ReplayTypeInv
    /\ part = "training"  => TrainingInv
    /\ part = "events"    => EventsInv
    /\ part = "harness"   => HarnessInv
    /\ part = "simulator" => SimulatorInv
    /\ part = "dataset"   => DatasetInv
    /\ part = "releases"  => ReleaseInv
    /\ DatabaseTypeOK

LEMMA InitPartsInv == Init => PartsInv
BY InitReplayTypes, InitTrainingInv, InitEventsInv, InitHarnessInv, InitSimulatorInv,
   InitDatasetInv, InitReleaseInv, InitDatabaseTypes
DEF Init, PartsInv, ReplayTrainingInit

\* A step is one of the part at work.
LEMMA StepsOfParts ==
    ASSUME [Next]_backendVars
    PROVE  /\ part' = part
           /\ part = "replay"    => [ReplayNext]_replayVars
           /\ part = "training"  => [TrainingNext]_trainingVars
           /\ part = "events"    => [EventsNext]_eventVars
           /\ part = "harness"   => [HarnessNext]_harnessVars
           /\ part = "simulator" => [SimulatorNext]_simulatorVars
           /\ part = "dataset"   => [DatasetNext]_datasetVars
           /\ part = "releases"  => [ReleaseNext]_releaseVars
           /\ [LearningNext \/ ExportNext]_replayTrainingVars
BY DEF Next, backendVars

LEMMA DatabaseTypesStay ==
    ASSUME DatabaseTypeOK, [LearningNext \/ ExportNext]_replayTrainingVars
    PROVE  DatabaseTypeOK'
<1>1. CASE [DatabaseNext]_databaseVars
  BY <1>1, DatabaseTypesStep
<1>2. CASE UNCHANGED <<tables, building>> /\ (Run \/ commands' = commands)
  <2>1. commands' \in 0..MaxCommands
    BY <1>2, CommandsAreCounted DEF DatabaseTypeOK
  <2> QED
    BY <1>2, <2>1 DEF DatabaseTypeOK
<1> QED
  BY <1>1, <1>2, LearningReadsTables

LEMMA PartsInvStep == PartsInv /\ [Next]_backendVars => PartsInv'
<1> SUFFICES ASSUME PartsInv, [Next]_backendVars PROVE PartsInv'
  OBVIOUS
<1>1. part = "replay" => ReplayTypeInv'
  BY StepsOfParts, ReplayTypesStep DEF PartsInv
<1>2. part = "training" => TrainingInv'
  BY StepsOfParts, TrainingInvStep DEF PartsInv
<1>3. part = "events" => EventsInv'
  BY StepsOfParts, EventsInvStep DEF PartsInv
<1>4. part = "harness" => HarnessInv'
  BY StepsOfParts, HarnessInvStep DEF PartsInv
<1>5. part = "simulator" => SimulatorInv'
  BY StepsOfParts, SimulatorInvStep DEF PartsInv
<1>6. part = "dataset" => DatasetInv'
  BY StepsOfParts, DatasetInvStep DEF PartsInv
<1>7. part = "releases" => ReleaseInv'
  BY StepsOfParts, ReleaseInvStep DEF PartsInv
<1>8. DatabaseTypeOK'
  BY StepsOfParts, DatabaseTypesStay DEF PartsInv
<1>9. part' = part
  BY StepsOfParts
<1> QED
  BY <1>1, <1>2, <1>3, <1>4, <1>5, <1>6, <1>7, <1>8, <1>9 DEF PartsInv

LEMMA PartsAreTyped == PartsInv => BackendTypeOK
BY ReplayTypesFollow
DEF PartsInv, BackendTypeOK, Parts, TrainingInv, EventsInv, HarnessInv, SimulatorInv, DatasetInv, ReleaseInv

\* The state of whichever part is at work has its type, whatever it does.
THEOREM BackendIsTyped == Spec => []BackendTypeOK
BY InitPartsInv, PartsInvStep, PartsAreTyped, PTL DEF Spec

-----------------------------------------------------------------------------
\* What the snapshots say of a round is what is stored of it, whatever builds
\* are run, replace the tables, collide, fail or stop.
THEOREM SnapshotsStayTrue ==
    ASSUME DemosAreToldAlike, \A rec \in RecordsTold : RepeatsAgree(rec)
    PROVE  Spec => []SnapshotsMatchTheirRounds
<1>0. \A rec \in RecordsTold : IsWellTold(rec)
  BY InputsAssumption DEF IsReplayRecord, IsWellTold
<1>1. Init => DatabaseInv
  BY EmptyTablesAreSound DEF Init, ReplayTrainingInit, DatabaseInit, DatabaseInv
<1>2. ASSUME DatabaseInv, [Next]_backendVars PROVE DatabaseInv'
  <2>1. CASE [DatabaseNext]_databaseVars
    BY <1>0, <1>2, <2>1, DatabaseInvStep
  <2>2. CASE UNCHANGED <<tables, building>>
    BY <1>2, <2>2 DEF DatabaseInv
  <2> QED
    BY <1>2, <2>1, <2>2, StepsOfParts, LearningReadsTables
<1>3. DatabaseInv => SnapshotsMatchTheirRounds
  BY <1>0, SoundTablesMatch DEF DatabaseInv
<1> QED
  BY <1>1, <1>2, <1>3, PTL DEF Spec

-----------------------------------------------------------------------------
(***************************************************************************)
(* No model is trained on what it is to predict: rows for the round-value  *)
(* model are the same if nothing after them had happened, candidate        *)
(* decisions if the kill they were taken from had not.                     *)
(***************************************************************************)

\* A record of finitely many events, at ticks that are numbers.
IsCounted(rec) ==
    /\ rec = [source |-> rec.source, match |-> rec.match, rounds |-> rec.rounds,
              ticks |-> rec.ticks, events |-> rec.events]
    /\ IsFiniteSet(rec.events)
    /\ \A e \in rec.events : e.tick \in Int
    /\ \A x \in rec.ticks : x.tick \in Int

LEMMA CleanedIsCounted ==
    ASSUME NEW rec, IsCounted(rec) PROVE IsCounted(Cleaned(rec))
<1>1. PICK clean : clean = Cleaned(rec)
  OBVIOUS
<1>2. clean = [source |-> clean.source, match |-> clean.match, rounds |-> clean.rounds,
               ticks |-> clean.ticks, events |-> clean.events]
  BY <1>1 DEF Cleaned
<1>3. clean.events \subseteq rec.events
  BY <1>1, CleanedFields
<1>4. clean.ticks \subseteq rec.ticks
  BY <1>1 DEF Cleaned, FirstOnly
<1>5. IsFiniteSet(clean.events)
  BY <1>3, FS_Subset DEF IsCounted
<1>6. IsCounted(clean)
  BY <1>2, <1>3, <1>4, <1>5 DEF IsCounted
<1> QED
  BY <1>1, <1>6

LEMMA EarliestOfFinite ==
    ASSUME NEW s \in SUBSET Int, IsFiniteSet(s), s # {}
    PROVE  Earliest(s) \in s /\ \A u \in s : Earliest(s) <= u
BY LeastOfFinite DEF Earliest

\* What had happened by a tick is near a first contact exactly if the whole is.
LEMMA NearUntil ==
    ASSUME NEW s \in SUBSET Int, IsFiniteSet(s), NEW t \in Int, NEW cut, cut = {u \in s : u <= t},
           Near(t, s)
    PROVE  cut # {} /\ Near(t, cut)
<1>1. s # {} /\ t >= Earliest(s) /\ t <= Earliest(s) + DecisionWindow
  BY DEF Near
<1>2. Earliest(s) \in s /\ \A u \in s : Earliest(s) <= u
  BY <1>1, EarliestOfFinite
<1>3. Earliest(s) \in cut /\ cut \in SUBSET Int
  BY <1>1, <1>2
<1>4. IsFiniteSet(cut)
  BY FS_Subset
<1>5. Earliest(cut) \in cut /\ \A u \in cut : Earliest(cut) <= u
  BY <1>3, <1>4, EarliestOfFinite
<1>6. Earliest(cut) = Earliest(s)
  BY <1>2, <1>3, <1>5
<1> QED
  BY <1>1, <1>3, <1>6 DEF Near

LEMMA RecordUntilFields ==
    ASSUME NEW rec, IsCounted(rec), NEW t, NEW cut, cut = RecordUntil(rec, t)
    PROVE  /\ cut.source = rec.source /\ cut.rounds = rec.rounds /\ MatchOf(cut) = MatchOf(rec)
           /\ cut.ticks = {x \in rec.ticks : x.tick <= t}
           /\ cut.events = {e \in rec.events : e.tick <= t}
<1>1. cut = [source |-> rec.source, match |-> rec.match, rounds |-> rec.rounds,
             ticks |-> {x \in rec.ticks : x.tick <= t}, events |-> {e \in rec.events : e.tick <= t}]
  BY DEF RecordUntil, IsCounted
<1> QED
  BY <1>1 DEF MatchOf

LEMMA FiniteTicks ==
    ASSUME NEW s, IsFiniteSet(s) PROVE IsFiniteSet(TicksOf(s))
<1>1. PICK f : f = [x \in s |-> x.tick]
  OBVIOUS
<1>2. f \in Surjection(s, TicksOf(s))
  BY <1>1 DEF Surjection, TicksOf
<1> QED
  BY <1>2, FS_Surjection

LEMMA SomeEvents ==
    ASSUME NEW rec, IsCounted(rec), NEW r, NEW kinds, NEW s, s = EventsOf(rec, r, kinds)
    PROVE  IsFiniteSet(TicksOf(s)) /\ TicksOf(s) \in SUBSET Int
<1>1. s \subseteq rec.events
  BY DEF EventsOf, OfRound
<1>2. IsFiniteSet(s)
  BY <1>1, FS_Subset DEF IsCounted
<1>3. TicksOf(s) \in SUBSET Int
  BY <1>1 DEF TicksOf, IsCounted
<1> QED
  BY <1>2, <1>3, FiniteTicks

\* A row for the round-value model is the same if nothing after it had happened.
LEMMA SnapshotsAreBlind ==
    ASSUME NEW rec, IsCounted(rec), NEW row \in SnapshotRows(rec)
    PROVE  row \in SnapshotRows(RecordUntil(rec, row.tick))
<1>1. PICK r \in rec.rounds : \E t : HasSnapshot(rec, r, t) /\ row = SnapshotAt(rec, r, t)
  BY SnapshotsOfRounds
<1>2. PICK t : HasSnapshot(rec, r, t) /\ row = SnapshotAt(rec, r, t)
  BY <1>1
<1>3. row.tick = t
  BY <1>2, SnapshotFields
<1>4. PICK cut : cut = RecordUntil(rec, t)
  OBVIOUS
<1>5. /\ cut.source = rec.source /\ cut.rounds = rec.rounds /\ MatchOf(cut) = MatchOf(rec)
      /\ cut.ticks = {x \in rec.ticks : x.tick <= t}
      /\ cut.events = {e \in rec.events : e.tick <= t}
  BY <1>4, RecordUntilFields
<1>6. PICK ticks : ticks = TicksOf(OfRound(rec.ticks, r))
  OBVIOUS
<1>7. t \in ticks /\ Cardinality({u \in ticks : u < t}) % SampleEvery = 0
  BY <1>2, <1>6 DEF HasSnapshot, SampledTicks
<1>8. \A u \in ticks : u \in Int
  BY <1>6 DEF TicksOf, OfRound, IsCounted
<1>9. TicksOf(OfRound(cut.ticks, r)) = {u \in ticks : u <= t}
  BY <1>5, <1>6 DEF TicksOf, OfRound
<1>10. t \in SampledTicks(cut, r)
  <2>1. {u \in {v \in ticks : v <= t} : u < t} = {u \in ticks : u < t}
    BY <1>7, <1>8
  <2>2. t \in {v \in ticks : v <= t}
    BY <1>7, <1>8
  <2> QED
    BY <1>7, <1>9, <2>1, <2>2 DEF SampledTicks
<1>11. \A kinds : EventsOf(cut, r, kinds) = {e \in EventsOf(rec, r, kinds) : e.tick <= t}
  BY <1>5 DEF EventsOf, OfRound
<1>12. \A kinds : TicksOf(EventsOf(cut, r, kinds)) = {u \in TicksOf(EventsOf(rec, r, kinds)) : u <= t}
  <2>1. ASSUME NEW kinds
        PROVE  TicksOf(EventsOf(cut, r, kinds)) = {u \in TicksOf(EventsOf(rec, r, kinds)) : u <= t}
    <3>1. EventsOf(cut, r, kinds) = {e \in EventsOf(rec, r, kinds) : e.tick <= t}
      BY <1>11
    <3> QED
      BY <3>1 DEF TicksOf
  <2> QED
    BY <2>1
<1>13. Near(t, Contact(cut, r))
  <2>1. PICK damages : damages = EventsOf(rec, r, {"damage"})
    OBVIOUS
  <2>2. PICK early : early = EventsOf(cut, r, {"damage"})
    OBVIOUS
  <2>3. early = {e \in damages : e.tick <= t}
    BY <1>11, <2>1, <2>2
  <2>4. CASE damages # {}
    <3>1. Contact(rec, r) = TicksOf(damages)
      BY <2>1, <2>4 DEF Contact
    <3>2. Near(t, TicksOf(damages))
      BY <1>2, <3>1 DEF HasSnapshot
    <3>3. IsFiniteSet(TicksOf(damages)) /\ TicksOf(damages) \in SUBSET Int
      BY <2>1, SomeEvents
    <3>4. TicksOf(early) = {u \in TicksOf(damages) : u <= t}
      BY <1>12, <2>1, <2>2
    <3>5. t \in Int
      BY <1>7, <1>8
    <3>6. TicksOf(early) # {} /\ Near(t, TicksOf(early))
      BY <3>2, <3>3, <3>4, <3>5, NearUntil
    <3>7. early # {}
      BY <3>6 DEF TicksOf
    <3>8. Contact(cut, r) = TicksOf(early)
      BY <2>2, <3>7 DEF Contact
    <3> QED
      BY <3>6, <3>8
  <2>5. CASE damages = {}
    <3>1. PICK kills : kills = EventsOf(rec, r, {"kill"})
      OBVIOUS
    <3>2. Near(t, TicksOf(kills))
      BY <1>2, <2>1, <2>5, <3>1 DEF HasSnapshot, Contact
    <3>3. IsFiniteSet(TicksOf(kills)) /\ TicksOf(kills) \in SUBSET Int
      BY <3>1, SomeEvents
    <3>4. PICK some : some = TicksOf(EventsOf(cut, r, {"kill"}))
      OBVIOUS
    <3>5. some = {u \in TicksOf(kills) : u <= t} /\ t \in Int
      BY <1>7, <1>8, <1>12, <3>1, <3>4
    <3>6. Near(t, some)
      BY <3>2, <3>3, <3>5, NearUntil
    <3>7. early = {}
      BY <2>3, <2>5
    <3> QED
      BY <2>2, <3>4, <3>6, <3>7 DEF Contact
  <2> QED
    BY <2>4, <2>5
<1>14. \A side : Living(cut, r, t, side) = Living(rec, r, t, side)
  <2>1. ASSUME NEW side PROVE Living(cut, r, t, side) = Living(rec, r, t, side)
    <3>1. t <= t
      BY <1>7, <1>8
    <3>2. {x \in OfRound(cut.ticks, r) : x.tick = t /\ x.side = side /\ x.alive} =
              {x \in OfRound(rec.ticks, r) : x.tick = t /\ x.side = side /\ x.alive}
      BY <1>5, <3>1 DEF OfRound
    <3> QED
      BY <3>2 DEF Living
  <2> QED
    BY <2>1
<1>15. HasSnapshot(cut, r, t)
  BY <1>2, <1>10, <1>13, <1>14 DEF HasSnapshot
<1>16. \A kinds : SeenBy(EventsOf(cut, r, kinds), t) = SeenBy(EventsOf(rec, r, kinds), t)
  <2>1. ASSUME NEW kinds PROVE SeenBy(EventsOf(cut, r, kinds), t) = SeenBy(EventsOf(rec, r, kinds), t)
    <3>1. EventsOf(cut, r, kinds) = {e \in EventsOf(rec, r, kinds) : e.tick <= t}
      BY <1>11
    <3>2. {e \in EventsOf(cut, r, kinds) : e.tick <= t} = {e \in EventsOf(rec, r, kinds) : e.tick <= t}
      BY <3>1
    <3> QED
      BY <3>2 DEF SeenBy
  <2> QED
    BY <2>1
<1>17. SnapshotAt(cut, r, t) = SnapshotAt(rec, r, t)
  <2>1. /\ SeenBy(EventsOf(cut, r, {"kill"}), t) = SeenBy(EventsOf(rec, r, {"kill"}), t)
        /\ SeenBy(EventsOf(cut, r, {"damage"}), t) = SeenBy(EventsOf(rec, r, {"damage"}), t)
        /\ SeenBy(EventsOf(cut, r, {"shot"}), t) = SeenBy(EventsOf(rec, r, {"shot"}), t)
        /\ SeenBy(EventsOf(cut, r, {"plant"}), t) = SeenBy(EventsOf(rec, r, {"plant"}), t)
    BY <1>16
  <2> QED
    BY <1>5, <1>14, <2>1 DEF SnapshotAt
<1> QED
  BY <1>2, <1>3, <1>4, <1>5, <1>15, <1>17, SnapshotsOfRounds

\* When a sidecar's round has a row of an event.
HasEventRow(rec, r, e) ==
    /\ r.winner # "none" /\ e \in EventsOf(rec, r, {"kill", "plant"})
    /\ Near(e.tick, TicksOf(EventsOf(rec, r, {"kill"})))
    /\ EventRowAt(rec, r, e).ct > 0 /\ EventRowAt(rec, r, e).t > 0

LEMMA EventRowsOfRounds ==
    ASSUME NEW rec
    PROVE  /\ \A row \in EventRows(rec) :
                  \E r \in rec.rounds : \E e : HasEventRow(rec, r, e) /\ row = EventRowAt(rec, r, e)
           /\ \A r \in rec.rounds : \A e : HasEventRow(rec, r, e) => EventRowAt(rec, r, e) \in EventRows(rec)
<1> DEFINE near(r) == {f \in EventsOf(rec, r, {"kill", "plant"}) : Near(f.tick, TicksOf(EventsOf(rec, r, {"kill"})))}
           rows(r) == {EventRowAt(rec, r, e) : e \in near(r)}
           alive(r) == {row \in rows(r) : row.ct > 0 /\ row.t > 0}
<1>1. EventRows(rec) = UNION {alive(r) : r \in {q \in rec.rounds : q.winner # "none"}}
  BY DEF EventRows
<1>2. ASSUME NEW row \in EventRows(rec)
      PROVE  \E r \in rec.rounds : \E e : HasEventRow(rec, r, e) /\ row = EventRowAt(rec, r, e)
  <2>1. PICK r \in rec.rounds : r.winner # "none" /\ row \in alive(r)
    BY <1>1
  <2>2. PICK e \in near(r) : row = EventRowAt(rec, r, e)
    BY <2>1
  <2>3. row.ct > 0 /\ row.t > 0
    BY <2>1
  <2>4. HasEventRow(rec, r, e)
    BY <2>1, <2>2, <2>3 DEF HasEventRow
  <2> QED
    BY <2>2, <2>4
<1>3. ASSUME NEW r \in rec.rounds, NEW e, HasEventRow(rec, r, e)
      PROVE  EventRowAt(rec, r, e) \in EventRows(rec)
  <2>1. e \in near(r) /\ r.winner # "none"
    BY <1>3 DEF HasEventRow
  <2> HIDE DEF near
  <2>2. EventRowAt(rec, r, e) \in rows(r)
    BY <2>1
  <2> HIDE DEF rows
  <2>3. EventRowAt(rec, r, e) \in alive(r)
    BY <1>3, <2>2 DEF HasEventRow
  <2> HIDE DEF alive
  <2> QED
    BY <1>1, <2>1, <2>3
<1> QED
  BY <1>2, <1>3

LEMMA EventRowsAreBlind ==
    ASSUME NEW rec, IsCounted(rec), NEW row \in EventRows(rec)
    PROVE  row \in EventRows(RecordUntil(rec, row.tick))
<1>1. PICK r \in rec.rounds : \E e : HasEventRow(rec, r, e) /\ row = EventRowAt(rec, r, e)
  BY EventRowsOfRounds
<1>2. PICK e : HasEventRow(rec, r, e) /\ row = EventRowAt(rec, r, e)
  BY <1>1
<1>3. row.tick = e.tick
  BY <1>2 DEF EventRowAt
<1>4. PICK cut : cut = RecordUntil(rec, e.tick)
  OBVIOUS
<1>5. /\ cut.source = rec.source /\ cut.rounds = rec.rounds
      /\ cut.events = {f \in rec.events : f.tick <= e.tick}
  BY <1>4, RecordUntilFields
<1>6. \A kinds : EventsOf(cut, r, kinds) = {f \in EventsOf(rec, r, kinds) : f.tick <= e.tick}
  BY <1>5 DEF EventsOf, OfRound
<1>7. /\ r.winner # "none" /\ e \in EventsOf(rec, r, {"kill", "plant"})
      /\ Near(e.tick, TicksOf(EventsOf(rec, r, {"kill"})))
  BY <1>2 DEF HasEventRow
<1>8. e \in rec.events /\ e.tick \in Int /\ \A f \in EventsOf(rec, r, {"kill", "plant"}) : f.tick \in Int
  BY <1>7 DEF EventsOf, OfRound, IsCounted
<1>9. e \in EventsOf(cut, r, {"kill", "plant"})
  BY <1>6, <1>7, <1>8
<1>10. Near(e.tick, TicksOf(EventsOf(cut, r, {"kill"})))
  <2>1. PICK kills : kills = EventsOf(rec, r, {"kill"})
    OBVIOUS
  <2>2. PICK some : some = EventsOf(cut, r, {"kill"})
    OBVIOUS
  <2>3. some = {f \in kills : f.tick <= e.tick}
    BY <1>6, <2>1, <2>2
  <2>4. TicksOf(some) = {u \in TicksOf(kills) : u <= e.tick}
    BY <2>3 DEF TicksOf
  <2>5. IsFiniteSet(TicksOf(kills)) /\ TicksOf(kills) \in SUBSET Int
    BY <2>1, SomeEvents
  <2>6. Near(e.tick, TicksOf(some))
    BY <1>7, <1>8, <2>1, <2>4, <2>5, NearUntil
  <2> QED
    BY <2>2, <2>6
<1>11. EventRowAt(cut, r, e) = EventRowAt(rec, r, e)
  <2>1. PICK all : all = {f \in EventsOf(rec, r, {"kill", "plant"}) : NotAfter(f, e)}
    OBVIOUS
  <2>2. all = {f \in EventsOf(cut, r, {"kill", "plant"}) : NotAfter(f, e)}
    <3>1. \A f \in EventsOf(rec, r, {"kill", "plant"}) : NotAfter(f, e) => f.tick <= e.tick
      BY <1>8 DEF NotAfter
    <3> QED
      BY <1>6, <2>1, <3>1
  <2> QED
    BY <1>5, <2>1, <2>2 DEF EventRowAt
<1>12. HasEventRow(cut, r, e)
  BY <1>2, <1>7, <1>9, <1>10, <1>11 DEF HasEventRow
<1> QED
  BY <1>2, <1>3, <1>4, <1>5, <1>11, <1>12, EventRowsOfRounds

\* The state before a kill is taken from what came before it.
LEMMA KillsStayUnseen ==
    ASSUME NEW rec, IsRecord(rec) PROVE KillsAreUnseen(rec)
<1>1. SUFFICES ASSUME NEW e \in CandidateKills(rec), NEW before, before = Until(rec, e.tick)
               PROVE  /\ SkipReason(before, e) = SkipReason(rec, e)
                      /\ CandidateRow(before, e) = CandidateRow(rec, e)
  BY DEF KillsAreUnseen
<1>2. PICK told : told = Picked(rec.events, {n \in DOMAIN rec.events : rec.events[n].tick < e.tick})
  OBVIOUS
<1>3. before = [rec EXCEPT !.events = told, !.rows = {x \in @ : x.tick < e.tick},
                           !.deeds = {x \in @ : x.tick < e.tick}]
  BY <1>1, <1>2 DEF Until
<1>4. /\ before.rows = {x \in rec.rows : x.tick < e.tick}
      /\ before.deeds = {x \in rec.deeds : x.tick < e.tick}
      /\ before.grenades = rec.grenades
  BY <1>3 DEF IsRecord
<1>5. RowsBefore(before, e.round, e.tick) = RowsBefore(rec, e.round, e.tick)
  BY <1>4 DEF RowsBefore
<1>6. PreRows(before, e.round, e.tick) = PreRows(rec, e.round, e.tick)
  BY <1>5 DEF PreRows
<1>7. BombBefore(before, e.round, e.tick) = BombBefore(rec, e.round, e.tick)
  <2>1. PICK deeds : deeds = {x \in rec.deeds : x.round = e.round /\ x.tick < e.tick /\ x.name # "utility"}
    OBVIOUS
  <2>2. deeds = {x \in before.deeds : x.round = e.round /\ x.tick < e.tick /\ x.name # "utility"}
    BY <1>4, <2>1
  <2> QED
    BY <2>1, <2>2 DEF BombBefore
<1>8. StateBefore(before, e.round, e.tick) = StateBefore(rec, e.round, e.tick)
  BY <1>6, <1>7 DEF StateBefore
<1>9. SkipReason(before, e) = SkipReason(rec, e)
  BY <1>6 DEF SkipReason
<1>10. CandidateRow(before, e) = CandidateRow(rec, e)
  BY <1>4, <1>8 DEF CandidateRow, LegalBefore
<1> QED
  BY <1>9, <1>10

\* Whatever the replays tell, no model learns from what it is to predict.
THEOREM InputsComeBeforeOutcomes == Spec => []InputsPrecedeOutcomes
<1> DEFINE RestInv == part # "replay" => stage = "none"
<1>1. Init => RestInv
  BY DEF Init, ReplayRests
<1>2. RestInv /\ [Next]_backendVars => RestInv'
  BY DEF Next, backendVars, replayVars
<1>3. ASSUME PartsInv, RestInv PROVE InputsPrecedeOutcomes
  <2>1. CASE part = "replay"
    <3>1. IsRecord(record)
      BY <1>3, <2>1, ReplayAssumption DEF PartsInv, ReplayTypeInv, ReplayInv, PreparedIsOfTheRecord
    <3>2. KillsAreUnseen(record)
      BY <3>1, KillsStayUnseen
    <3>3. FeaturesPrecedeLabels
      <4>1. ASSUME NEW w \in Windows(record)
            PROVE  /\ Features(UpTo(record, w.open), w) = Features(record, w)
                   /\ Labels(After(record, w.open), w) = Labels(record, w)
        BY <3>1, WindowTimes, FeaturesUpTo, LabelsAfter
      <4> QED
        BY <4>1 DEF FeaturesPrecedeLabels
    <3> QED
      BY <2>1, <3>2, <3>3 DEF InputsPrecedeOutcomes
  <2>2. CASE part # "replay"
    <3>1. ASSUME NEW input \in Inputs, NEW n \in DOMAIN input
          PROVE  RowsAreBlind(input[n]) /\ RowsAreBlind(Cleaned(input[n]))
      <4>1. input[n] \in RecordsTold
        BY DEF RecordsTold, Range
      <4>2. IsCounted(input[n]) /\ IsCounted(Cleaned(input[n]))
        BY <4>1, InputsAssumption, CleanedIsCounted DEF IsReplayRecord, IsCounted
      <4>3. \A rec : IsCounted(rec) => RowsAreBlind(rec)
        BY SnapshotsAreBlind, EventRowsAreBlind DEF RowsAreBlind
      <4> QED
        BY <4>2, <4>3
    <3>2. stage = "none"
      BY <1>3, <2>2
    <3> QED
      BY <3>1, <3>2 DEF InputsPrecedeOutcomes, FeaturesPrecedeLabels
  <2> QED
    BY <2>1, <2>2
<1> HIDE DEF RestInv
<1> QED
  BY <1>1, <1>2, <1>3, InitPartsInv, PartsInvStep, PTL DEF Spec
==============================================================================
