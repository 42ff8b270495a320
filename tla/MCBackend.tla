------------------------------- MODULE MCBackend -------------------------------
(***************************************************************************)
(* The parts of the system that share no state with each other, for TLC:   *)
(* each behaviour is one of one part, the variables of the others at rest. *)
(***************************************************************************)
EXTENDS CoachedReplay, CandidateTraining, AnalysisEvents, AgentHarness, RoundSimulator,
        DatasetFiles, ModelReleases, ReplayTraining

VARIABLE part

backendVars == <<part, replayVars, trainingVars, eventVars, harnessVars, simulatorVars,
                 datasetVars, releaseVars, replayTrainingVars>>

-----------------------------------------------------------------------------
(* Replays.                                                                 *)

Sides == [p \in {1, 2, 3} |-> IF p = 1 THEN "ct" ELSE "t"]
Opponents == {<<1, 2>>, <<2, 1>>, <<1, 3>>}

Told(kind, r, t, x) ==
    [kind |-> kind, round |-> r, tick |-> 10 * r + t, attacker |-> x[1], victim |-> x[2],
     live |-> TRUE, world |-> FALSE]

\* Positions: none, or at every tick, player 1 moving.
Seen(r) == {[round |-> r, tick |-> 10 * r + t, player |-> p,
             zone |-> IF p = 1 /\ t > 2 THEN "B" ELSE "A", alive |-> TRUE] :
               t \in 0..5, p \in {1, 2, 3}}

RecordOf(events, rows, deeds, grenades, end) ==
    [events |-> events, rows |-> rows, deeds |-> deeds, grenades |-> grenades,
     rounds |-> [r \in 1..3 |-> [start |-> 10 * r,
                                 end |-> IF end = None THEN None ELSE 10 * r + end,
                                 official |-> 10 * r + 6, decided |-> end # None]]]

\* Fights of one round: up to three exchanges of damage among three players,
\* one of them against oneself, and perhaps a kill; any may be at one tick.
Damages == {Told("damage", 1, t, x) : t \in {2, 3, 5}, x \in Opponents}
              \cup {Told("damage", 1, 2, <<1, 1>>)}
Sorted(s) == \A k \in 1..(Len(s) - 1) : s[k].tick <= s[k + 1].tick
Fights == {RecordOf(damages \o kills, Seen(1), {}, {1}, end) :
              damages \in {s \in UNION {[1..n -> Damages] : n \in 0..3} : Sorted(s)},
              kills \in {<<>>, <<Told("kill", 1, 3, <<2, 1>>)>>}, end \in {None, 1}}

\* Matches: three rounds of a duel, in which somebody may be killed or plant.  In
\* a brawl somebody falls, and the fight goes on during the reaction and after it.
Duel(r, kind) ==
    CASE kind = "none"  -> <<>>
      [] kind = "duel"  -> <<Told("damage", r, 2, <<1, 2>>)>>
      [] kind = "death" -> <<Told("damage", r, 2, <<2, 1>>), Told("kill", r, 3, <<2, 1>>)>>
      [] kind = "plant" -> <<Told("damage", r, 2, <<2, 1>>)>>
      [] kind = "brawl" -> <<[Told("damage", r, 1, <<3, 1>>) EXCEPT !.world = TRUE],
                             Told("damage", r, 2, <<1, 2>>), Told("damage", r, 3, <<3, 1>>),
                             Told("damage", r, 5, <<2, 1>>), Told("kill", r, 5, <<2, 1>>)>>
Match(kinds, rows, end) ==
    RecordOf(Duel(1, kinds[1]) \o Duel(2, kinds[2]) \o Duel(3, kinds[3]),
             IF rows THEN Seen(1) \cup Seen(2) \cup Seen(3) ELSE {},
             {[name |-> "plant", round |-> r, tick |-> 10 * r + 3, player |-> 1] :
                 r \in {q \in 1..3 : kinds[q] = "plant"}},
             IF rows THEN {1} ELSE {}, end)
Matches == {Match(kinds, rows, 4) :
               kinds \in {<<"duel", "duel", "death">>, <<"death", "none", "death">>, <<"plant", "duel", "death">>},
               rows \in BOOLEAN}
           \cup {Match(<<"duel", "none", "duel">>, TRUE, end) : end \in {1, 4}}
           \cup {Match(<<"brawl", "none", "death">>, TRUE, end) : end \in {4, 5}}

AllRecords == Fights \cup Matches

\* "take the duel", "get away, utility", "did not want to fight", and nothing known.
PlayerTexts == {{[from |-> 0, to |-> 13, goal |-> "duel"], [from |-> 9, to |-> 13, goal |-> "duel"]},
                {[from |-> 0, to |-> 8, goal |-> "escape"], [from |-> 9, to |-> 16, goal |-> "space"]},
                {[from |-> 0, to |-> 7, goal |-> "space"]},
                {}}

-----------------------------------------------------------------------------
(* Labelled decisions, tools and rounds.                                    *)

\* A decision of a replay: outnumbered, nothing tells peek and hold apart.
Decision(group, kill, advantage) ==
    [group |-> group, kill |-> kill, actions |-> {"hold", "peek", "save"},
     summary |-> [health |-> 100, contact |-> FALSE, utility |-> FALSE, advantage |-> advantage]]
TheCorpora == {{Decision(1, 1, 0), Decision(1, 2, 1), Decision(2, 1, 0), Decision(3, 1, 1)},
               {Decision(1, 1, 0), Decision(2, 1, -1)}}

ToolLimits == [simulate |-> 2, analyze |-> 1]
Teams      == [p \in {1, 2, 3} |-> IF p = 1 THEN "t" ELSE "ct"]
Neighbours == [A |-> {"S"}, S |-> {"A"}]

-----------------------------------------------------------------------------
(* Replays as training data: five demos of four matches.                    *)

\* Two players at three ticks of a round, one row told twice; the terrorist
\* dies at the last of them.
Stand(nth, r, t, p) ==
    [nth |-> nth, round |-> r, tick |-> t, player |-> p, side |-> IF p = 1 THEN "ct" ELSE "t",
     alive |-> ~(p = 2 /\ t = 3), place |-> IF t > 1 THEN "B" ELSE "A"]
StandsOf(r) == {Stand(3 * t + p, r, t, p) : t \in 1..3, p \in {1, 2}} \cup {Stand(20, r, 2, 1)}

Happening(n, kind, r, t, side, by) ==
    [nth |-> n, kind |-> kind, round |-> r, tick |-> t, side |-> side, by |-> by]

\* A fall before the fight, and somebody the bomb kills at its end.
HappeningsOf(r) == {Happening(1, "damage", r, 2, "t", "other"), Happening(2, "kill", r, 3, "t", "other"),
                    Happening(3, "shot", r, 2, "ct", "other"), Happening(4, "plant", r, 3, "t", "other"),
                    Happening(5, "damage", r, 1, "ct", "world"), Happening(6, "damage", r, 2, "t", "self"),
                    Happening(7, "kill", r, 3, "t", "world")}

RoundTold(r, won, end) == [num |-> r, start |-> 0, end |-> end, winner |-> won]
Demo(name, match, rounds, rows, events) ==
    [source |-> name, match |-> match, rounds |-> rounds, ticks |-> rows, events |-> events]
ShortDemo(name, match, won) ==
    Demo(name, match, {RoundTold(1, won, 4)}, {x \in StandsOf(1) : x.nth \in {7, 8}},
         {Happening(1, "damage", 1, 2, "t", "other"), Happening(2, "kill", 1, 2, "t", "other"),
          Happening(3, "kill", 1, 2, "ct", "self")})

\* The second round of the first demo is too long to be clean.
TheInputs == {<<Demo("a1", "A", {RoundTold(1, "ct", 4), RoundTold(2, "t", 9)},
                     StandsOf(1) \cup StandsOf(2), HappeningsOf(1) \cup HappeningsOf(2)),
                ShortDemo("a2", "A", "t"), ShortDemo("B", "", "ct"), ShortDemo("C", "", "t"),
                ShortDemo("E", "", "ct")>>}

Dealt(s)    == [g \in {"A", "B", "C", "E", "a1", "a2"} |-> CHOOSE n \in 1..6 : s[n] = g]
TheShuffles == {<<Dealt(<<"A", "a1", "a2", "B", "C", "E">>), Dealt(<<"A", "a2", "a1", "E", "C", "B">>),
                  Dealt(<<"A", "a1", "a2", "B", "C", "E">>)>>}

TheSealable == {[source |-> "E", match |-> "E"], [source |-> "a3", match |-> "A"]}
TheAskable  == {{}, {"A"}}

\* What the theorems about the record's moments and about the database suppose
\* of what is told holds here.
ASSUME ToldAssumption ==
    /\ \A rec \in Records : WithinLimits(rec)
    /\ DemosAreToldAlike /\ \A rec \in RecordsTold : RepeatsAgree(rec)

-----------------------------------------------------------------------------
(* The parts side by side.                                                  *)

ReplayRests    == /\ stage = "none" /\ record = None /\ prepared = None /\ request = None
                  /\ analyses = <<>> /\ question = None /\ reply = None
TrainingRests  == /\ corpus = {} /\ splitDir = <<>> /\ toWrite = <<>> /\ modelDir = <<>>
                  /\ fitting = None /\ report = None /\ order = "none" /\ splits = 0
EventsRest     == /\ updates = <<[stage |-> "complete", run |-> 0]>> /\ status = "complete"
                  /\ running = {} /\ selections = 0 /\ stream = [NewStream EXCEPT !.at = "ended"]
                  /\ source = [open |-> FALSE, terminal |-> TRUE, got |-> updates]
                  /\ asked = 0 /\ seen = {} /\ losses = 0
SimulatorRests == /\ clock = 0 /\ nextChoice = 0 /\ winner = "none"
                  /\ bomb = [state |-> "defused", left |-> 0] /\ execution = <<>>
                  /\ body = [p \in Fighters |-> [alive |-> FALSE, hasBomb |-> FALSE]]
DatasetRests   == /\ onDisk = <<>> /\ manifest = <<>> /\ settled = FALSE
                  /\ fetch = NoFetch /\ snapshots = <<>> /\ runs = 0

Parts == {"replay", "training", "events", "harness", "simulator", "dataset", "releases",
          "learning", "exports"}

Init ==
    /\ part \in Parts
    /\ IF part = "replay"    THEN ReplayInit    ELSE ReplayRests
    /\ IF part = "training"  THEN TrainingInit  ELSE TrainingRests
    /\ IF part = "events"    THEN EventsInit    ELSE EventsRest
    /\ IF part = "simulator" THEN SimulatorInit ELSE SimulatorRests
    /\ IF part = "dataset"   THEN DatasetInit   ELSE DatasetRests
    /\ HarnessInit /\ ReleaseInit /\ ReplayTrainingInit

Next ==
    \/ /\ part = "replay" /\ ReplayNext
       /\ UNCHANGED <<part, trainingVars, eventVars, harnessVars, simulatorVars, datasetVars,
                      releaseVars, replayTrainingVars>>
    \/ /\ part = "training" /\ TrainingNext
       /\ UNCHANGED <<part, replayVars, eventVars, harnessVars, simulatorVars, datasetVars,
                      releaseVars, replayTrainingVars>>
    \/ /\ part = "events" /\ EventsNext
       /\ UNCHANGED <<part, replayVars, trainingVars, harnessVars, simulatorVars, datasetVars,
                      releaseVars, replayTrainingVars>>
    \/ /\ part = "harness" /\ HarnessNext
       /\ UNCHANGED <<part, replayVars, trainingVars, eventVars, simulatorVars, datasetVars,
                      releaseVars, replayTrainingVars>>
    \/ /\ part = "simulator" /\ SimulatorNext
       /\ UNCHANGED <<part, replayVars, trainingVars, eventVars, harnessVars, datasetVars,
                      releaseVars, replayTrainingVars>>
    \/ /\ part = "dataset" /\ DatasetNext
       /\ UNCHANGED <<part, replayVars, trainingVars, eventVars, harnessVars, simulatorVars,
                      releaseVars, replayTrainingVars>>
    \/ /\ part = "releases" /\ ReleaseNext
       /\ UNCHANGED <<part, replayVars, trainingVars, eventVars, harnessVars, simulatorVars,
                      datasetVars, replayTrainingVars>>
    \/ /\ part = "learning" /\ LearningNext
       /\ UNCHANGED <<part, replayVars, trainingVars, eventVars, harnessVars, simulatorVars,
                      datasetVars, releaseVars>>
    \/ /\ part = "exports" /\ ExportNext
       /\ UNCHANGED <<part, replayVars, trainingVars, eventVars, harnessVars, simulatorVars,
                      datasetVars, releaseVars>>

\* At rest, nothing of EventsFairness and HarnessFairness can be done.
Spec == Init /\ [][Next]_backendVars /\ EventsFairness /\ HarnessFairness

-----------------------------------------------------------------------------
(* Properties.                                                              *)

\* The state of the part that is at work has the type its module states.
BackendTypeOK ==
    CASE part = "replay"    -> ReplayTypeOK
      [] part = "training"  -> TrainingTypeOK
      [] part = "events"    -> EventsTypeOK
      [] part = "harness"   -> HarnessTypeOK
      [] part = "simulator" -> SimulatorTypeOK
      [] part = "dataset"   -> DatasetTypeOK
      [] part = "releases"  -> ReleaseTypeOK
      [] OTHER              -> DatabaseTypeOK

\* No model is trained on what it is to predict: a window's features come
\* before its labels, the state of a candidate decision before the kill it was
\* taken from, and a row for the round-value model says nothing of what came
\* after its tick.
InputsPrecedeOutcomes ==
    /\ FeaturesPrecedeLabels
    /\ stage = "parsed" => KillsAreUnseen(record)
    /\ part = "learning" /\ commands = 0 =>
           \A input \in Inputs : \A n \in DOMAIN input :
               RowsAreBlind(input[n]) /\ RowsAreBlind(Cleaned(input[n]))

\* No score is one of matches that were learnt: of the action model, of the
\* round-value model's test, of its calibration or of the benchmark; datasets
\* registered apart stay apart, and the model to be scored is of one training.
ScoresAreOfUnseenMatches ==
    /\ HeldOutIsUnseen /\ TestMatchesAreUnseen /\ BenchmarkIsUnseen
    /\ DatasetsAreApart /\ LoadedModelIsOfOneTraining
===============================================================================
