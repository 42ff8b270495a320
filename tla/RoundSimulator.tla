---------------------------- MODULE RoundSimulator ----------------------------
(***************************************************************************)
(* The round simulator behind the simulate_round tool                      *)
(* (replay_engine/model/src/cs2_sim: simulator.py, rules.py, actions.py):  *)
(* players act on a virtual clock until the round has a winner.  One step  *)
(* is one pass of the loop.  A policy may choose any legal action.  Times  *)
(* are ticks, durations rounded up to them.  The simulator hurts nobody.   *)
(***************************************************************************)
EXTENDS Integers, FiniteSets

CONSTANTS
    Fighters,          \* the players
    TeamOf,            \* [Fighters -> {"ct", "t"}]
    Places, Adjacent,  \* the zones, and the zones next to each
    BombSite,          \* one of them
    DecisionTicks, RoundTicks, BombTicks,
    PlantTicks, DefuseTicks, UtilityTicks, LimitTicks, SecondTicks

ASSUME SimulatorAssumption ==
    /\ TeamOf \in [Fighters -> {"ct", "t"}]
    /\ BombSite \in Places /\ Adjacent \in [Places -> SUBSET Places]
    /\ {DecisionTicks, RoundTicks, BombTicks, PlantTicks, DefuseTicks, UtilityTicks,
        LimitTicks, SecondTicks} \subseteq Nat \ {0}

VARIABLES
    clock,       \* state.time_seconds
    nextChoice,  \* next_decision
    bomb,        \* bomb_state and bomb_time_remaining
    body,        \* [Fighters -> PlayerState]
    execution,   \* [Fighters -> what the player is doing]
    winner       \* state.winner

simulatorVars == <<clock, nextChoice, bomb, body, execution, winner>>

Action0(type, zone) == [type |-> type, zone |-> zone, elapsed |-> 0]
Idle == Action0("none", BombSite)

\* The states of agent_bridge.py and others like them: the bomb is carried or
\* ticks, for some time already, and players may be dead or see an enemy, which
\* the simulator keeps.
SimulatorInit ==
    /\ clock = 0 /\ nextChoice = 0 /\ winner = "none"
    /\ execution = [p \in Fighters |-> Idle]
    /\ \E zone \in [Fighters -> Places], alive, sees \in SUBSET Fighters, carrier \in Fighters,
          planted \in BOOLEAN, remaining \in 1..BombTicks :
          /\ TeamOf[carrier] = "t"
          /\ body = [p \in Fighters |->
                        [zone |-> zone[p], alive |-> p \in alive, sees |-> p \in sees,
                         hasBomb |-> p = carrier /\ ~planted, utility |-> 1]]
          /\ bomb = IF planted THEN [state |-> "planted", left |-> remaining]
                               ELSE [state |-> "carried", left |-> 0]

-----------------------------------------------------------------------------
(* Rules.                                                                   *)

AliveOf(team) == {p \in Fighters : body[p].alive /\ TeamOf[p] = team}
AtSite(p)     == body[p].zone = BombSite

\* legal_actions, of a living player.
LegalActions(p) ==
    {Action0(type, BombSite) :
        type \in {"hold", "peek", "save"}
                 \cup (IF body[p].utility > 0 THEN {"use_utility"} ELSE {})
                 \cup (IF TeamOf[p] = "t" /\ body[p].hasBomb /\ bomb.state = "carried" /\ AtSite(p)
                       THEN {"plant"} ELSE {})
                 \cup (IF TeamOf[p] = "ct" /\ bomb.state = "planted" /\ AtSite(p)
                       THEN {"defuse"} ELSE {})}
    \cup {Action0("move", zone) : zone \in Adjacent[body[p].zone]}

\* action_duration
Duration(type) ==
    CASE type = "plant"       -> PlantTicks
      [] type = "defuse"      -> DefuseTicks
      [] type = "use_utility" -> UtilityTicks
      [] type = "save"        -> LimitTicks
      [] OTHER                -> IF LimitTicks < SecondTicks THEN LimitTicks ELSE SecondTicks

\* round_winner, asked as a pass ends.
RoundWinner(state, time) ==
    CASE state = "detonated"                                    -> "t"
      [] state = "defused"                                      -> "ct"
      [] state \in {"carried", "planted"} /\ AliveOf("t") = {}  ->
            IF state = "planted" THEN "none" ELSE "ct"
      [] state \in {"carried", "planted"} /\ AliveOf("t") # {} /\ AliveOf("ct") = {} -> "t"
      [] OTHER -> IF state # "planted" /\ time >= RoundTicks THEN "ct" ELSE "none"

-----------------------------------------------------------------------------
(* One pass of the loop.                                                    *)

\* _choose_actions: at a decision, those who live and do nothing.
Choosers == IF clock >= nextChoice
            THEN {p \in Fighters : body[p].alive /\ execution[p] = Idle}
            ELSE {}

\* _should_interrupt
Interrupted(p, doing) == body[p].sees /\ doing.type \in {"move", "use_utility", "save"}

\* A defuse the timer leaves no time for goes on without ever completing.
TooLate(doing) ==
    doing.type = "defuse" /\ bomb.state = "planted"
    /\ Duration("defuse") - doing.elapsed > bomb.left

Completes(p, doing) ==
    /\ doing # Idle /\ ~Interrupted(p, doing) /\ ~TooLate(doing)
    /\ doing.elapsed + 1 >= Duration(doing.type)

\* _complete_action of one player; a defuse after another's is rejected.
BodyAfter(p, doing) ==
    CASE ~Completes(p, doing)        -> body[p]
      [] Completes(p, doing) /\ doing.type = "move"        -> [body[p] EXCEPT !.zone = doing.zone]
      [] Completes(p, doing) /\ doing.type = "use_utility" -> [body[p] EXCEPT !.utility = IF @ > 0 THEN @ - 1 ELSE 0]
      [] Completes(p, doing) /\ doing.type = "plant"       -> [body[p] EXCEPT !.hasBomb = FALSE]
      [] OTHER                       -> body[p]

\* _advance_actions for the bomb.
BombAfter(acting) ==
    LET finished(type) == \E p \in Fighters : Completes(p, acting[p]) /\ acting[p].type = type
    IN  CASE finished("plant")                          -> [state |-> "planted", left |-> BombTicks]
          [] ~finished("plant") /\ finished("defuse") /\ bomb.state = "planted" ->
                [state |-> "defused", left |-> 0]
          [] OTHER                                      -> bomb

\* The timer of the pass, which may let the bomb go off.
Ticked(b) ==
    CASE b.state = "planted" /\ b.left > 1  -> [b EXCEPT !.left = @ - 1]
      [] b.state = "planted" /\ b.left <= 1 -> [state |-> "detonated", left |-> 0]
      [] OTHER                              -> b

\* Mutant: the loop stops with the round's own time.
LoopEndsWithRound == winner # "none" \/ clock >= RoundTicks

LoopEnds == winner # "none" \/ clock >= RoundTicks + BombTicks

Pass(choice) ==
    /\ ~LoopEnds
    /\ \A p \in Choosers : choice[p] \in LegalActions(p)
    /\ LET acting == [p \in Fighters |-> IF p \in Choosers THEN choice[p] ELSE execution[p]] IN
          /\ execution' = [p \in Fighters |->
                IF acting[p] = Idle \/ Interrupted(p, acting[p]) \/ Completes(p, acting[p])
                THEN Idle ELSE [acting[p] EXCEPT !.elapsed = @ + 1]]
          /\ body' = [p \in Fighters |-> BodyAfter(p, acting[p])]
          /\ bomb' = Ticked(BombAfter(acting))
    /\ nextChoice' = IF clock >= nextChoice THEN nextChoice + DecisionTicks ELSE nextChoice
    /\ clock' = clock + 1
    /\ winner' = RoundWinner(bomb'.state, clock')

AnyAction == UNION {LegalActions(p) : p \in Fighters}

SimulatorNext == \E choice \in [Choosers -> AnyAction] : Pass(choice)

SimulatorSpec == SimulatorInit /\ [][SimulatorNext]_simulatorVars

-----------------------------------------------------------------------------
(* Properties.                                                              *)

SimulatorTypeOK ==
    /\ clock \in Nat /\ nextChoice \in Nat /\ winner \in {"none", "ct", "t"}
    /\ bomb \in [state : {"carried", "planted", "defused", "detonated"}, left : 0..BombTicks]
    /\ body \in [Fighters -> [zone : Places, alive : BOOLEAN, sees : BOOLEAN,
                              hasBomb : BOOLEAN, utility : Nat]]
    /\ execution \in [Fighters -> [type : {"none", "hold", "peek", "save", "use_utility", "move",
                                           "plant", "defuse"}, zone : Places, elapsed : Nat]]

\* A simulated round always ends with a winner, also when the bomb is planted in
\* its last moment and a defuse is under way as it goes off; the bomb is
\* never left ticking unless the defenders are all dead; and there is one bomb.
RoundIsDecided ==
    /\ LoopEnds => winner # "none"
    /\ winner # "none" /\ bomb.state = "planted" => AliveOf("ct") = {}
    /\ bomb.state = "carried" <=> \E p \in Fighters : body[p].hasBomb
==============================================================================
