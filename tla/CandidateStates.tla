---------------------------- MODULE CandidateStates ----------------------------
(***************************************************************************)
(* The candidate decisions that action models are trained on: for every    *)
(* kill of a replay the state of the round as it was known before the kill *)
(* (replay_engine/training/replay_state.py, candidate_states.py) and a     *)
(* label for each action the killer could have taken instead               *)
(* (candidate_labels.py).                                                  *)
(***************************************************************************)
EXTENDS EngagementWindows

-----------------------------------------------------------------------------
(* replay_state.py                                                          *)

\* Mutant: positions sampled at the kill's own tick are taken into account.
RowsBeforeToTheKill(rec, round, tick) == {x \in rec.rows : x.round = round /\ x.tick <= tick}

RowsBefore(rec, round, tick) == {x \in rec.rows : x.round = round /\ x.tick < tick}

\* nearest_tick_rows: the last position of each player that was seen earlier.
PreRows(rec, round, tick) ==
    {x \in RowsBefore(rec, round, tick) :
        \A y \in RowsBefore(rec, round, tick) : y.player = x.player => y.tick <= x.tick}

\* bomb_state: what was last done to the bomb before the tick.
BombBefore(rec, round, tick) ==
    LET deeds == {x \in rec.deeds : x.round = round /\ x.tick < tick /\ x.name # "utility"}
        last  == {x \in deeds : \A y \in deeds : y.tick <= x.tick}
    IN  IF last = {} THEN [state |-> "none", since |-> None]
        ELSE LET x == CHOOSE x \in last : TRUE IN
             [state |-> IF x.name = "plant" THEN "planted" ELSE "defused",
              since |-> IF x.name = "plant" THEN x.tick ELSE None]

\* reconstruct_game_state
StateBefore(rec, round, tick) ==
    [players |-> {[player |-> x.player, side |-> Side[x.player], zone |-> x.zone, alive |-> x.alive] :
                     x \in PreRows(rec, round, tick)},
     bomb    |-> BombBefore(rec, round, tick)]

-----------------------------------------------------------------------------
(* candidate_states.py                                                      *)

\* _iter_kill_events: a kill told twice counts once.
KillEvents(rec) ==
    {i \in DOMAIN rec.events :
        /\ rec.events[i].kind = "kill"
        /\ \A j \in 1..(i - 1) : rec.events[j] # rec.events[i]}

\* _candidate_row: why a kill gives no row, or "none".  It takes a position from
\* before the kill to know that its outcome is not in the state.
SkipReason(rec, e) ==
    LET rows == PreRows(rec, e.round, e.tick)
        own  == {x \in rows : x.player = e.attacker}
    IN  CASE rows = {}                                    -> "missing_strict_pre_event_snapshot"
          [] rows # {} /\ own = {}                        -> "attacker_missing_from_pre_event_state"
          [] own # {} /\ (\A x \in own : ~x.alive)        -> "attacker_not_alive_before_event"
          [] OTHER                                        -> "none"

\* legal_actions of the killer.  A replay's places are none of the simulator's
\* zones, so that nobody can move, plant or defuse; and its inventories show
\* who has a grenade.
LegalBefore(rec, p) == {"hold", "peek", "save"} \cup (IF p \in rec.grenades THEN {"use_utility"} ELSE {})

CandidateRow(rec, e) ==
    [round |-> e.round, tick |-> e.tick, actor |-> e.attacker,
     state |-> StateBefore(rec, e.round, e.tick), actions |-> LegalBefore(rec, e.attacker)]

CandidateKills(rec) == {rec.events[i] : i \in KillEvents(rec)}

\* extract_candidate_states
CandidateRows(rec) == {CandidateRow(rec, e) : e \in {x \in CandidateKills(rec) : SkipReason(rec, x) = "none"}}

-----------------------------------------------------------------------------
(* candidate_labels.py                                                      *)

AliveOn(state, side) == Cardinality({x \in state.players : x.alive /\ x.side = side})

\* _state_summary; positions do not tell who is hurt, nor who sees whom.
Summary(row) ==
    LET side == Side[row.actor] IN
    [health |-> 100, contact |-> FALSE, utility |-> "use_utility" \in row.actions,
     advantage |-> AliveOn(row.state, side) - AliveOn(row.state, IF side = "ct" THEN "t" ELSE "ct")]

If(condition, points) == IF condition THEN points ELSE 0

\* _rubric_score, in hundredths; None where the rubric says nothing.
RubricScore(s, action) ==
    CASE action = "move" -> 45 + If(s.health <= 60, 25) + If(s.advantage < 0, 20)
                               - If(s.health >= 85 /\ s.advantage > 0, 20)
      [] action = "peek" -> 45 + If(s.health >= 75 /\ s.contact, 25) - If(s.health <= 40, 35)
                               + If(s.advantage >= 0, 10) - If(s.advantage < 0, 25)
      [] action = "hold" -> 45 + If(s.advantage > 0 /\ ~s.contact, 20) - If(s.advantage < 0, 25)
                               - If(s.health <= 40, 30)
      [] action = "use_utility" -> (IF s.utility THEN 45 ELSE 20) + If(s.contact \/ s.advantage < 0, 15)
      [] OTHER -> None

\* MIN_RUBRIC_SPREAD
MinSpread == 8

\* label_candidate_row: the best action is preferred and the worst is risky, if
\* they are far enough apart.
RowLabels(s, actions) ==
    LET scored == {a \in actions : RubricScore(s, a) # None}
        scores == {RubricScore(s, a) : a \in scored}
        apart  == scores # {} /\ Greatest(scores) - Least(scores) >= MinSpread
    IN  [a \in actions |->
            CASE apart /\ a \in scored /\ RubricScore(s, a) = Greatest(scores) -> "preferred"
              [] apart /\ a \in scored /\ RubricScore(s, a) = Least(scores)    -> "risky"
              [] OTHER                                                          -> "unknown"]

-----------------------------------------------------------------------------
(* Properties.                                                              *)

\* The record as it stood before a tick.
Until(rec, tick) ==
    [rec EXCEPT !.events = Picked(@, {n \in DOMAIN @ : @[n].tick < tick}),
                !.rows = {x \in @ : x.tick < tick}, !.deeds = {x \in @ : x.tick < tick}]

\* A model that rates the killer's alternatives is not shown the kill: the row
\* of a kill, and whether it has one, would be the same if the replay had been
\* cut right before it.
KillsAreUnseen(rec) ==
    \A e \in CandidateKills(rec) :
        LET before == Until(rec, e.tick) IN
        /\ SkipReason(before, e) = SkipReason(rec, e)
        /\ SkipReason(rec, e) = "none" => CandidateRow(before, e) = CandidateRow(rec, e)
===============================================================================
