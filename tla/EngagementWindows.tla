-------------------------- MODULE EngagementWindows --------------------------
(***************************************************************************)
(* The decision windows cut out of one replay                              *)
(* (replay_engine/training/engagement_windows.py) and the action a player  *)
(* was seen to take in a window (training/action_labeler.py).  A window is *)
(* what the coach and the value model learn from: its features may use     *)
(* only what had happened when the decision was taken, its labels only     *)
(* what happened after.  Times are ticks; the seconds of the code are      *)
(* constants here.                                                         *)
(***************************************************************************)
EXTENDS Integers, Sequences, FiniteSets, SequencesExt

CONSTANTS
    Players,        \* players of the replay, ordered as their identifiers are
    Rounds,         \* round numbers
    Zones,          \* places of the map
    None,           \* no tick, no zone, no player
    Side,           \* the side each player is on
    Lead,           \* decision_lead_seconds: the decision precedes the contact
    Horizon,        \* horizon_seconds: labels look this far ahead
    TradeTicks,     \* trade_window_seconds
    Lookback,       \* lookback_seconds
    ActionTicks,    \* action_window_seconds
    MaxWindows      \* MAX_EXTRACTED_WINDOWS

ASSUME WindowAssumption ==
    /\ Players \subseteq Nat /\ Rounds \subseteq Nat
    /\ Side \in [Players -> {"ct", "t"}]
    /\ None \notin Nat /\ None \notin Zones
    /\ Lead \in Nat
    /\ {Horizon, TradeTicks, Lookback, ActionTicks, MaxWindows} \subseteq Nat \ {0}

\* What the parser reports of a fight, in the order of the demo.  An event is
\* live unless it was in freeze time; the world's are falls and the bomb.
Event == [kind : {"damage", "kill"}, round : Rounds, tick : Nat,
          attacker : Players, victim : Players, live : BOOLEAN, world : BOOLEAN]

\* A sampled position, and what else a player was seen to do.
Row  == [round : Rounds, tick : Nat, player : Players, zone : Zones, alive : BOOLEAN]
Deed == [name : {"plant", "defuse", "utility"}, round : Rounds, tick : Nat, player : Players]

\* A replay record: events (a sequence), rows and deeds (sets), the players
\* whose inventories show a grenade, and for each round its start, its end and
\* its official end, either of which may be missing, and whether its winner is
\* told.
RoundTimes == [start : Nat, end : Nat \cup {None}, official : Nat \cup {None},
               decided : BOOLEAN]

IsRecord(rec) ==
    /\ rec \in [events : Seq(Event), rows : SUBSET Row, deeds : SUBSET Deed,
                grenades : SUBSET Players, rounds : [Rounds -> RoundTimes]]
    /\ IsFiniteSet(rec.rows) /\ IsFiniteSet(rec.deeds)

Least(S)    == CHOOSE n \in S : \A m \in S : n <= m
Greatest(S) == CHOOSE n \in S : \A m \in S : n >= m

\* The elements of a finite set in a strict total order.
InOrder(S, Less(_, _)) ==
    [n \in 1..Cardinality(S) |->
        CHOOSE x \in S : Cardinality({y \in S : Less(y, x)}) = n - 1]

\* The elements of s at the positions N, in their order.
Picked(s, N) ==
    LET positions == InOrder(N, LAMBDA i, j : i < j)
    IN  [n \in DOMAIN positions |-> s[positions[n]]]

-----------------------------------------------------------------------------
(* Contacts and anchors.                                                    *)

\* _real_event: somebody hurt somebody else.
Real(e) == e.live /\ ~e.world /\ e.attacker # e.victim

\* Events are ordered by round, tick and kind; equal ones keep their order.
Before(rec, i, j) ==
    LET e == rec.events[i]
        f == rec.events[j]
    IN  \/ e.round < f.round
        \/ e.round = f.round /\ e.tick < f.tick
        \/ e.round = f.round /\ e.tick = f.tick /\ e.kind = "damage" /\ f.kind = "kill"
        \/ e.round = f.round /\ e.tick = f.tick /\ e.kind = f.kind /\ i < j

\* The real events, an event told twice only once.
RealEvents(rec) ==
    {i \in DOMAIN rec.events :
        /\ Real(rec.events[i])
        /\ \A j \in 1..(i - 1) : rec.events[j] # rec.events[i]}

OfKind(rec, kind) == {i \in RealEvents(rec) : rec.events[i].kind = kind}

\* Damage is the contact; kills stand in where a replay reports no damage.
Contacts(rec) ==
    IF OfKind(rec, "damage") # {} THEN OfKind(rec, "damage") ELSE OfKind(rec, "kill")

\* Mutant: contacts are kept apart by their attacker only.
SameFightByAttacker(e, f) == e.round = f.round /\ e.attacker = f.attacker

SameFight(e, f) == e.round = f.round /\ e.attacker = f.attacker /\ e.victim = f.victim

\* A contact opens a window unless one of the same two players, in the same
\* direction, opened one less than a horizon before.
Anchors(rec) ==
    LET contacts == InOrder(Contacts(rec), LAMBDA i, j : Before(rec, i, j))
        anchor[n \in 1..Len(contacts)] ==
            \A k \in 1..(n - 1) :
                LET e == rec.events[contacts[n]]
                    f == rec.events[contacts[k]]
                IN  anchor[k] /\ SameFight(e, f) => e.tick - f.tick >= Horizon
    IN  {contacts[n] : n \in {k \in 1..Len(contacts) : anchor[k]}}

\* _round_end_ticks
EndOf(times) == IF times.end # None THEN times.end ELSE times.official

-----------------------------------------------------------------------------
(* Windows.                                                                 *)

\* The window of one participant of the fight that event i opened.
WindowOf(rec, i, role) ==
    LET e     == rec.events[i]
        times == rec.rounds[e.round]
        open  == IF e.tick - Lead > times.start THEN e.tick - Lead ELSE times.start
        bound == open + Horizon
        end   == EndOf(times)
    IN  [event |-> i, round |-> e.round, role |-> role,
         player   |-> IF role = "attacker" THEN e.attacker ELSE e.victim,
         opponent |-> IF role = "attacker" THEN e.victim ELSE e.attacker,
         kind |-> e.kind, open |-> open, contact |-> e.tick,
         until |-> IF end # None /\ end < bound THEN end ELSE bound]

WindowBefore(rec, v, w) ==
    \/ v.event # w.event /\ Before(rec, v.event, w.event)
    \/ v.event = w.event /\ v.role = "attacker" /\ w.role = "victim"

\* extract_engagement_windows: both participants of every anchor, unless the
\* round was over when the decision was taken; at most MaxWindows.
Windows(rec) ==
    LET all  == {WindowOf(rec, x[1], x[2]) : x \in Anchors(rec) \X {"attacker", "victim"}}
        open == {w \in all : w.open < w.until}
    IN  {w \in open : Cardinality({v \in open : WindowBefore(rec, v, w)}) < MaxWindows}

-----------------------------------------------------------------------------
(* Features: what was known at the decision.                                *)

RowsOf(rec, round, p) == {x \in rec.rows : x.round = round /\ x.player = p}

\* _row_at_or_before
LatestRow(rows, tick) ==
    LET past == {x \in rows : x.tick <= tick}
    IN  IF past = {} THEN {} ELSE {x \in past : \A y \in past : y.tick <= x.tick}

\* The damage of the round within the look-back.
Recent(rec, w) ==
    {e \in {rec.events[i] : i \in OfKind(rec, "damage")} :
        e.round = w.round /\ w.open - Lookback <= e.tick /\ e.tick <= w.open}

\* _anchor_feature: the contact itself, as the record tells it, once it is not
\* in the future.
ContactFeature(rec, w) ==
    LET fighters == IF w.role = "attacker" THEN <<w.player, w.opponent>> ELSE <<w.opponent, w.player>>
        contact  == {e \in {rec.events[i] : i \in OfKind(rec, w.kind)} :
                        /\ e.round = w.round /\ e.tick = w.contact
                        /\ <<e.attacker, e.victim>> = fighters}
    IN  IF w.open >= w.contact
        THEN [anchor |-> w.kind, of |-> contact]
        ELSE [anchor |-> "pre_" \o w.kind, of |-> {}]

\* _history_features: where the player came from, the damage dealt and taken
\* lately, and who else was last seen alive.
Features(rec, w) ==
    [contact |-> ContactFeature(rec, w),
     path    |-> {x \in RowsOf(rec, w.round, w.player) :
                     w.open - Lookback <= x.tick /\ x.tick <= w.open},
     current |-> LatestRow(RowsOf(rec, w.round, w.player), w.open),
     dealt   |-> {e \in Recent(rec, w) : e.attacker = w.player},
     taken   |-> {e \in Recent(rec, w) : e.victim = w.player},
     others  |-> {x \in UNION {LatestRow(RowsOf(rec, w.round, p), w.open) :
                                  p \in Players \ {w.player}} : x.alive}]

-----------------------------------------------------------------------------
(* Labels: what came of it.                                                 *)

\* The real events of a kind within the window, after the decision.
Later(rec, w, kind) ==
    {e \in {rec.events[i] : i \in OfKind(rec, kind)} :
        e.round = w.round /\ w.open < e.tick /\ e.tick <= w.until}

\* A trade: a team mate kills, soon enough, the player who killed ours.  The
\* first death counts.
Trades(rec, w) ==
    LET deaths == {e \in Later(rec, w, "kill") : e.victim = w.player}
    IN  {e \in Later(rec, w, "kill") :
            \E d \in deaths :
                /\ \A x \in deaths : d.tick <= x.tick
                /\ e.victim = d.attacker /\ Side[e.attacker] = Side[w.player]
                /\ d.tick < e.tick /\ e.tick <= d.tick + TradeTicks}

\* _label_for_player
Labels(rec, w) ==
    [kill   |-> \E e \in Later(rec, w, "kill") : e.attacker = w.player,
     death  |-> \E e \in Later(rec, w, "kill") : e.victim = w.player,
     trade  |-> Trades(rec, w) # {},
     dealt  |-> {e \in Later(rec, w, "damage") : e.attacker = w.player},
     taken  |-> {e \in Later(rec, w, "damage") : e.victim = w.player}]

-----------------------------------------------------------------------------
(* The action a player was seen to take between two ticks.                  *)

DeedsBetween(rec, round, p, from, to) ==
    {x \in rec.deeds : x.round = round /\ x.player = p /\ from < x.tick /\ x.tick <= to}

\* _movement_summary: from the last row at the decision to the last of the
\* window.  A row of another zone is one far enough away.
Moved(rec, round, p, from, to) ==
    LET rows  == RowsOf(rec, round, p)
        start == LatestRow(rows, from)
        end   == LatestRow({x \in rows : x.tick > from}, to)
    IN  \E x \in start, y \in end : x.zone # y.zone

\* classify_action: objectives before utility before movement.
Action(rec, round, p, from, to, initiator) ==
    LET deeds == DeedsBetween(rec, round, p, from, to)
        first == {x \in deeds : x.name # "utility" /\ \A y \in deeds : y.name # "utility" => x.tick <= y.tick}
    IN  CASE deeds = {} /\ RowsOf(rec, round, p) = {}   -> "unknown"
          [] first # {}                                 -> (CHOOSE x \in first : TRUE).name
          [] first = {} /\ deeds # {}                   -> "use_utility"
          [] deeds = {} /\ RowsOf(rec, round, p) # {} /\ Moved(rec, round, p, from, to) ->
                IF initiator THEN "peek" ELSE "move"
          [] OTHER                                      -> "hold"

\* The action label of a window.
ObservedAction(rec, w) ==
    Action(rec, w.round, w.player, w.open,
           IF w.contact < w.open + ActionTicks THEN w.contact ELSE w.open + ActionTicks,
           w.role = "attacker")

==============================================================================
