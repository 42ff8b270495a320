---------------------------- MODULE ReplayPipeline ----------------------------
(***************************************************************************)
(* What a parsed replay is prepared into (backend/app/replay/pipeline.py): *)
(* the moments that can be coached, the events and players the selector    *)
(* shows and the win timeline; and what of it the coach is asked about a   *)
(* player and how the answer is merged (orchestration.py, pi_connector.py, *)
(* merge_pi_output).                                                       *)
(***************************************************************************)
EXTENDS EngagementWindows

CONSTANTS
    CloseTicks,      \* 2.5 s: how long after the contact the reaction is watched
    MaxDecisions,    \* DEFAULT_MAX_DECISIONS
    TimelineEvery,   \* sample_every
    MaxTimeline,     \* DEFAULT_MAX_TIMELINE_POINTS
    MaxKnownEvents,  \* MAX_KNOWN_EVENTS_PER_DECISION
    AnalysesPerPlayer \* _analysis_count_from_env

ASSUME PipelineAssumption ==
    {CloseTicks, MaxDecisions, TimelineEvery, MaxTimeline, MaxKnownEvents, AnalysesPerPlayer}
        \subseteq Nat \ {0}

-----------------------------------------------------------------------------
(* Preparation.                                                             *)

\* The window a player's first contact of a round opened.
IsFirstContact(rec, w, windows) ==
    \A v \in windows :
        v.round = w.round /\ v.player = w.player /\ v # w
        => \/ w.contact < v.contact
           \/ w.contact = v.contact /\ WindowBefore(rec, w, v)

\* Mutant: a round end before the contact is a bound like any other.
CloseOfAlwaysClamped(rec, w) ==
    LET end == rec.rounds[w.round].end
    IN  IF end # None /\ end < w.contact + CloseTicks THEN end ELSE w.contact + CloseTicks

\* The end of the watched reaction: within the round, if its end was told.  The
\* official end is not asked for, and a contact after the end is not bounded.
CloseOf(rec, w) ==
    LET end == rec.rounds[w.round].end
    IN  IF end # None /\ w.contact <= end /\ end < w.contact + CloseTicks
        THEN end ELSE w.contact + CloseTicks

DecisionOf(rec, w) ==
    [round |-> w.round, player |-> w.player, opponent |-> w.opponent, role |-> w.role,
     open |-> w.contact, contact |-> w.contact, close |-> CloseOf(rec, w),
     action |-> Action(rec, w.round, w.player, w.contact, CloseOf(rec, w), w.role = "attacker")]

\* By round, contact and player.
DecisionBefore(c, d) ==
    \/ c.round < d.round
    \/ c.round = d.round /\ c.contact < d.contact
    \/ c.round = d.round /\ c.contact = d.contact /\ c.player < d.player

FirstN(s, n) == SubSeq(s, 1, IF Len(s) < n THEN Len(s) ELSE n)

\* _first_contact_candidates: kills never stand in for the damage.
Candidates(rec) ==
    LET windows == Windows(rec)
        firsts  == {w \in windows : IsFirstContact(rec, w, windows) /\ w.kind = "damage"}
    IN  FirstN(InOrder({DecisionOf(rec, w) : w \in firsts}, DecisionBefore), MaxDecisions)

\* _event_markers: everything the record tells, each once.
Markers(rec) ==
    {[type |-> e.kind, round |-> e.round, tick |-> e.tick, who |-> {e.attacker, e.victim}] :
        e \in {rec.events[i] : i \in DOMAIN rec.events}}
    \cup {[type |-> x.name, round |-> x.round, tick |-> x.tick, who |-> {x.player}] : x \in rec.deeds}

\* A damage marker at the first contact of a candidate.
IsAnchor(marker, candidates) ==
    /\ marker.type = "damage"
    /\ \E k \in DOMAIN candidates :
          LET c == candidates[k]
          IN  marker.round = c.round /\ marker.tick = c.contact /\ marker.who = {c.player, c.opponent}

\* The markers the page highlights: coached contacts, kills and the bomb.
KeyEvents(rec, candidates) ==
    {[type |-> m.type, round |-> m.round, tick |-> m.tick, who |-> m.who,
      anchor |-> IsAnchor(m, candidates)] :
        m \in {x \in Markers(rec) : IsAnchor(x, candidates) \/ x.type \in {"kill", "plant", "defuse"}}}

\* _player_index
PlayerIndex(rec) == {x.player : x \in rec.rows} \cup {w.player : w \in Windows(rec)}

\* What of a round was fought until a tick, but by the world or oneself.
Fought(rec, kind, r, tick) ==
    {i \in DOMAIN rec.events :
        LET e == rec.events[i]
        IN  /\ e.kind = kind /\ e.round = r /\ e.tick <= tick
            /\ ~e.world /\ e.attacker # e.victim}

\* What an estimate of who wins a round is made from: the state at a tick.
Estimate(rec, r, tick) ==
    [round |-> r, tick |-> tick, start |-> rec.rounds[r].start,
     stand |-> {x \in rec.rows : x.round = r /\ x.tick = tick},
     kills |-> Cardinality(Fought(rec, "kill", r, tick)),
     hits  |-> Cardinality(Fought(rec, "damage", r, tick)),
     deeds |-> {x \in rec.deeds : x.round = r /\ x.tick <= tick}]

\* record_to_rows: every so many ticks of a decided round, where both sides have
\* a living player.
TimelineTicks(rec, r) ==
    LET ticks == {x.tick : x \in {y \in rec.rows : y.round = r}}
        both(t) == {Side[x.player] : x \in {y \in rec.rows : y.round = r /\ y.tick = t /\ y.alive}}
                       = {"ct", "t"}
    IN  {t \in ticks : both(t) /\ Cardinality({u \in ticks : u < t}) % TimelineEvery = 0}

Estimates(rec) ==
    UNION {{Estimate(rec, r, t) : t \in TimelineTicks(rec, r)} :
           r \in {q \in Rounds : rec.rounds[q].decided}}

EarlierEstimate(x, y) == x.round < y.round \/ (x.round = y.round /\ x.tick < y.tick)

\* _win_estimator: every stride-th of them, or no timeline if the model cannot
\* be loaded or fails.
TimelineOf(rec) ==
    LET rows   == Estimates(rec)
        stride == (Cardinality(rows) + MaxTimeline - 1) \div MaxTimeline
    IN  IF Cardinality(rows) <= MaxTimeline
        THEN rows
        ELSE {x \in rows : Cardinality({y \in rows : EarlierEstimate(y, x)}) % stride = 0}

\* _pipeline_result
PipelineResult(rec, estimated) ==
    LET candidates == Candidates(rec)
    IN  [candidates |-> candidates, keyEvents |-> KeyEvents(rec, candidates),
         players |-> PlayerIndex(rec),
         timeline |-> IF estimated THEN TimelineOf(rec) ELSE {}]

-----------------------------------------------------------------------------
(* Selecting a player.                                                      *)

\* _filter_for_player
FilterForPlayer(result, p) ==
    [result EXCEPT !.candidates = Picked(@, {k \in DOMAIN @ : @[k].player = p}),
                   !.keyEvents = {m \in @ : p \in m.who}]

\* Evenly spaced indices from the first to the last of n moments.
Spread(n, limit) == [k \in 1..limit |-> ((k - 1) * (n - 1)) \div (limit - 1) + 1]

\* _select_diverse_candidates
SelectDiverse(moments, limit) ==
    CASE Len(moments) <= limit               -> moments
      [] Len(moments) > limit /\ limit = 1   -> <<moments[1]>>
      [] Len(moments) > limit /\ limit # 1   ->
            [k \in 1..limit |-> moments[Spread(Len(moments), limit)[k]]]

-----------------------------------------------------------------------------
(* Asking the coach.                                                        *)

\* Mutant: the coach is told what the round brought later, too.
KnownEventsOfTheRound(d, keyEvents) ==
    LET known == {m \in keyEvents : m.round = d.round /\ d.player \in m.who}
    IN  {m \in known : Cardinality({x \in known : x.tick > m.tick}) < MaxKnownEvents}

\* The events of the payload: known at the end of the reaction, of its round,
\* the player's own, and only the latest.  (Which of several at one tick are
\* the latest is not followed: they are all kept.)
KnownEvents(d, keyEvents) ==
    LET known == {m \in keyEvents : m.tick <= d.close /\ m.round = d.round /\ d.player \in m.who}
    IN  {m \in known : Cardinality({x \in known : x.tick > m.tick}) < MaxKnownEvents}

\* Mutant: the estimate after the reaction.
ProbabilityAtClose(d, timeline) ==
    LET past == {x \in timeline : x.tick <= d.close}
    IN  IF past = {} THEN None
        ELSE CHOOSE x \in past : \A y \in past :
                 y.tick < x.tick \/ (y.tick = x.tick /\ x.round <= y.round)

\* _probability_at_decision: the estimate of the latest tick, whichever round.
ProbabilityAt(d, timeline) ==
    LET past == {x \in timeline : x.tick <= d.open}
    IN  IF past = {} THEN None
        ELSE CHOOSE x \in past : \A y \in past :
                 y.tick < x.tick \/ (y.tick = x.tick /\ x.round <= y.round)

\* _model_payload: what the coach is told under each alias, which is a number.
Payload(selected, result) ==
    [k \in DOMAIN selected |->
        [decision |-> selected[k], events |-> KnownEvents(selected[k], result.keyEvents),
         probability |-> ProbabilityAt(selected[k], result.timeline)]]

\* normalize_coach_response: some analysis, and every one under a known alias.
IsCoachResponse(answer, selected) ==
    /\ answer # <<>>
    /\ \A k \in DOMAIN answer : answer[k] \in DOMAIN selected

\* Mutant: the aliases are counted over all of the player's moments.
AliasedOfAll(alias, selected, candidates) == candidates[alias]

\* The moment merge_pi_output resolves an alias to.
Aliased(alias, selected, candidates) ==
    IF selected # <<>> THEN selected[alias] ELSE candidates[alias]

\* merge_pi_output: the first text of each moment is kept, with the moment it
\* was resolved to; "about" is the alias the coach wrote the text for.
Merge(answer, selected, candidates) ==
    LET resolved == [k \in DOMAIN answer |->
                        [decision |-> Aliased(answer[k], selected, candidates), about |-> answer[k]]]
        fresh(k) == \A j \in 1..(k - 1) : resolved[j].decision # resolved[k].decision
    IN  Picked(resolved, {k \in DOMAIN answer : fresh(k)})
==============================================================================
