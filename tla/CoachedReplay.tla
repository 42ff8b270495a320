---------------------------- MODULE CoachedReplay ----------------------------
(***************************************************************************)
(* One replay on its way from the parsed record to coached moments and to  *)
(* intent coaching about them: ReplayPipeline and IntentCoach composed.    *)
(* The language model may answer anything, fail or time out.               *)
(***************************************************************************)
EXTENDS IntentCoach

CONSTANTS
    Records,          \* the records that are prepared
    CoachedRecords,   \* the records whose coaching is followed
    Texts,            \* what players write: the known phrases in it
    MaxEntries        \* bounds the analyses in one answer of the coach

ASSUME ReplayAssumption ==
    /\ \A rec \in Records : IsRecord(rec)
    /\ CoachedRecords \subseteq Records
    /\ MaxEntries \in Nat

\* A phrase is known for one goal.
ASSUME TextsAssumption ==
    \A text \in Texts :
        /\ text \subseteq Phrase /\ IsFiniteSet(text)
        /\ \A m, x \in text : m.from = x.from /\ m.to = x.to => m = x

VARIABLES
    stage,            \* how far the request in progress is
    record,           \* the parsed replay
    prepared,         \* pipeline result, or None
    request,          \* what the coach is asked: player, selected, result
    analyses,         \* merged analyses of the completed run
    question,         \* the intent request in progress, or None
    reply             \* the last answer to an intent request, or None

replayVars == <<stage, record, prepared, request, analyses, question, reply>>

Stages == {"parsed", "prepared", "coaching", "failed", "coached",
           "interpreting", "advising", "replied"}

ReplayInit ==
    /\ stage = "parsed"
    /\ record \in Records
    /\ prepared = None /\ request = None /\ analyses = <<>>
    /\ question = None /\ reply = None

\* stream_replay_pipeline; the value model may be unavailable.
Prepare ==
    /\ stage = "parsed"
    /\ \E estimated \in BOOLEAN : prepared' = PipelineResult(record, estimated)
    /\ stage' = "prepared"
    /\ UNCHANGED <<record, request, analyses, question, reply>>

\* select_player: a player without a moment cannot be selected.
SelectPlayer(p) ==
    /\ stage \in {"prepared", "failed"} /\ record \in CoachedRecords
    /\ p \in prepared.players
    /\ LET result == FilterForPlayer(prepared, p) IN
          /\ result.candidates # <<>>
          /\ LET selected == SelectDiverse(result.candidates, AnalysesPerPlayer) IN
               request' = [player |-> p, result |-> result, selected |-> selected,
                           told |-> Payload(selected, result)]
    /\ stage' = "coaching"
    /\ UNCHANGED <<record, prepared, analyses, question, reply>>

\* A coach's answer names moments by alias, in any order, some perhaps twice
\* and some perhaps unknown.
Answers == UNION {[1..n -> 0..AnalysesPerPlayer] : n \in 0..MaxEntries}

CoachAnswers(answer) ==
    /\ stage = "coaching"
    /\ IF IsCoachResponse(answer, request.selected)
       THEN /\ analyses' = Merge(answer, request.selected, request.result.candidates)
            /\ stage' = "coached"
       ELSE /\ stage' = "failed" /\ UNCHANGED analyses
    /\ UNCHANGED <<record, prepared, request, question, reply>>

\* run_intent_coaching and evaluate_intent: the moment is one of the completed
\* analyses; a text without a known phrase is put to the language model.
AskIntent(d, text) ==
    /\ stage \in {"coached", "replied"}
    /\ question' = Prompt(d, StatedGoals(text), Evidence(record, d, request.result.keyEvents))
    /\ LET enough == \E fact \in question'.facts : Substantive(fact, d) IN
          IF HasSafeWindow(d) /\ enough
          THEN /\ stage' = IF question'.goals = {} THEN "interpreting" ELSE "advising"
               /\ reply' = None
          ELSE /\ stage' = "replied"
               /\ reply' = [status |-> "insufficient"]
    /\ UNCHANGED <<record, prepared, request, analyses>>

\* The model's reading of the text; without one the player is asked back.
Interpret(confident, interpretations) ==
    /\ stage = "interpreting"
    /\ LET goals == InterpretedGoals(confident, interpretations) IN
          IF goals = {}
          THEN /\ stage' = "replied"
               /\ reply' = Clarification
               /\ UNCHANGED question
          ELSE /\ stage' = "advising"
               /\ question' = [question EXCEPT !.goals = goals]
               /\ UNCHANGED reply
    /\ UNCHANGED <<record, prepared, request, analyses>>

\* The model's advice, published if it is grounded.
Advise(adjustment, claims) ==
    /\ stage = "advising"
    /\ LET utility == HasUtility(record, question.decision)
           cited   == {c[1] : c \in claims}
       IN  IF IsGrounded(adjustment, claims, question.facts, question.decision, utility)
           THEN \E summary \in Summaries(cited) :
                   reply' = Published(Resolve(question.goals, adjustment, utility), cited, summary)
           ELSE reply' = [status |-> "malformed"]
    /\ stage' = "replied"
    /\ UNCHANGED <<record, prepared, request, analyses, question>>

\* No model is configured, it cannot be reached or it is too slow.
ModelFails ==
    \/ /\ stage = "coaching"
       /\ stage' = "failed"
       /\ UNCHANGED <<record, prepared, request, analyses, question, reply>>
    \/ /\ stage = "advising"
       /\ stage' = "replied"
       /\ reply' = [status |-> "unavailable"]
       /\ UNCHANGED <<record, prepared, request, analyses, question>>

\* What the model was given to cite.
Facts == IF question = None THEN {} ELSE question.facts

ReplayNext ==
    \/ Prepare
    \/ \E p \in Players : SelectPlayer(p)
    \/ \E answer \in Answers : CoachAnswers(answer)
    \/ \E k \in DOMAIN analyses, text \in Texts : AskIntent(analyses[k].decision, text)
    \/ \E confident, quoted \in BOOLEAN, goal \in Goals :
          Interpret(confident, {[goal |-> goal, quoted |-> quoted]})
    \/ \E adjustment \in Adjustments, x, y \in Facts :
          Advise(adjustment, {<<x, "adjustment">>, <<y, "depth">>})
    \/ \E x \in Facts : Advise("reset", {<<x, target>> : target \in Targets})
    \/ \E x \in Facts : Advise("reset", {<<x, "adjustment">>} \cup (Facts \X {"depth"}))
    \/ \E x \in Facts, target \in Targets : Advise("reset", {<<x, target>>})
    \/ ModelFails

ReplaySpec == ReplayInit /\ [][ReplayNext]_replayVars

-----------------------------------------------------------------------------
(* Properties.                                                              *)

\* The record as it stood at a tick, the bounds of its rounds apart, and what it
\* tells after it.
UpTo(rec, tick) ==
    [rec EXCEPT !.events = Picked(@, {n \in DOMAIN @ : @[n].tick <= tick}),
                !.rows = {x \in @ : x.tick <= tick}, !.deeds = {x \in @ : x.tick <= tick}]
After(rec, tick) == [rec EXCEPT !.events = Picked(@, {n \in DOMAIN @ : @[n].tick > tick})]

ReplayTypeOK ==
    /\ stage \in Stages
    /\ record \in Records /\ IsRecord(record)
    /\ request # None => request.player \in Players /\ request.selected # <<>>
    /\ \A k \in DOMAIN analyses : analyses[k].decision.player \in Players
    /\ question # None => question.goals \subseteq Goals
    /\ reply # None =>
          reply.status \in {"advised", "clarify", "insufficient", "malformed", "unavailable"}

\* The damage a player took part in, as first told, that leaves time to decide.
FirstDamage(rec, round, p) ==
    LET mine == {e \in Range(rec.events) :
                    Real(e) /\ e.kind = "damage" /\ e.round = round /\ p \in {e.attacker, e.victim}}
    IN  IF mine = {} THEN None ELSE Least({e.tick : e \in mine})

HadTime(rec, round, tick) ==
    LET end == EndOf(rec.rounds[round])
    IN  end = None \/ (IF tick - Lead > rec.rounds[round].start
                       THEN tick - Lead ELSE rec.rounds[round].start) < end

\* The windows and the moments before a limit cuts them.
OpenWindows(rec) ==
    {w \in {WindowOf(rec, x[1], x[2]) : x \in Anchors(rec) \X {"attacker", "victim"}} :
        w.open < w.until}

FirstWindows(rec) ==
    {w \in Windows(rec) : IsFirstContact(rec, w, Windows(rec)) /\ w.kind = "damage"}

Decisions(rec) == {DecisionOf(rec, w) : w \in FirstWindows(rec)}

\* No limit cuts what the record gives.
WithinLimits(rec) ==
    /\ Cardinality(OpenWindows(rec)) <= MaxWindows
    /\ Cardinality(Decisions(rec)) <= MaxDecisions

\* Every player has one moment per round, the very first damage with anybody,
\* however the fights of others before and after it are debounced, and the
\* page highlights it: unless a limit cuts it or the round was over.
MomentsAreFirstContacts ==
    stage = "prepared" =>
        \A p \in Players, r \in Rounds :
            LET first == FirstDamage(record, r, p)
                own   == {c \in Range(prepared.candidates) : c.player = p /\ c.round = r}
            IN  /\ first = None => own = {}
                /\ first # None /\ HadTime(record, r, first) => own # {}
                /\ \A c \in own : c.open = first /\ c.contact = first
                /\ Cardinality(own) <= 1
                /\ \A c \in own : \E m \in prepared.keyEvents :
                      m.anchor /\ m.tick = first /\ m.round = r /\ p \in m.who

\* A window's features are the same whatever happens after the decision, and
\* its labels the same whatever happened before: nothing the value model is to
\* predict leaks into what it predicts from.
FeaturesPrecedeLabels ==
    stage = "parsed" =>
        \A w \in Windows(record) :
            /\ Features(UpTo(record, w.open), w) = Features(record, w)
            /\ Labels(After(record, w.open), w) = Labels(record, w)

\* The moments chosen for a player are as many as there may be, in order, and
\* reach from the first to the last of the match.
SelectionSpansTheMatch ==
    stage = "coaching" =>
        LET moments == request.result.candidates
            chosen  == request.selected
        IN  /\ Len(chosen) = IF Len(moments) < AnalysesPerPlayer THEN Len(moments) ELSE AnalysesPerPlayer
            /\ \A j, k \in DOMAIN chosen : j < k => DecisionBefore(chosen[j], chosen[k])
            /\ chosen[1] = moments[1]
            /\ AnalysesPerPlayer > 1 => chosen[Len(chosen)] = moments[Len(moments)]

\* What is shown under a moment was written about that moment, all moments
\* shown are different and the player's own, and they include the first; and
\* the moments the coach was asked about span the match.
CoachingIsAboutItsMoment ==
    /\ SelectionSpansTheMatch
    /\ stage = "coached" =>
          /\ \A k \in DOMAIN analyses :
                /\ analyses[k].decision = request.selected[analyses[k].about]
                /\ analyses[k].decision.player = request.player
          /\ \A j, k \in DOMAIN analyses :
                j # k => analyses[j].decision # analyses[k].decision
          /\ analyses # <<>>

\* Any moment that is shown can be asked about: what the pipeline makes of it
\* passes the intent engine's own checks and leaves something to cite.
ShownMomentsCanBeExplained ==
    reply # None => reply.status # "insufficient"

\* The moment as the pipeline makes it of what is left of the record.  It is told
\* what a player did as "unknown" if their first position of the round is cut.
IsMomentOf(d, blind) ==
    \E c \in Range(Candidates(blind)) :
        \/ c = d
        \/ c = [d EXCEPT !.action = "unknown"] /\ RowsOf(blind, d.round, d.player) = {}

\* What the coach is told of a moment does not give away what came of it.  Of the
\* record cut at the end of the reaction the pipeline makes the same moment and
\* the same events, the highlighted ones too; the win probability is one that
\* could be estimated, from the same state, of the record cut at the contact
\* (which of the sampled states it is, does depend on how many the match has).
\* What the language model may cite is what the cut record gives, and what it
\* would give if nobody had been killed.
FactsAreOutcomeBlind ==
    /\ stage = "coaching" =>
          \A k \in DOMAIN request.told :
              LET d     == request.selected[k]
                  told  == request.told[k]
                  blind == UpTo(record, d.close)
              IN  /\ IsMomentOf(d, blind)
                  /\ told.events = KnownEvents(d, KeyEvents(blind, Candidates(blind)))
                  /\ told.probability # None => told.probability \in Estimates(UpTo(record, d.open))
    /\ stage = "advising" =>
          LET d     == question.decision
              blind == [UpTo(record, d.close) EXCEPT
                           !.events = Picked(@, {n \in DOMAIN @ : @[n].kind # "kill"})]
          IN  /\ IsMomentOf(d, blind)
              /\ Evidence(blind, d, KeyEvents(blind, Candidates(blind))) = question.facts

\* Published advice suits a goal the player stated and a grenade that is there,
\* and cites facts of the moment, one of them more than the contact; it tells
\* what it cites of that moment's telemetry before any event, in whatever order
\* the model cites it, and tells of no kill.
AdviceIsGrounded ==
    reply # None /\ reply.status = "advised" =>
        /\ \E g \in question.goals : reply.advice \in Allowed[g]
        /\ reply.advice = "utility" => HasUtility(record, question.decision)
        /\ reply.cited \subseteq Evidence(record, question.decision, request.result.keyEvents)
        /\ \E fact \in reply.cited : Substantive(fact, question.decision)
        /\ \A fact \in reply.cited : fact.id = "contact-state" => Statement(fact) \in reply.told
        /\ \A said \in reply.told : said.id = "event" =>
              /\ "kill" \notin said.says
              /\ Cardinality({fact.id : fact \in reply.cited} \ {"event"}) < 2
==============================================================================
