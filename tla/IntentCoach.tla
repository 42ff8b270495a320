----------------------------- MODULE IntentCoach -----------------------------
(***************************************************************************)
(* The coaching of what a player says to have intended at one moment       *)
(* (backend/app/coach/intent_engine.py, intent_claims.py): which facts of  *)
(* the replay may be told to the language model, what is accepted of its   *)
(* answer, and which advice is published.  The model picks from given      *)
(* categories and cites facts by name; the prose is the backend's own.     *)
(***************************************************************************)
EXTENDS ReplayPipeline

CONSTANTS
    MaxReaction,   \* MAX_REACTION_SECONDS: the longest reaction that is accepted
    TeamTicks      \* one second: how recent a team mate's position must be

ASSUME ReactionAssumption == MaxReaction \in Nat /\ TeamTicks \in Nat \ {0}

Goals == {"information", "escape", "duel", "support", "space", "reposition"}

\* In the order in which a shared one is looked for.
SafeAdjustments == <<"reassess", "reset", "disengage", "hold", "utility", "controlled">>
Adjustments     == Range(SafeAdjustments)

\* _ALLOWED_ADJUSTMENTS
Allowed == [information |-> {"reset", "disengage", "reassess"},
            escape      |-> {"reset", "disengage", "utility", "reassess"},
            duel        |-> {"controlled", "hold", "utility", "reassess"},
            support     |-> {"hold", "reset", "reassess"},
            space       |-> {"utility", "reset", "reassess"},
            reposition  |-> {"reset", "hold", "disengage", "reassess"}]

\* _DEFAULT_ADJUSTMENT
Default == [information |-> "reassess", escape |-> "reset", duel |-> "controlled",
            support |-> "hold", space |-> "utility", reposition |-> "disengage"]

-----------------------------------------------------------------------------
(* The goals a text states.                                                 *)

\* A known phrase found in the text: where it starts and ends, and its goal.
Phrase == [from : Nat, to : Nat, goal : Goals]

Overlap(m, x) == m.from < x.to /\ x.from < m.to

\* A phrase is considered before those that start later and those it begins with.
TakenBefore(m, x) == m.from < x.from \/ (m.from = x.from /\ m.to > x.to)

\* _classify_stated_intents: phrases that overlap none taken before them.
TakenPhrases(phrases) ==
    LET sorted == InOrder(phrases, TakenBefore)
        taken[n \in 1..Len(sorted)] ==
            \A k \in 1..(n - 1) : taken[k] => ~Overlap(sorted[k], sorted[n])
    IN  {sorted[n] : n \in {k \in 1..Len(sorted) : taken[k]}}

\* Mutant: a text without a known phrase has a goal of its own.
StatedGoalsOrUnclear(phrases) ==
    IF phrases = {} THEN {"unclear"} ELSE {m.goal : m \in TakenPhrases(phrases)}

StatedGoals(phrases) == {m.goal : m \in TakenPhrases(phrases)}

\* _interpret_stated_intent: the model is sure enough, and quotes the player
\* for every goal it names.
InterpretedGoals(confident, interpretations) ==
    IF confident /\ \A x \in interpretations : x.quoted
    THEN {x.goal : x \in interpretations}
    ELSE {}

-----------------------------------------------------------------------------
(* The facts of one moment.                                                 *)

\* The reaction window of a moment is one the pipeline may have made.
HasSafeWindow(d) ==
    d.open <= d.contact /\ d.contact <= d.close /\ d.close <= d.contact + MaxReaction

\* Mutant: kills are facts like any other.
EventsWithKills(d, keyEvents) ==
    {m \in keyEvents : m.tick <= d.close /\ m.round = d.round /\ d.player \in m.who}

\* Events of the round up to the end of the reaction in which the player took
\* part, never how a fight ended.
EventsOfMoment(d, keyEvents) ==
    {m \in keyEvents : m.tick <= d.close /\ m.round = d.round /\ d.player \in m.who
                       /\ m.type # "kill"}

\* _matching_contact_damage
ContactDamage(rec, d) ==
    {e \in Range(rec.events) :
        /\ e.kind = "damage" /\ e.round = d.round /\ e.tick = d.contact
        /\ IF d.role = "victim" THEN e.victim = d.player /\ e.attacker = d.opponent
                                ELSE e.attacker = d.player /\ e.victim = d.opponent}

\* Team mates seen alive within the last second before the contact.
TeamRows(rec, d) ==
    LET mates(p) == {x \in RowsOf(rec, d.round, p) : d.contact - TeamTicks <= x.tick /\ x.alive}
    IN  UNION {LatestRow(mates(p), d.contact) :
                  p \in {q \in Players \ {d.player} : Side[q] = Side[d.player]}}

\* _project_replay_evidence: the state at the contact, the way moved until the
\* end of the reaction, and the team mates near by.
Telemetry(rec, d) ==
    LET contact == ContactDamage(rec, d)
        before  == LatestRow(RowsOf(rec, d.round, d.player), d.contact)
        after   == LatestRow({x \in RowsOf(rec, d.round, d.player) : x.tick >= d.contact}, d.close)
        team    == TeamRows(rec, d)
        placed  == contact # {} \/ before # {}
    IN  (IF placed THEN {[id |-> "contact-state", of |-> contact \cup before]} ELSE {})
        \cup (IF placed /\ after # {} THEN {[id |-> "reaction-movement", of |-> after]} ELSE {})
        \cup (IF placed /\ team # {} THEN {[id |-> "teammate-spacing", of |-> team]} ELSE {})

\* _project_decision_evidence: what the action classifier found.
Classified(d) ==
    {[id |-> "signal", of |-> {d.action}]}
    \cup (IF d.action # "unknown" THEN {[id |-> "observed-action", of |-> {d.action}]} ELSE {})

\* _extract_decision_context: everything that may be cited.
Evidence(rec, d, keyEvents) ==
    {[id |-> "event", of |-> {m}] : m \in EventsOfMoment(d, keyEvents)}
    \cup Classified(d) \cup Telemetry(rec, d)

\* A fact that says more than that there was a contact.
Substantive(fact, d) ==
    CASE fact.id = "event"  -> \A m \in fact.of : m.tick > d.contact \/ ~m.anchor
      [] fact.id = "signal" -> d.action # "unknown"
      [] OTHER              -> TRUE

\* The grenades the bounded inventory shows.
HasUtility(rec, d) ==
    d.player \in rec.grenades /\ \E fact \in Telemetry(rec, d) : fact.id = "contact-state"

\* build_intent_prompt: the moment, the goals and the facts, the players under
\* other names, and nothing else of the match.
Prompt(d, goals, facts) == [decision |-> d, goals |-> goals, facts |-> facts]

\* _clarification_response: the player is asked back, and told no fact.
Clarification == [status |-> "clarify"]

-----------------------------------------------------------------------------
(* The answer of the language model.                                        *)

Targets == {"adjustment", "depth", "assessment"}

\* _validate_claim_targets: what is said to do, and why, has each a claim that
\* says more than the contact; no claim is about what a replay cannot tell.
SupportsEachField(adjustment, claims, d) ==
    /\ {c[2] : c \in claims} = {"adjustment", "depth"}
    /\ \A target \in {"adjustment", "depth"} :
          \E c \in claims : c[2] = target /\ Substantive(c[1], d)
    /\ adjustment = "utility" =>
          \E c \in claims : c[1].id = "contact-state" /\ c[2] = "adjustment"

\* _validate_model_output and validate_evidence_claims: claims are pairs of a
\* fact that was given and what it supports.
IsGrounded(adjustment, claims, facts, d, utility) ==
    /\ {c[1] : c \in claims} \subseteq facts
    /\ adjustment = "utility" => utility
    /\ SupportsEachField(adjustment, claims, d)

\* Mutant: the default of a single goal is published as it is.
ResolveToDefault(goals, adjustment, utility) ==
    CASE adjustment \in UNION {Allowed[g] : g \in goals}          -> adjustment
      [] adjustment \notin UNION {Allowed[g] : g \in goals}
         /\ Cardinality(goals) = 1                                -> Default[CHOOSE g \in goals : TRUE]
      [] OTHER                                                    -> "reassess"

\* _resolve_adjustment_for_intents: the model's choice if a stated goal allows
\* it, else the goal's own default, else what all goals share.
Resolve(goals, adjustment, utility) ==
    LET usable(a) == a # "utility" \/ utility
        shared    == {n \in DOMAIN SafeAdjustments :
                        /\ usable(SafeAdjustments[n])
                        /\ \A g \in goals : SafeAdjustments[n] \in Allowed[g]}
        default   == Default[CHOOSE g \in goals : TRUE]
    IN  IF usable(adjustment) /\ \E g \in goals : adjustment \in Allowed[g]
        THEN adjustment
        ELSE IF Cardinality(goals) = 1
             THEN IF usable(default) THEN default ELSE "reassess"
             ELSE IF shared = {} THEN "reassess" ELSE SafeAdjustments[Least(shared)]

-----------------------------------------------------------------------------
(* What is published.                                                       *)

\* _authoritative_evidence: the order of the facts, those of one kind by name.
Priority(fact) ==
    CASE fact.id = "contact-state"     -> 0
      [] fact.id = "reaction-movement" -> 1
      [] fact.id = "teammate-spacing"  -> 2
      [] fact.id = "observed-action"   -> 3
      [] fact.id = "signal"            -> 4
      [] fact.id = "event"             -> 5

\* render_public_evidence_summary: the first two of the facts that are cited.
Summaries(cited) ==
    {facts \in SUBSET cited :
        /\ Cardinality(facts) = IF Cardinality(cited) < 2 THEN 1 ELSE 2
        /\ \A x \in facts, y \in cited \ facts : Priority(x) <= Priority(y)}

\* _typed_public_evidence_statement: of an event its kind, of the way moved the
\* places, of the team its number.
Statement(fact) ==
    [id |-> fact.id,
     says |-> CASE fact.id = "event"             -> {m.type : m \in fact.of}
                [] fact.id = "reaction-movement" -> {x.zone : x \in fact.of}
                [] fact.id = "teammate-spacing"  -> {Cardinality(fact.of)}
                [] OTHER                         -> fact.of]

\* _render_public_response: the backend's own words for the advice, after the
\* facts that are told.
Published(advice, cited, summary) ==
    [status |-> "advised", advice |-> advice, cited |-> cited,
     told |-> {Statement(fact) : fact \in summary}]
==============================================================================
