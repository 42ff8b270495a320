----------------------------- MODULE ReplayDatabase -----------------------------
(***************************************************************************)
(* The SQLite database models are trained from (replay_engine/training/    *)
(* build_replay_db.py, replay_cleaning.py, full_features.py,               *)
(* infer_actions.py, extract_features.py, replay_repository.py): a build   *)
(* loads the parsed records of a JSONL file, cleaned or as they are, into  *)
(* the tables in one transaction, and may stop anywhere.  A second build   *)
(* waits for the first one's lock and gives up: one is modelled.           *)
(***************************************************************************)
EXTENDS Integers, FiniteSets, Sequences, Bags, Functions, SequencesExt

CONSTANTS
    Inputs,          \* the JSONL files: sequences of records, each of another demo
    SampleEvery,     \* --sample-every
    DecisionWindow,  \* --decision-window-seconds, in ticks
    ActionWindow,    \* --action-window-seconds, in ticks
    MaxRoundTicks,   \* --max-round-seconds, in ticks
    TeamSize,        \* players of a team in a sidecar without rosters
    MaxCommands      \* bounds the commands run on the database

ASSUME DatabaseAssumption ==
    /\ SampleEvery \in Nat \ {0} /\ DecisionWindow \in Nat /\ ActionWindow \in Nat \ {0}
    /\ MaxRoundTicks \in Nat /\ TeamSize \in Nat /\ MaxCommands \in Nat

VARIABLES
    tables,     \* what is committed
    building,   \* the records of the build in progress, as a set of at most one
    commands    \* how many commands were run

databaseVars == <<tables, building, commands>>

\* A record: its demo and match, its rounds, the rows of its players at ticks
\* and its events, each with its place in the file and whether somebody else,
\* the player hurt or the world (a fall, the bomb) did it.
IsReplayRecord(rec) ==
    /\ rec = [source |-> rec.source, match |-> rec.match, rounds |-> rec.rounds,
              ticks |-> rec.ticks, events |-> rec.events]
    /\ IsFiniteSet(rec.ticks) /\ IsFiniteSet(rec.events)
    /\ \A r \in rec.rounds : r.winner \in {"ct", "t", "none"}
    /\ \A x \in rec.ticks  : /\ x.nth \in Nat /\ x.tick \in Int
                             /\ x.side \in {"ct", "t"} /\ x.alive \in BOOLEAN
    /\ \A e \in rec.events : /\ e.tick \in Int /\ e.by \in {"other", "self", "world"}
                             /\ e.kind \in {"kill", "damage", "plant", "shot"}

MatchOf(rec) == IF rec.match = "" THEN rec.source ELSE rec.match

\* The names demos are grouped by.  A file has one record of a demo.
RecordsTold == UNION {Range(input) : input \in Inputs}
DemoNames == UNION {{rec.source, MatchOf(rec)} : rec \in UNION {Range(input) : input \in Inputs}}

ASSUME InputsAssumption ==
    /\ IsFiniteSet(DemoNames)
    /\ \A rec \in RecordsTold : IsReplayRecord(rec)
    /\ \A input \in Inputs : input \in Seq(Range(input)) /\
          \A m, n \in DOMAIN input : input[m].source = input[n].source => m = n

-----------------------------------------------------------------------------
(* Cleaning.                                                                *)

\* audit_record: a winner, a start, an end after it, and not too long.
IsSoundRound(r) ==
    /\ r.winner # "none" /\ r.start >= 0 /\ r.end >= r.start
    /\ r.end - r.start <= MaxRoundTicks

SameTick(x, y) == x.round = y.round /\ x.tick = y.tick /\ x.player = y.player

FirstOnly(rows) == {x \in rows : ~\E y \in rows : SameTick(x, y) /\ y.nth < x.nth}

\* clean_record.  The events by name, the shots here, are not looked at.
Cleaned(rec) ==
    LET sound == {r \in rec.rounds : IsSoundRound(r)}
        kept  == {r.num : r \in sound}
    IN  [source |-> rec.source, match |-> rec.match, rounds |-> sound,
         ticks  |-> FirstOnly({x \in rec.ticks : x.round \in kept}),
         events |-> {e \in rec.events : e.kind = "shot" \/ e.round \in kept}]

-----------------------------------------------------------------------------
(* The rows models learn from.                                              *)

TicksOf(s) == {x.tick : x \in s}
Earliest(ticks) == CHOOSE t \in ticks : \A u \in ticks : t <= u

OfRound(s, r)      == {x \in s : x.round = r.num}

\* _real_kill: nobody fought in a kill or a damage by the world or by oneself.
IsReal(e) == e.kind \in {"kill", "damage"} => e.by = "other"

EventsOf(rec, r, kinds) == {e \in OfRound(rec.events, r) : e.kind \in kinds /\ IsReal(e)}
SeenBy(s, tick)    == Cardinality({x \in s : x.tick <= tick})

\* Every n-th of the round's ticks.
SampledTicks(rec, r) ==
    LET ticks == TicksOf(OfRound(rec.ticks, r))
    IN  {t \in ticks : Cardinality({u \in ticks : u < t}) % SampleEvery = 0}

Near(tick, contacts) ==
    contacts # {} /\ tick >= Earliest(contacts) /\ tick <= Earliest(contacts) + DecisionWindow

\* The first real damage, or without damages the first real kill.
Contact(rec, r) ==
    LET damages == EventsOf(rec, r, {"damage"})
    IN  TicksOf(IF damages # {} THEN damages ELSE EventsOf(rec, r, {"kill"}))

Living(rec, r, tick, side) ==
    Cardinality({x \in OfRound(rec.ticks, r) : x.tick = tick /\ x.side = side /\ x.alive})

SnapshotAt(rec, r, tick) ==
    [source |-> rec.source, group |-> MatchOf(rec), round |-> r.num, tick |-> tick,
     label |-> r.winner,
     ct |-> Living(rec, r, tick, "ct"), t |-> Living(rec, r, tick, "t"),
     kills   |-> SeenBy(EventsOf(rec, r, {"kill"}), tick),
     hits    |-> SeenBy(EventsOf(rec, r, {"damage"}), tick),
     shots   |-> SeenBy(EventsOf(rec, r, {"shot"}), tick),
     planted |-> SeenBy(EventsOf(rec, r, {"plant"}), tick) > 0]

\* record_to_rows, without the states in which a team is dead.
SnapshotRows(rec) ==
    UNION {{row \in {SnapshotAt(rec, r, t) : t \in {u \in SampledTicks(rec, r) : Near(u, Contact(rec, r))}} :
               row.ct > 0 /\ row.t > 0} :
           r \in {q \in rec.rounds : q.winner # "none"}}

\* record_to_event_rows of a sidecar, which has no ticks: the states right
\* after each kill and plant, in the order of the file.
NotAfter(e, f) ==
    LET rank(x) == IF x.kind = "kill" THEN 1 ELSE 2 IN
    \/ e.tick < f.tick
    \/ e.tick = f.tick /\ (rank(e) < rank(f) \/ (rank(e) = rank(f) /\ e.nth <= f.nth))

EventRowAt(rec, r, e) ==
    LET before    == {f \in EventsOf(rec, r, {"kill", "plant"}) : NotAfter(f, e)}
        kills     == {f \in before : f.kind = "kill"}
        left(side) == LET dead == Cardinality({f \in kills : f.side = side})
                      IN  IF dead > TeamSize THEN 0 ELSE TeamSize - dead
    IN  [source |-> rec.source, group |-> rec.source, round |-> r.num, tick |-> e.tick,
         label |-> r.winner, ct |-> left("ct"), t |-> left("t"),
         kills |-> Cardinality(kills), hits |-> 0, shots |-> 0, planted |-> before # kills]

EventRows(rec) ==
    UNION {LET kills == TicksOf(EventsOf(rec, r, {"kill"})) IN
           {row \in {EventRowAt(rec, r, e) : e \in {f \in EventsOf(rec, r, {"kill", "plant"}) : Near(f.tick, kills)}} :
               row.ct > 0 /\ row.t > 0} :
           r \in {q \in rec.rounds : q.winner # "none"}}

\* infer_actions: from where a living player is to where they are, alive, at
\* least a window later.  Positions are far enough apart for a move.
InferredActions(rec) ==
    LET later(x) == {y \in rec.ticks : /\ y.round = x.round /\ y.player = x.player /\ y.alive
                                       /\ y.tick >= x.tick + ActionWindow}
        next(x)  == CHOOSE y \in later(x) : \A z \in later(x) : y.tick < z.tick \/ (y.tick = z.tick /\ y.nth <= z.nth)
    IN  {[source |-> rec.source, nth |-> x.nth, until |-> next(x).tick,
          action |-> IF next(x).place = x.place THEN "hold" ELSE "move"] :
         x \in {y \in rec.ticks : y.alive /\ later(y) # {}}}

-----------------------------------------------------------------------------
(* Building.                                                                *)

EmptyTables == [replays |-> {}, rounds |-> {}, ticks |-> {}, snapshots |-> {},
                events |-> EmptyBag, actions |-> EmptyBag]

DatabaseInit == tables = EmptyTables /\ building = {} /\ commands = 0

Run == commands < MaxCommands /\ commands' = commands + 1

Tagged(rec, s) == {[source |-> rec.source, row |-> x] : x \in s}

\* The records are of different demos.  Rows of a demo that are there already
\* are kept (replays, ticks), replaced (rounds) or added once more (events,
\* actions).
InsertAll(db, recs) ==
    [replays   |-> {r \in db.replays : \A rec \in recs : r.source # rec.source}
                       \cup {[source |-> rec.source, match |-> MatchOf(rec)] : rec \in recs},
     rounds    |-> {r \in db.rounds :
                       \A rec \in recs : \A q \in rec.rounds : r.source # rec.source \/ r.row.num # q.num}
                       \cup UNION {Tagged(rec, rec.rounds) : rec \in recs},
     ticks     |-> db.ticks \cup {x \in UNION {Tagged(rec, FirstOnly(rec.ticks)) : rec \in recs} :
                       \A y \in db.ticks : y.source # x.source \/ ~SameTick(x.row, y.row)},
     snapshots |-> db.snapshots \cup UNION {SnapshotRows(rec) : rec \in recs},
     events    |-> db.events (+) SetToBag(UNION {Tagged(rec, rec.events) : rec \in recs}),
     actions   |-> db.actions (+) SetToBag(UNION {InferredActions(rec) : rec \in recs})]

\* Mutant: snapshots that are there already are passed over.
CollidesNever(db, rec) == FALSE

\* The unique index over replay, round and tick.
Collides(db, rec) ==
    \E s \in db.snapshots, n \in SnapshotRows(rec) :
        s.source = n.source /\ s.round = n.round /\ s.tick = n.tick

\* build_database to the start of its transaction.  The tables are dropped by a
\* script, which is committed at once.
StartBuild(input, replace, clean) ==
    /\ building = {} /\ Run
    /\ tables' = IF replace THEN EmptyTables ELSE tables
    /\ building' = {IF clean THEN [n \in DOMAIN input |-> Cleaned(input[n])] ELSE input}

\* The records are inserted one after the other and seen by others all at once.
\* As they are of different demos, none collides with another of its file.
CommitBuild ==
    \E b \in building :
        /\ \A rec \in Range(b) : ~Collides(tables, rec)
        /\ tables' = InsertAll(tables, Range(b)) /\ building' = {}
        /\ UNCHANGED commands

\* The index is violated, or the process stops: nothing is committed.
AbandonBuild == building # {} /\ building' = {} /\ UNCHANGED <<tables, commands>>

DatabaseNext ==
    \/ \E input \in Inputs, replace, clean \in BOOLEAN : StartBuild(input, replace, clean)
    \/ CommitBuild \/ AbandonBuild

-----------------------------------------------------------------------------
(* Properties.                                                              *)

DatabaseTypeOK ==
    /\ \A x \in BagToSet(tables.events) : x.source \in {r.source : r \in tables.replays}
    /\ Cardinality(building) <= 1 /\ commands \in 0..MaxCommands

\* A demo is parsed to one record, whichever file it is in, and rows told twice
\* agree on who lives.  No code checks either.
DemosAreToldAlike == \A rec, other \in RecordsTold : rec.source = other.source => rec = other
RepeatsAgree(rec) ==
    \A x, y \in rec.ticks : SameTick(x, y) => x.alive = y.alive /\ x.side = y.side

\* What a round's snapshots say is what the database says of the round,
\* whatever builds ended, failed or stopped before: its winner is the label, its
\* kills and damages are stored once each, and the snapshots count those of them
\* until their tick that somebody else did.
SnapshotsMatchTheirRounds ==
    \A s \in tables.snapshots :
        LET stored == {x \in BagToSet(tables.events) : x.source = s.source /\ x.row.round = s.round}
            kills  == {x \in stored : x.row.kind = "kill"}
            hits   == {x \in stored : x.row.kind = "damage"}
        IN  /\ \E r \in tables.rounds : r.source = s.source /\ r.row.num = s.round /\ r.row.winner = s.label
            /\ \A x \in kills \cup hits : tables.events[x] = 1
            /\ Cardinality({x \in kills : x.row.by = "other" /\ x.row.tick <= s.tick}) = s.kills
            /\ Cardinality({x \in hits : x.row.by = "other" /\ x.row.tick <= s.tick}) = s.hits

\* A record as it was until a tick; who won is the label.
RecordUntil(rec, tick) == [rec EXCEPT !.ticks  = {x \in @ : x.tick <= tick},
                                      !.events = {e \in @ : e.tick <= tick}]

\* A row for the round-value model is the same if nothing after it had happened.
RowsAreBlind(rec) ==
    /\ \A row \in SnapshotRows(rec) : row \in SnapshotRows(RecordUntil(rec, row.tick))
    /\ \A row \in EventRows(rec) : row \in EventRows(RecordUntil(rec, row.tick))
===============================================================================
