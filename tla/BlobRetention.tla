---------------------------- MODULE BlobRetention ----------------------------
(***************************************************************************)
(* The daily sweep of old artifacts (api/cron/blob-retention/route.ts)     *)
(* beside the requests of ReplayStore.  It lists both prefixes, inspects   *)
(* the groups one at a time, oldest first, and deletes in one call at the  *)
(* end; requests go on meanwhile.                                          *)
(***************************************************************************)
EXTENDS ReplayStore

CONSTANTS
    MaxScanned,    \* maxScanned: blobs listed of each prefix
    MaxDeleted,    \* maxDeleted: blobs deleted by one sweep
    FailedDays,    \* days a failed analysis is kept
    AnalysisDays,  \* days another analysis is kept
    ReplayDays     \* days a replay is kept

ASSUME RetentionAssumption ==
    /\ {MaxScanned, MaxDeleted, FailedDays, AnalysisDays, ReplayDays} \subseteq Nat \ {0}
    /\ FailedDays <= AnalysisDays

VARIABLES
    sweep,         \* the sweep in progress (with the uploads it found due), or None
    swept          \* history: groups of which something was deleted

vars == <<storeVars, sweep, swept>>

\* The order of a group's files by their paths.
PathRank == [coaching |-> 1, manifest |-> 2, visualization |-> 3, result |-> 1, state |-> 2]

FilesOf(g) == {f \in Files : Stored(g, f)}

\* The first n files of a group.
FirstFiles(g, n) ==
    {f \in FilesOf(g) : Cardinality({h \in FilesOf(g) : PathRank[h] <= PathRank[f]}) <= n}

Blobs(G) == UNION {{g} \X FilesOf(g) : g \in G}

\* listPrefix: all files of a prefix, or the first MaxScanned by path.  The
\* groups' ids are random, so any group may be the one that is cut.
Listings(prefix) ==
    IF Cardinality(Blobs(prefix)) <= MaxScanned
    THEN {[g \in prefix |-> FilesOf(g)]}
    ELSE {[g \in prefix |->
             CASE g \in x[1] -> FilesOf(g)
               [] g = x[2]   -> FirstFiles(g, MaxScanned - Cardinality(Blobs(x[1])))
               [] OTHER      -> {}] :
           x \in {y \in (SUBSET prefix) \X prefix :
                    /\ y[2] \notin y[1]
                    /\ Cardinality(Blobs(y[1])) <= MaxScanned
                    /\ Cardinality(Blobs(y[1] \cup {y[2]})) > MaxScanned}}

\* latestUploadMs: the age of the listed file that was written last.
ListedAge(g, files) == CHOOSE n \in {age[g][f] : f \in files} : \A f \in files : n <= age[g][f]

\* Older than the shortest time anything of its kind is kept.
Expired(g, days) == days >= (IF g \in Jobs THEN FailedDays ELSE ReplayDays)

Idling == sweep = None

\* Both prefixes are listed; a group that is too recent is not inspected.
SweepLists ==
    /\ Idling
    /\ \E jobs \in Listings(Jobs), replays \in Listings(Replays) :
          LET listed == [g \in Groups |-> IF g \in Jobs THEN jobs[g] ELSE replays[g]]
              days   == [g \in Groups |-> IF listed[g] = {} THEN 0 ELSE ListedAge(g, listed[g])]
              due    == {g \in Groups : listed[g] # {} /\ Expired(g, days[g])}
          IN  sweep' = [todo |-> due, paths |-> {}, errors |-> FALSE, due |-> due \cap Uploads,
                        listed |-> [g \in due |-> listed[g]], days |-> [g \in due |-> days[g]]]
    /\ UNCHANGED <<storeVars, swept>>

\* Analyses before replays, the oldest first; ties in any order.
Following(g) ==
    LET kind == IF sweep.todo \cap Jobs # {} THEN sweep.todo \cap Jobs ELSE sweep.todo
    IN  g \in kind /\ \A h \in kind : sweep.days[g] >= sweep.days[h]

\* The sweep when the groups in todo are left to inspect.
Remaining(todo, paths) ==
    [todo |-> todo, paths |-> paths, errors |-> sweep.errors, due |-> sweep.due,
     listed |-> [g \in todo |-> sweep.listed[g]], days |-> [g \in todo |-> sweep.days[g]]]

\* What the inspection keeps: an analysis that did not fail and is not old
\* enough, and a pinned sample.  The artifact is read now, if it was listed.
Kept(g) ==
    \/ /\ g \in Jobs /\ sweep.days[g] < AnalysisDays
       /\ ~("state" \in sweep.listed[g] /\ Stored(g, "state") /\ store[g]["state"].status = "failed")
    \/ g = Sample /\ "coaching" \in sweep.listed[g] /\ Stored(g, "coaching")

\* Mutant: the limit is reached by a group that would just fit.
BeyondLimitOrJustFits(n) == n >= MaxDeleted

BeyondLimit(n) == n > MaxDeleted

\* A group beyond the limit ends the inspection of its kind.
SweepInspects(g) ==
    /\ ~Idling /\ sweep.todo # {} /\ Following(g)
    /\ LET found == {g} \X sweep.listed[g]
           full  == BeyondLimit(Cardinality(sweep.paths) + Cardinality(found))
           rest  == IF ~Kept(g) /\ full
                    THEN IF g \in Jobs THEN sweep.todo \ Jobs ELSE sweep.todo \ Replays
                    ELSE sweep.todo \ {g}
       IN  sweep' = Remaining(rest, IF Kept(g) \/ full THEN sweep.paths
                                    ELSE sweep.paths \cup found)
    /\ UNCHANGED <<storeVars, swept>>

\* A group whose artifact cannot be read is kept.
InspectionFails(g) ==
    /\ ~Idling /\ sweep.todo # {} /\ Following(g)
    /\ sweep' = [Remaining(sweep.todo \ {g}, sweep.paths) EXCEPT !.errors = TRUE]
    /\ UNCHANGED <<storeVars, swept>>

SweepDeletes ==
    /\ ~Idling /\ sweep.todo = {} /\ sweep.paths # {}
    /\ store' = [g \in Groups |-> [f \in Files |->
                    IF <<g, f>> \in sweep.paths THEN None ELSE store[g][f]]]
    /\ age' = [g \in Groups |-> [f \in Files |->
                    IF <<g, f>> \in sweep.paths THEN 0 ELSE age[g][f]]]
    /\ swept' = swept \cup {path[1] : path \in sweep.paths}
    /\ sweep' = None
    /\ UNCHANGED <<requests, tasks, known, source, coached>>

\* There is nothing to delete, the deletion is refused, or the run is a dry one.
SweepEndsIdle ==
    /\ ~Idling /\ sweep.todo = {}
    /\ sweep' = None
    /\ UNCHANGED <<storeVars, swept>>

\* Days after which nothing tells the ages of a group's files apart.
MaxAge(g) == IF g \in Jobs THEN AnalysisDays ELSE ReplayDays

\* A day passes; a request and a sweep last minutes.
Day ==
    /\ ~Busy /\ Idling
    /\ age' = [g \in Groups |-> [f \in Files |->
                  IF Stored(g, f) /\ age[g][f] < MaxAge(g) THEN age[g][f] + 1 ELSE age[g][f]]]
    /\ UNCHANGED <<store, requests, tasks, known, source, coached, sweep, swept>>

Init == StoreInit /\ sweep = None /\ swept = {}

Request == (ClientStep \/ \E t \in Tasks : WriterStep(t)) /\ UNCHANGED <<sweep, swept>>

Next ==
    \/ Request
    \/ SweepLists
    \/ \E g \in Groups : SweepInspects(g) \/ InspectionFails(g)
    \/ SweepDeletes \/ SweepEndsIdle
    \/ Day

Spec == Init /\ [][Next]_vars

-----------------------------------------------------------------------------
(* Properties.                                                              *)

StorageTypeOK ==
    /\ store \in [Groups -> [Files -> Content \cup {None}]]
    /\ age \in [Groups -> [Files -> Nat]]
    /\ tasks \in [Tasks -> Task \cup {None}]
    /\ known \in SUBSET Uploads
    /\ source \in [Jobs -> Replays \cup {None}]
    /\ coached \in SUBSET Replays
    /\ sweep = None \/ /\ sweep.todo \in SUBSET Groups
                       /\ sweep.paths \in SUBSET (Groups \X Files)
    /\ swept \in SUBSET Groups

\* The full replay, outcomes included, is released only after a successful run
\* about it (API.md's "false until coaching completes successfully"): no put
\* of a manifest, first or repeated, and no copy read earlier unlocks it.
ReleasedAfterCoaching ==
    \A r \in Replays : Stored(r, "manifest") /\ store[r]["manifest"].unlocked => r \in coached

\* An unlocked upload stays unlocked as long as its manifest is there: the
\* writes of its ingestion, repeated ones included, are over before anybody
\* can run its analysis.  (A sample's id is known before, see README.)
UploadStaysUnlocked ==
    [][\A r \in Uploads :
          Stored(r, "manifest") /\ store[r]["manifest"].unlocked
          => (store'[r]["manifest"] # None => store'[r]["manifest"].unlocked)]_vars

\* A manifest that says "ready" has its visualization and its coaching
\* artifact, unless the sweep took one of them.
ReadyIsBacked ==
    \A r \in Replays \ swept :
        Stored(r, "manifest") /\ store[r]["manifest"].status = "ready"
        => Stored(r, "visualization") /\ Stored(r, "coaching")

\* A sample answered from its cache has all its artifacts, whatever the
\* request that wrote them, or another one, is doing between the two reads.
CachedSampleIsWhole ==
    \A t \in Tasks :
        ~Idle(t) /\ tasks[t].step = "prepare" /\ tasks[t].manifest # None
        => Stored(Sample, "visualization") /\ Stored(Sample, "coaching")

\* Whatever is found ready, by a reader or by a cache, is complete.
ReadyIsWhole == ReadyIsBacked /\ CachedSampleIsWhole

\* The sweep never takes the pinned sample, whole or in part, although it may
\* list it in part and decides from an earlier read.
PinnedSampleIsKept == Sample \notin swept

\* The limits starve nobody: a sweep that inspected everything it listed, and
\* listed an expired upload, deletes something, so that every sweep brings the
\* deletion of that upload nearer.
SweepMakesRoom ==
    ~Idling /\ sweep.todo = {} /\ ~sweep.errors /\ sweep.due # {} => sweep.paths # {}

\* A sweep takes nothing it must keep and neglects nothing it should take.
SweepIsFair == PinnedSampleIsKept /\ SweepMakesRoom
==============================================================================
