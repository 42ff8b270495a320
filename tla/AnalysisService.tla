--------------------------- MODULE AnalysisService ---------------------------
(***************************************************************************)
(* One analysis job of backend/app/orchestration.py: preparing a replay,   *)
(* coaching its players, caching the job as state.json and result.json,    *)
(* and what a process finds when it starts again.                          *)
(*                                                                         *)
(* An instance is one server process.  A filesystem deployment has one and *)
(* restores the job as it starts; a Blob deployment has several that share *)
(* one store and restore the job when a request first asks for it.  Jobs   *)
(* share nothing but the dictionary that holds them, so one job stands for *)
(* all.                                                                    *)
(*                                                                         *)
(* A critical section of the job's lock is a sequence of steps, and the    *)
(* process can stop between any two:                                       *)
(*    change the job in memory; write state.json; write result.json; log   *)
(***************************************************************************)
EXTENDS AnalysisJob, FiniteSets, Naturals

CONSTANTS
    Instances,    \* server processes that can serve the job
    Faults,       \* writes that can fail: see WriteFaults
    MaxCrashes    \* bound: how often processes stop

(***************************************************************************)
(* "cache": an OSError writing a local artifact.  "blob": the Blob store's *)
(* BlobStorageConfigurationError, a RuntimeError.  "log": an OSError       *)
(* appending to the job's log file.                                        *)
(***************************************************************************)
WriteFaults == {"cache", "blob", "log"}

ASSUME BoundAssumption == Faults \subseteq WriteFaults /\ MaxCrashes \in Nat

VARIABLES
    job,       \* [Instances -> Job or None]: each process's _jobs entry
    section,   \* [Instances -> Section or None]: who holds the lock, and where
    calls,     \* [Instances -> set of Call]: requests waiting for the provider
    stored,    \* state.json and result.json
    intake,    \* the request that prepares the job
    owner,     \* [RunIds -> Players or None]: the player a run was issued for
    replied,   \* [RunIds -> Replies]: what the request of a run was told
    crashes

vars == <<job, section, calls, stored, intake, owner, replied, crashes>>

-----------------------------------------------------------------------------
(* The requests of the job, and what a thread that holds its lock is doing. *)

Replies   == {"none", "done", "error"}

Call == [player : Players, run : RunIds]

Operations == {"receive", "ready", "prepare_failed",
               "select", "complete", "fail", "restore"}
Section == [op : Operations, player : Players \cup {None}, run : Result,
            step : {"state", "result", "log", "load"}, before : Job]

ASSUME NoSectionAssumption == None \notin Section

-----------------------------------------------------------------------------
(* The critical sections.                                                  *)

Free(i) == section[i] = None
Up(i)   == job[i] # None

Enter(i, op, p, r, before) ==
    section' = [section EXCEPT ![i] = [op |-> op, player |-> p, run |-> r,
                                       step |-> "state", before |-> before]]

Goto(i, step) == section' = [section EXCEPT ![i].step = step]
Leave(i)      == section' = [section EXCEPT ![i] = None]

Init ==
    /\ job = [i \in Instances |-> None]
    /\ section = [i \in Instances |-> None]
    /\ calls = [i \in Instances |-> {}]
    /\ stored = [state |-> None, results |-> [p \in Players |-> None]]
    /\ intake = "idle"
    /\ owner = [r \in RunIds |-> None]
    /\ replied = [r \in RunIds |-> "none"]
    /\ crashes = 0

-----------------------------------------------------------------------------
(* Preparing the replay, inside one request.  Nobody knows the job's id    *)
(* before that request answers.                                            *)

Prepare(i) ==
    /\ intake = "idle" /\ Free(i) /\ ~Up(i)
    /\ job' = [job EXCEPT ![i] = NewJob]
    /\ intake' = "working"
    /\ Enter(i, "receive", None, None, NewJob)
    /\ UNCHANGED <<calls, stored, owner, replied, crashes>>

\* The pipeline's last update carries the parsed replay.
PreparationSucceeds(i) ==
    /\ intake = "working" /\ Up(i) /\ Free(i)
    /\ job' = [job EXCEPT ![i].prepared = TRUE, ![i].status = "ready"]
    /\ Enter(i, "ready", None, None, job[i])
    /\ UNCHANGED <<calls, stored, intake, owner, replied, crashes>>

PreparationFails(i) ==
    /\ intake = "working" /\ Up(i) /\ Free(i)
    /\ job' = [job EXCEPT ![i].status = "failed"]
    /\ Enter(i, "prepare_failed", None, None, job[i])
    /\ UNCHANGED <<calls, stored, intake, owner, replied, crashes>>

-----------------------------------------------------------------------------
(* Coaching one player.                                                    *)

\* select_player, up to its first write.  A refused request changes nothing.
SelectPlayer(i, p) ==
    /\ intake = "returned" /\ Up(i) /\ Free(i)
    /\ Selectable(job[i], p)
    /\ \E r \in RunIds :
        /\ owner[r] = None
        /\ owner' = [owner EXCEPT ![r] = p]
        /\ job' = [job EXCEPT ![i] = Started(job[i], p, r)]
        /\ Enter(i, "select", p, r, job[i])
    /\ UNCHANGED <<calls, stored, intake, replied, crashes>>

\* The provider answered and the answer merged; the lock is taken again.
CoachSucceeds(i, c) ==
    /\ c \in calls[i] /\ Free(i)
    /\ job' = [job EXCEPT ![i] = Succeeded(job[i], c)]
    /\ calls' = [calls EXCEPT ![i] = @ \ {c}]
    /\ Enter(i, "complete", c.player, c.run, job[i])
    /\ UNCHANGED <<stored, intake, owner, replied, crashes>>

\* The provider failed, timed out, or its answer did not merge.
CoachFails(i, c) ==
    /\ c \in calls[i] /\ Free(i)
    /\ job' = [job EXCEPT ![i] = Failed(job[i], c)]
    /\ calls' = [calls EXCEPT ![i] = @ \ {c}]
    /\ Enter(i, "fail", c.player, c.run, job[i])
    /\ UNCHANGED <<stored, intake, owner, replied, crashes>>

\* Mutant: an outcome is taken only while the job still says "coaching".
CoachEndsWhileCoaching(i, p) ==
    \E c \in calls[i] :
        /\ c.player = p /\ job[i].status = "coaching"
        /\ CoachSucceeds(i, c) \/ CoachFails(i, c)

CoachEnds(i, p) ==
    \E c \in calls[i] : /\ c.player = p
                        /\ CoachSucceeds(i, c) \/ CoachFails(i, c)

-----------------------------------------------------------------------------
(* The rest of a critical section: _persist_job, then _write_log.          *)

At(i, step) == section[i] # None /\ section[i].step = step

WriteState(i) ==
    /\ At(i, "state")
    /\ stored' = [stored EXCEPT !.state = Snapshot(job[i])]
    /\ Goto(i, "result")
    /\ UNCHANGED <<job, calls, intake, owner, replied, crashes>>

WriteResult(i) ==
    /\ At(i, "result")
    /\ stored' = [stored EXCEPT !.results = ResultsOf(job[i])]
    /\ Goto(i, "log")
    /\ UNCHANGED <<job, calls, intake, owner, replied, crashes>>

\* The section is over: the request goes on to call the provider, or answers.
EndSection(i) ==
    LET s == section[i]
    IN  /\ At(i, "log")
        /\ Leave(i)
        /\ calls' = IF s.op = "select"
                    THEN [calls EXCEPT ![i] = @ \cup {[player |-> s.player, run |-> s.run]}]
                    ELSE calls
        /\ replied' = IF s.op = "complete" THEN [replied EXCEPT ![s.run] = "done"]
                      ELSE IF s.op = "fail" THEN [replied EXCEPT ![s.run] = "error"]
                      ELSE replied
        /\ intake' = IF s.op \in {"ready", "prepare_failed"} THEN "returned" ELSE intake
        /\ UNCHANGED <<job, stored, owner, crashes>>

\* An exception _persist_job does not catch, or one from _write_log, leaves
\* the section early and becomes the request's answer: except in the
\* pipeline loop, whose handler records a failed preparation.
Raise(i) ==
    LET s == section[i]
    IN  IF s.op = "ready"
        THEN /\ job' = [job EXCEPT ![i].status = "failed"]
             /\ Enter(i, "prepare_failed", None, None, job[i])
             /\ UNCHANGED <<calls, stored, intake, owner, replied, crashes>>
        ELSE /\ Leave(i)
             /\ replied' = IF s.run # None THEN [replied EXCEPT ![s.run] = "error"]
                           ELSE replied
             /\ intake' = IF s.run # None THEN intake ELSE "lost"
             /\ UNCHANGED <<job, calls, stored, owner, crashes>>

\* Mutant: the error of a local artifact is not swallowed.
CacheFaultRaises(i) ==
    /\ "cache" \in Faults
    /\ At(i, "state") \/ At(i, "result")
    /\ Raise(i)

\* _persist_job swallows the error, and the second write with it.
CacheFault(i) ==
    /\ "cache" \in Faults
    /\ At(i, "state") \/ At(i, "result")
    /\ Goto(i, "log")
    /\ UNCHANGED <<job, calls, stored, intake, owner, replied, crashes>>

BlobFault(i) ==
    /\ "blob" \in Faults
    /\ At(i, "state") \/ At(i, "result")
    /\ Raise(i)

\* A section logs last, but prepare logs the new job before it persists it,
\* and the pipeline loop each update, its last one too (PreparationFails).
LogFault(i) ==
    /\ "log" \in Faults
    /\ \/ At(i, "state") /\ section[i].op = "receive"
       \/ At(i, "log") /\ section[i].op \in {"prepare_failed", "select", "complete", "fail"}
    /\ Raise(i)

-----------------------------------------------------------------------------
(* A process stops, and another takes over from the store.                 *)

Crash(i) ==
    /\ crashes < MaxCrashes
    /\ Up(i) \/ ~Free(i)
    /\ crashes' = crashes + 1
    /\ job' = [job EXCEPT ![i] = None]
    /\ section' = [section EXCEPT ![i] = None]
    /\ calls' = [calls EXCEPT ![i] = {}]
    /\ intake' = IF intake = "working" THEN "lost" ELSE intake
    /\ UNCHANGED <<stored, owner, replied>>

\* The restore functions read state.json first and result.json after it.
ReadState(i) ==
    /\ intake \in {"returned", "lost"} /\ ~Up(i) /\ Free(i)
    /\ stored.state # None
    /\ section' = [section EXCEPT ![i] =
           [op |-> "restore", player |-> None, run |-> None,
            step |-> "load", before |-> stored.state]]
    /\ UNCHANGED <<job, calls, stored, intake, owner, replied, crashes>>

ReadResult(i) ==
    /\ At(i, "load")
    /\ job' = [job EXCEPT ![i] = Restored(section[i].before, stored.results)]
    /\ Leave(i)
    /\ UNCHANGED <<calls, stored, intake, owner, replied, crashes>>

-----------------------------------------------------------------------------

Persist(i) == WriteState(i) \/ WriteResult(i) \/ EndSection(i)

Restore(i) == ReadState(i) \/ ReadResult(i)

Next ==
    \E i \in Instances :
        \/ Prepare(i) \/ PreparationSucceeds(i) \/ PreparationFails(i)
        \/ \E p \in Players : SelectPlayer(i, p) \/ CoachEnds(i, p)
        \/ Persist(i)
        \/ CacheFault(i) \/ BlobFault(i) \/ LogFault(i)
        \/ Crash(i)
        \/ Restore(i)

Spec == Init /\ [][Next]_vars

(***************************************************************************)
(* What the code's scheduling justifies: a thread that holds the lock goes *)
(* on, a request for a preparing or restored job is served, and a provider *)
(* call ends (it has a timeout).  Nobody has to select a player, no write  *)
(* has to fail and no process has to stop.                                 *)
(***************************************************************************)
Fairness ==
    \A i \in Instances :
        /\ WF_vars(Persist(i))
        /\ WF_vars(Restore(i))
        /\ WF_vars(PreparationSucceeds(i) \/ PreparationFails(i))
        /\ \A p \in Players : WF_vars(CoachEnds(i, p))

FairSpec == Spec /\ Fairness

-----------------------------------------------------------------------------
(* Correctness.                                                            *)

Stored == [state : Job \cup {None}, results : [Players -> Result]]

\* The type invariant: every field of the job, of the section in progress and
\* of the two artifacts holds a value the code puts there.
TypeOK ==
    /\ job \in [Instances -> Job \cup {None}]
    /\ section \in [Instances -> Section \cup {None}]
    /\ calls \in [Instances -> SUBSET Call]
    /\ stored \in Stored
    /\ intake \in {"idle", "working", "returned", "lost"}
    /\ owner \in [RunIds -> Players \cup {None}]
    /\ replied \in [RunIds -> Replies]
    /\ crashes \in Nat

\* A provider call in flight is the one its player's entry records, so its
\* outcome can neither overwrite another run nor be written over one: the
\* status check of select_player and the lock around it make it so, on every
\* instance, whatever the writes do.
LiveCallOwnsRun ==
    \A i \in Instances : \A c \in calls[i] :
        /\ Up(i)
        /\ job[i].runs[c.player] =
               [id |-> c.run, status |-> "running", result |-> None]

\* GET .../result without a player answers with a result its player still
\* has: selecting a player drops both copies in one section, and a restore
\* takes both from the same artifact.
JobResultIsRetained ==
    \A i \in Instances : Up(i) /\ job[i].result # None =>
        /\ owner[job[i].result] # None
        /\ job[i].runs[owner[job[i].result]].result = job[i].result

\* No restart, write or provider answer puts one player's coaching under
\* another player's name, in memory or in the artifacts.
ResultsBelongToTheirPlayer ==
    \A p \in Players :
        /\ \A i \in Instances : Up(i) /\ ResultOfPlayer(job[i], p) \in RunIds =>
               owner[ResultOfPlayer(job[i], p)] = p
        /\ stored.results[p] # None => owner[stored.results[p]] = p

\* A job that says "coaching" is coaching the player selected last: progress
\* readers, who wait on that status, wait for a run that has not ended.
CoachingHasARun ==
    \A i \in Instances : Up(i) /\ job[i].status = "coaching" =>
        /\ job[i].selected # None
        /\ job[i].runs[job[i].selected].status = "running"

\* Between sections the two artifacts rebuild every run the process has: a
\* stop there loses the runs in progress and nothing else.
RestartRebuildsRuns ==
    \A i \in Instances : Up(i) /\ Free(i) =>
        /\ stored.state # None
        /\ \A p \in Players :
            LET back == Restored(stored.state, stored.results).runs[p]
            IN  \/ back = job[i].runs[p]
                \/ /\ job[i].runs[p].status = "running"
                   /\ back = [job[i].runs[p] EXCEPT !.status = "failed"]

\* Intent feedback explains the coaching of the run the job shows as
\* complete, never that of an earlier run of the player: this crosses the
\* two writes of _persist_job, a stop between them and the restore.
IntentExplainsTheShownRun ==
    \A i \in Instances, p \in Players :
        Up(i) /\ IntentSource(job[i], p) \in RunIds =>
            IntentSource(job[i], p) = job[i].runs[p].id

\* Once a request has been told its coaching is done, that player's result
\* is served by every later process, for as long as this run is the player's.
AnsweredResultIsServed ==
    \A i \in Instances, p \in Players, r \in RunIds :
        Up(i) /\ replied[r] = "done" /\ job[i].runs[p].id = r =>
            ResultOfPlayer(job[i], p) = r

\* result.json loses or replaces a player's result only in a section about
\* that player: API.md, "Results are retained separately for each analyzed
\* player".
ResultsAreRetained ==
    [][\A p \in Players :
        stored.results[p] # None /\ stored'.results[p] # stored.results[p] =>
            \E i \in Instances : At(i, "result") /\ section[i].player = p]_vars

\* A cached artifact that cannot be written does not turn a successful coach
\* invocation into an API failure (the comment in _persist_job).
SuccessIsAnswered ==
    \A i \in Instances, r \in RunIds :
        Up(i) /\ replied[r] = "error" =>
            ~\E p \in Players : job[i].runs[p] =
                [id |-> r, status |-> "complete", result |-> r]

\* After a restart "prepared replay data remains reusable for a fresh run"
\* (the comment in _restore_persisted_jobs): a player of a prepared job can
\* be selected, or is being coached.
PreparedJobIsReusable ==
    \A i \in Instances : Up(i) /\ Free(i) /\ job[i].prepared =>
        \A p \in Players :
            Selectable(job[i], p) \/ \E c \in calls[i] : c.player = p

\* Every coaching run that starts ends, so its player can be coached again.
RunsEnd ==
    \A i \in Instances, p \in Players :
        Up(i) /\ job[i].runs[p].status = "running"
            ~> Up(i) /\ job[i].runs[p].status \in {"complete", "failed"}

\* Every accepted selection is answered, and the lock never keeps it waiting
\* for ever.
SelectionsAreAnswered ==
    \A r \in RunIds : owner[r] # None ~> replied[r] # "none"

-----------------------------------------------------------------------------
(* What clients can observe.  A section's change is visible when the lock  *)
(* is released, and durable - so that a restart shows it - once written:   *)
(* the start of a run with state.json, its end with both artifacts.        *)

HiddenBySection(i) ==
    section[i] # None /\
        \/ section[i].step = "state"
        \/ section[i].step = "result" /\ section[i].op \in {"complete", "fail"}

NoRuns == [p \in Players |-> NoRun]

VisibleRuns(i) ==
    IF Up(i) THEN IF HiddenBySection(i) THEN section[i].before.runs ELSE job[i].runs
    ELSE IF stored.state = None THEN NoRuns
    ELSE Restored(stored.state, stored.results).runs

IssuedRuns(i) ==
    {r \in RunIds : owner[r] # None}
        \ (IF At(i, "state") /\ section[i].op = "select" THEN {section[i].run} ELSE {})

\* A deployment of one process.
TheInstance == CHOOSE i \in Instances : TRUE

PlayerRunsView == INSTANCE PlayerRuns WITH
    runs <- VisibleRuns(TheInstance), issued <- IssuedRuns(TheInstance)

\* Through any sequence of crashes, a client of the service sees the runs the
\* abstract specification promises.
ImplementsPlayerRuns == PlayerRunsView!Spec
=============================================================================
