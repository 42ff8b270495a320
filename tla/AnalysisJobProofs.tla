-------------------------- MODULE AnalysisJobProofs --------------------------
(***************************************************************************)
(* What the operations of AnalysisJob make of a job, for any players and   *)
(* runs.  Both the service and the page's proofs rest on these.            *)
(***************************************************************************)
EXTENDS AnalysisJob, TLAPS

\* prepare starts with a well-formed job.
LEMMA NewJobType == NewJob \in Job
BY DEF NewJob, Job, JobStatus, Result, Runs, Run, RunStatus, NoRun

\* The start of a run touches its player's entry alone.
LEMMA StartedJob ==
    ASSUME NEW j \in Job, NEW p \in Players, NEW r \in RunIds
    PROVE  /\ Started(j, p, r) \in Job
           /\ Started(j, p, r).status = "coaching"
           /\ Started(j, p, r).selected = p
           /\ Started(j, p, r).result = None
           /\ Started(j, p, r).runs[p] =
                  [id |-> r, status |-> "running", result |-> None]
           /\ \A q \in Players \ {p} : Started(j, p, r).runs[q] = j.runs[q]
BY DEF Started, Job, JobStatus, Result, Runs, Run, RunStatus

\* So does the success of the run of a call.
LEMMA SucceededRun ==
    ASSUME NEW j \in Job, NEW c, c.player \in Players, c.run \in RunIds
    PROVE  /\ Succeeded(j, c) \in Job
           /\ Succeeded(j, c).status = "complete"
           /\ Succeeded(j, c).result = c.run
           /\ Succeeded(j, c).runs[c.player] =
                  [id |-> c.run, status |-> "complete", result |-> c.run]
           /\ \A q \in Players \ {c.player} : Succeeded(j, c).runs[q] = j.runs[q]
BY DEF Succeeded, Job, JobStatus, Result, Runs, Run, RunStatus

\* And its failure, which leaves the job's own result alone.
LEMMA FailedRun ==
    ASSUME NEW j \in Job, NEW c, c.player \in Players, c.run \in RunIds
    PROVE  /\ Failed(j, c) \in Job
           /\ Failed(j, c).status = "failed"
           /\ Failed(j, c).result = j.result
           /\ Failed(j, c).runs[c.player] =
                  [id |-> c.run, status |-> "failed", result |-> None]
           /\ \A q \in Players \ {c.player} : Failed(j, c).runs[q] = j.runs[q]
BY DEF Failed, Job, JobStatus, Result, Runs, Run, RunStatus
=============================================================================
