------------------------ MODULE AnalysisServiceProofs ------------------------
(***************************************************************************)
(* What AnalysisService guarantees for any number of processes, players    *)
(* and runs, whichever writes fail and however often processes stop:       *)
(* types, the ownership of provider calls, and that no result is served    *)
(* under another player's name.  Where only the cache may fail: that no    *)
(* recorded success is answered with an error, and, in one process that    *)
(* is not restarted, that a prepared job can be used.                      *)
(***************************************************************************)
EXTENDS AnalysisService, AnalysisJobProofs, TLAPS

-----------------------------------------------------------------------------
(* The inductive invariant.  The properties are not inductive alone: they  *)
(* rest on what a section in progress knows of the job, and on which       *)
(* player each identifier was issued for.                                  *)

\* A section that is persisting or logging works on a job in memory, one that
\* restores on none; one that selects is about to call the provider for a run no call has yet.
SectionInv ==
    \A i \in Instances : section[i] # None =>
        /\ section[i].step # "load" => Up(i) /\ section[i].op # "restore"
        /\ section[i].step = "load" => ~Up(i)
        /\ section[i].op \in {"select", "complete", "fail"} =>
               section[i].player \in Players /\ section[i].run \in RunIds
        /\ section[i].op = "select" /\ section[i].step # "load" =>
               /\ owner[section[i].run] = section[i].player
               /\ job[i].runs[section[i].player] =
                      [id |-> section[i].run, status |-> "running", result |-> None]
               /\ \A c \in calls[i] : c.player # section[i].player

\* Identifiers stay with the player they were issued for.
OwnerInv ==
    /\ \A i \in Instances : \A c \in calls[i] : owner[c.run] = c.player
    /\ \A i \in Instances : Up(i) =>
        \A p \in Players : job[i].runs[p].result # None =>
            owner[job[i].runs[p].result] = p
    /\ \A p \in Players : stored.results[p] # None => owner[stored.results[p]] = p

ServiceInv ==
    /\ TypeOK
    /\ SectionInv
    /\ LiveCallOwnsRun
    /\ OwnerInv
    /\ JobResultIsRetained
    /\ CoachingHasARun

-----------------------------------------------------------------------------
(* What the operations on one job do.                                      *)

LEMMA SucceededJob ==
    ASSUME NEW j \in Job, NEW c \in Call
    PROVE  /\ Succeeded(j, c) \in Job
           /\ Succeeded(j, c).status = "complete"
           /\ Succeeded(j, c).result = c.run
           /\ Succeeded(j, c).runs[c.player] =
                  [id |-> c.run, status |-> "complete", result |-> c.run]
           /\ \A q \in Players \ {c.player} : Succeeded(j, c).runs[q] = j.runs[q]
BY SucceededRun DEF Call

LEMMA FailedJob ==
    ASSUME NEW j \in Job, NEW c \in Call
    PROVE  /\ Failed(j, c) \in Job
           /\ Failed(j, c).status = "failed"
           /\ Failed(j, c).result = j.result
           /\ Failed(j, c).runs[c.player] =
                  [id |-> c.run, status |-> "failed", result |-> None]
           /\ \A q \in Players \ {c.player} : Failed(j, c).runs[q] = j.runs[q]
BY FailedRun DEF Call

LEMMA SnapshotType ==
    ASSUME NEW j \in Job
    PROVE  Snapshot(j) \in Job
BY DEF Snapshot, Job, JobStatus, Result, Runs, Run, RunStatus

LEMMA ResultsOfType ==
    ASSUME NEW j \in Job
    PROVE  /\ ResultsOf(j) \in [Players -> Result]
           /\ \A p \in Players : ResultsOf(j)[p] = j.runs[p].result
BY DEF ResultsOf, Job, Runs, Run

LEMMA RestoredRunType ==
    ASSUME NEW j \in Job, NEW run \in Run, NEW result \in Result
    PROVE  /\ RestoredRun(j, run, result) \in Run
           /\ RestoredRun(j, run, result).result \in {result, None}
BY DEF RestoredRun, RestoredStatus, NoRun, Run, RunStatus, Result, Job

\* A restored job is well formed, is never coaching, and gets every result
\* from result.json.
LEMMA RestoredJob ==
    ASSUME NEW j \in Job, NEW results \in [Players -> Result]
    PROVE  /\ Restored(j, results) \in Job
           /\ Restored(j, results).status # "coaching"
           /\ \A p \in Players :
                  Restored(j, results).runs[p].result \in {results[p], None}
           /\ Restored(j, results).result # None =>
                  /\ j.selected \in Players
                  /\ Restored(j, results).result =
                         Restored(j, results).runs[j.selected].result
<1> DEFINE runs == [p \in Players |-> RestoredRun(j, j.runs[p], results[p])]
<1>1. \A p \in Players : j.runs[p] \in Run /\ results[p] \in Result
  BY DEF Job, Runs
<1>2. \A p \in Players : runs[p] \in Run /\ runs[p].result \in {results[p], None}
  BY <1>1, RestoredRunType
<1>3. runs \in Runs
  BY <1>2 DEF Runs
<1>4. j.status \in JobStatus /\ j.prepared \in BOOLEAN /\ j.selected \in Players \cup {None}
  BY DEF Job
<1>5. Restored(j, results) =
        [status   |-> IF j.status # "coaching" THEN j.status
                      ELSE IF j.prepared THEN "ready" ELSE "failed",
         prepared |-> j.prepared,
         selected |-> j.selected,
         result   |-> IF j.selected \in Players THEN runs[j.selected].result ELSE None,
         runs     |-> runs]
  BY DEF Restored
<1>6. \A p \in Players : runs[p].result \in Result
  BY <1>2 DEF Run
<1> HIDE DEF runs
<1>7. (IF j.selected \in Players THEN runs[j.selected].result ELSE None) \in Result
  BY <1>6 DEF Result
<1> QED
  BY <1>2, <1>3, <1>4, <1>5, <1>7 DEF Job, JobStatus

-----------------------------------------------------------------------------
(* The invariant holds initially.                                          *)

LEMMA InitInv == Init => ServiceInv
<1> SUFFICES ASSUME Init PROVE ServiceInv
  OBVIOUS
<1>1. TypeOK
  <2>1. stored \in Stored
    BY DEF Init, Stored, Result
  <2> QED
    BY <2>1 DEF Init, TypeOK, Replies
<1>2. SectionInv /\ LiveCallOwnsRun /\ OwnerInv /\ JobResultIsRetained /\ CoachingHasARun
  BY DEF Init, SectionInv, LiveCallOwnsRun, OwnerInv, JobResultIsRetained,
         CoachingHasARun, Up
<1> QED
  BY <1>1, <1>2 DEF ServiceInv

-----------------------------------------------------------------------------
(* Every step preserves it.                                                *)

\* Entering a section records what the section is about.
LEMMA EnterType ==
    ASSUME TypeOK, NEW i \in Instances, NEW op \in Operations,
           NEW p \in Players \cup {None}, NEW r \in Result, NEW before \in Job,
           Enter(i, op, p, r, before)
    PROVE  /\ section' \in [Instances -> Section \cup {None}]
           /\ section'[i] = [op |-> op, player |-> p, run |-> r,
                             step |-> "state", before |-> before]
           /\ \A k \in Instances \ {i} : section'[k] = section[k]
BY DEF TypeOK, Enter, Section

LEMMA PrepareInv ==
    ASSUME ServiceInv, NEW i \in Instances, Prepare(i)
    PROVE  ServiceInv'
<1> USE DEF ServiceInv
<1>1. section' \in [Instances -> Section \cup {None}]
      /\ section'[i] = [op |-> "receive", player |-> None, run |-> None,
                        step |-> "state", before |-> NewJob]
      /\ \A k \in Instances \ {i} : section'[k] = section[k]
  BY EnterType, NewJobType DEF Prepare, Operations, Result
<1>2. job' \in [Instances -> Job \cup {None}] /\ job'[i] = NewJob
      /\ \A k \in Instances \ {i} : job'[k] = job[k]
  BY NewJobType DEF Prepare, TypeOK
<1>3. \A c \in calls[i] : FALSE
  BY DEF Prepare, LiveCallOwnsRun
<1>4. UNCHANGED <<calls, stored, owner, replied, crashes>> /\ intake' = "working"
  BY DEF Prepare
<1>5. TypeOK'
  BY <1>1, <1>2, <1>4 DEF TypeOK, Stored
<1>6. SectionInv'
  BY <1>1, <1>2, <1>4, NewJobType, NoJobAssumption DEF SectionInv, Up
<1>7. LiveCallOwnsRun'
  BY <1>2, <1>3, <1>4 DEF LiveCallOwnsRun, Up
<1>8. OwnerInv'
  BY <1>2, <1>4 DEF OwnerInv, Up, NewJob, NoRun
<1>9. JobResultIsRetained'
  BY <1>2, <1>4 DEF JobResultIsRetained, Up, NewJob
<1>10. CoachingHasARun'
  BY <1>2 DEF CoachingHasARun, Up, NewJob
<1> QED
  BY <1>5, <1>6, <1>7, <1>8, <1>9, <1>10

\* Preparation, its failure, and the failure recorded when persisting it
\* raised, leave the runs and the results alone.
LEMMA PreparationInv ==
    ASSUME ServiceInv, NEW i \in Instances, Up(i),
           NEW k \in Job, k.runs = job[i].runs, k.result = job[i].result,
           k.status \in {"ready", "failed"},
           job' = [job EXCEPT ![i] = k],
           NEW op \in {"ready", "prepare_failed"},
           Enter(i, op, None, None, job[i]),
           UNCHANGED <<calls, stored, intake, owner, replied, crashes>>
    PROVE  ServiceInv'
<1> USE DEF ServiceInv
<1>1. job[i] \in Job
  BY DEF Up, TypeOK
<1>2. section' \in [Instances -> Section \cup {None}]
      /\ section'[i] = [op |-> op, player |-> None, run |-> None,
                        step |-> "state", before |-> job[i]]
      /\ \A n \in Instances \ {i} : section'[n] = section[n]
  BY <1>1, EnterType DEF Operations, Result
<1>3. job' \in [Instances -> Job \cup {None}] /\ job'[i] = k
      /\ \A n \in Instances \ {i} : job'[n] = job[n]
  BY DEF TypeOK
<1>4. TypeOK'
  BY <1>2, <1>3 DEF TypeOK, Stored
<1>5. SectionInv'
  BY <1>2, <1>3, NoJobAssumption DEF SectionInv, Up
<1>6. LiveCallOwnsRun'
  BY <1>3, NoJobAssumption DEF LiveCallOwnsRun, Up
<1>7. OwnerInv'
  BY <1>3 DEF OwnerInv, Up
<1>8. JobResultIsRetained'
  BY <1>3 DEF JobResultIsRetained, Up
<1>9. CoachingHasARun'
  BY <1>3 DEF CoachingHasARun, Up
<1> QED
  BY <1>4, <1>5, <1>6, <1>7, <1>8, <1>9

LEMMA PreparationSucceedsInv ==
    ASSUME ServiceInv, NEW i \in Instances, PreparationSucceeds(i)
    PROVE  ServiceInv'
<1> DEFINE k == [job[i] EXCEPT !.prepared = TRUE, !.status = "ready"]
<1>1. job[i] \in Job
  BY DEF PreparationSucceeds, Up, ServiceInv, TypeOK
<1>2. k \in Job /\ k.runs = job[i].runs /\ k.result = job[i].result /\ k.status = "ready"
  BY <1>1 DEF Job, JobStatus
<1>3. job' = [job EXCEPT ![i] = k]
  BY DEF PreparationSucceeds, ServiceInv, TypeOK
<1> QED
  BY <1>2, <1>3, PreparationInv DEF PreparationSucceeds

\* The failure of a preparation, as PreparationFails and Raise record it.
LEMMA FailedPreparation ==
    ASSUME ServiceInv, NEW i \in Instances, Up(i),
           job' = [job EXCEPT ![i].status = "failed"],
           Enter(i, "prepare_failed", None, None, job[i]),
           UNCHANGED <<calls, stored, intake, owner, replied, crashes>>
    PROVE  ServiceInv'
<1> DEFINE k == [job[i] EXCEPT !.status = "failed"]
<1>1. job[i] \in Job
  BY DEF Up, ServiceInv, TypeOK
<1>2. k \in Job /\ k.runs = job[i].runs /\ k.result = job[i].result /\ k.status = "failed"
  BY <1>1 DEF Job, JobStatus
<1>3. job' = [job EXCEPT ![i] = k]
  BY DEF ServiceInv, TypeOK
<1> QED
  BY <1>2, <1>3, PreparationInv

\* The status check and the lock: no call is in flight for the player whose
\* run starts, and the new identifier belongs to nobody.
LEMMA SelectPlayerInv ==
    ASSUME ServiceInv, NEW i \in Instances, NEW p \in Players, SelectPlayer(i, p)
    PROVE  ServiceInv'
<1> USE DEF ServiceInv
<1>1. job[i] \in Job /\ job[i].runs[p].status # "running"
  BY DEF SelectPlayer, Up, TypeOK, Selectable
<1>2. PICK r \in RunIds :
        /\ owner[r] = None
        /\ owner' = [owner EXCEPT ![r] = p]
        /\ job' = [job EXCEPT ![i] = Started(job[i], p, r)]
        /\ Enter(i, "select", p, r, job[i])
  BY DEF SelectPlayer
<1> DEFINE k == Started(job[i], p, r)
<1>3. /\ k \in Job /\ k.status = "coaching" /\ k.selected = p /\ k.result = None
      /\ k.runs[p] = [id |-> r, status |-> "running", result |-> None]
      /\ \A q \in Players \ {p} : k.runs[q] = job[i].runs[q]
  BY <1>1, StartedJob
<1> HIDE DEF k
<1>4. section' \in [Instances -> Section \cup {None}]
      /\ section'[i] = [op |-> "select", player |-> p, run |-> r,
                        step |-> "state", before |-> job[i]]
      /\ \A n \in Instances \ {i} : section'[n] = section[n]
  BY <1>1, <1>2, EnterType DEF Operations, Result
<1>5. job' \in [Instances -> Job \cup {None}] /\ job'[i] = k
      /\ \A n \in Instances \ {i} : job'[n] = job[n]
  BY <1>2, <1>3 DEF TypeOK, k
<1>6. UNCHANGED <<calls, stored, intake, replied, crashes>>
  BY DEF SelectPlayer
<1>7. /\ owner' \in [RunIds -> Players \cup {None}]
      /\ \A x \in RunIds : owner[x] \in Players => owner'[x] = owner[x]
      /\ owner'[r] = p
  BY <1>2, NoneAssumption DEF TypeOK
<1>8. TypeOK'
  BY <1>4, <1>5, <1>6, <1>7 DEF TypeOK, Stored
<1>9. \A c \in calls[i] : c.player # p
  <2> SUFFICES ASSUME NEW c \in calls[i], c.player = p PROVE FALSE
    OBVIOUS
  <2>1. job[i].runs[p] = [id |-> c.run, status |-> "running", result |-> None]
    BY DEF LiveCallOwnsRun
  <2> QED
    BY <1>1, <2>1
<1>10. SectionInv'
  <2> SUFFICES ASSUME NEW n \in Instances, section'[n] # None
               PROVE  /\ section'[n].step # "load" => Up(n)' /\ section'[n].op # "restore"
                      /\ section'[n].step = "load" => ~Up(n)'
                      /\ section'[n].op \in {"select", "complete", "fail"} =>
                             section'[n].player \in Players /\ section'[n].run \in RunIds
                      /\ section'[n].op = "select" /\ section'[n].step # "load" =>
                             /\ owner'[section'[n].run] = section'[n].player
                             /\ job'[n].runs[section'[n].player] =
                                    [id |-> section'[n].run, status |-> "running",
                                     result |-> None]
                             /\ \A c \in calls'[n] : c.player # section'[n].player
    BY DEF SectionInv
  <2>1. CASE n = i
    BY <2>1, <1>3, <1>4, <1>5, <1>6, <1>7, <1>9, NoJobAssumption DEF Up
  <2>2. CASE n # i
    BY <2>2, <1>4, <1>5, <1>6, <1>7 DEF SectionInv, Up, TypeOK
  <2> QED
    BY <2>1, <2>2
<1>11. LiveCallOwnsRun'
  <2> SUFFICES ASSUME NEW n \in Instances, NEW c \in calls[n]
               PROVE  /\ Up(n)'
                      /\ job'[n].runs[c.player] =
                             [id |-> c.run, status |-> "running", result |-> None]
    BY <1>6 DEF LiveCallOwnsRun
  <2>1. c.player \in Players
    BY DEF TypeOK, Call
  <2> QED
    BY <2>1, <1>3, <1>5, <1>9, NoJobAssumption DEF LiveCallOwnsRun, Up
<1>12. OwnerInv'
  <2>1. \A n \in Instances : \A c \in calls[n] : c.run \in RunIds /\ c.player \in Players
    BY DEF TypeOK, Call
  <2>2. \A n \in Instances : Up(n) =>
          \A q \in Players : job[n].runs[q].result \in Result
    BY DEF TypeOK, Up, Job, Runs, Run
  <2>3. \A q \in Players : stored.results[q] \in Result
    BY DEF TypeOK, Stored
  <2>4. \A n \in Instances : \A c \in calls'[n] : owner'[c.run] = c.player
    BY <2>1, <1>6, <1>7 DEF OwnerInv
  <2>5. ASSUME NEW n \in Instances, Up(n)', NEW q \in Players,
               job'[n].runs[q].result # None
        PROVE  owner'[job'[n].runs[q].result] = q
    BY <2>2, <2>5, <1>3, <1>5, <1>7 DEF OwnerInv, Up, Result, SelectPlayer
  <2>6. \A q \in Players : stored'.results[q] # None => owner'[stored'.results[q]] = q
    BY <2>3, <1>6, <1>7 DEF OwnerInv, Result
  <2> QED
    BY <2>4, <2>5, <2>6 DEF OwnerInv
<1>13. JobResultIsRetained'
  <2> SUFFICES ASSUME NEW n \in Instances, Up(n)', job'[n].result # None
               PROVE  /\ owner'[job'[n].result] # None
                      /\ job'[n].runs[owner'[job'[n].result]].result = job'[n].result
    BY DEF JobResultIsRetained
  <2>1. n # i /\ job'[n] = job[n] /\ Up(n)
    BY <1>3, <1>5 DEF Up
  <2>2. job[n].result \in RunIds
    BY <2>1 DEF TypeOK, Up, Job, Result
  <2>3. owner[job[n].result] \in Players
    BY <2>1, <2>2 DEF JobResultIsRetained, TypeOK
  <2> QED
    BY <2>1, <2>2, <2>3, <1>7, NoneAssumption DEF JobResultIsRetained
<1>14. CoachingHasARun'
  BY <1>3, <1>5, NoneAssumption DEF CoachingHasARun, Up
<1> QED
  BY <1>8, <1>10, <1>11, <1>12, <1>13, <1>14

\* The end of a provider call, either way: no other call in flight belongs to
\* its player, and a failure drops no result the job still refers to, because
\* a running entry has none.
LEMMA CoachEndInv ==
    ASSUME ServiceInv, NEW i \in Instances, NEW c \in calls[i],
           NEW k \in Job, NEW op \in {"complete", "fail"},
           k.status \in {"complete", "failed"},
           \/ k.result = c.run /\ k.runs[c.player].result = c.run
           \/ k.result = job[i].result /\ k.runs[c.player].result = None,
           \A q \in Players \ {c.player} : k.runs[q] = job[i].runs[q],
           job' = [job EXCEPT ![i] = k],
           calls' = [calls EXCEPT ![i] = @ \ {c}],
           Enter(i, op, c.player, c.run, job[i]),
           UNCHANGED <<stored, intake, owner, replied, crashes>>
    PROVE  ServiceInv'
<1> USE DEF ServiceInv
<1>1. c.player \in Players /\ c.run \in RunIds /\ c \in Call
  BY DEF TypeOK, Call
<1>2. /\ Up(i) /\ job[i] \in Job
      /\ job[i].runs[c.player] = [id |-> c.run, status |-> "running", result |-> None]
  BY DEF LiveCallOwnsRun, Up, TypeOK
<1>3. section' \in [Instances -> Section \cup {None}]
      /\ section'[i] = [op |-> op, player |-> c.player, run |-> c.run,
                        step |-> "state", before |-> job[i]]
      /\ \A n \in Instances \ {i} : section'[n] = section[n]
  BY <1>1, <1>2, EnterType DEF Operations, Result
<1>4. job' \in [Instances -> Job \cup {None}] /\ job'[i] = k
      /\ \A n \in Instances \ {i} : job'[n] = job[n]
  BY DEF TypeOK
<1>5. /\ calls' \in [Instances -> SUBSET Call]
      /\ calls'[i] = calls[i] \ {c}
      /\ \A n \in Instances \ {i} : calls'[n] = calls[n]
  BY DEF TypeOK
<1>6. TypeOK'
  BY <1>3, <1>4, <1>5 DEF TypeOK, Stored
<1>7. SectionInv'
  BY <1>1, <1>3, <1>4, <1>5, NoJobAssumption DEF SectionInv, Up
<1>8. LiveCallOwnsRun'
  <2> SUFFICES ASSUME NEW n \in Instances, NEW d \in calls'[n]
               PROVE  /\ Up(n)'
                      /\ job'[n].runs[d.player] =
                             [id |-> d.run, status |-> "running", result |-> None]
    BY DEF LiveCallOwnsRun
  <2>1. d \in calls[n] /\ d \in Call
    BY <1>5 DEF TypeOK
  <2>2. job[n].runs[d.player] = [id |-> d.run, status |-> "running", result |-> None]
        /\ Up(n)
    BY <2>1 DEF LiveCallOwnsRun
  <2>3. CASE n # i
    BY <2>2, <2>3, <1>4 DEF Up
  <2>4. CASE n = i
    <3>1. d # c
      BY <2>4, <1>5
    <3>2. d.player # c.player
      <4> SUFFICES ASSUME d.player = c.player PROVE FALSE
        OBVIOUS
      <4>1. d.run = c.run
        BY <2>2, <2>4, <1>2
      <4> QED
        BY <4>1, <3>1, <2>1, <1>1 DEF Call
    <3>3. d.player \in Players
      BY <2>1 DEF Call
    <3> QED
      BY <3>2, <3>3, <2>2, <2>4, <1>4, NoJobAssumption DEF Up
  <2> QED
    BY <2>3, <2>4
<1>9. OwnerInv'
  <2>1. owner[c.run] = c.player
    BY DEF OwnerInv
  <2>2. \A n \in Instances : \A d \in calls'[n] : owner'[d.run] = d.player
    BY <1>5 DEF OwnerInv
  <2>3. ASSUME NEW n \in Instances, Up(n)', NEW q \in Players,
               job'[n].runs[q].result # None
        PROVE  owner'[job'[n].runs[q].result] = q
    <3>1. CASE n = i /\ q = c.player
      BY <3>1, <2>1, <2>3, <1>4
    <3>2. CASE n = i /\ q # c.player
      BY <3>2, <2>3, <1>2, <1>4 DEF OwnerInv
    <3>3. CASE n # i
      BY <3>3, <2>3, <1>4 DEF OwnerInv, Up
    <3> QED
      BY <3>1, <3>2, <3>3
  <2> QED
    BY <2>2, <2>3 DEF OwnerInv
<1>10. JobResultIsRetained'
  <2> SUFFICES ASSUME NEW n \in Instances, Up(n)', job'[n].result # None
               PROVE  /\ owner'[job'[n].result] # None
                      /\ job'[n].runs[owner'[job'[n].result]].result = job'[n].result
    BY DEF JobResultIsRetained
  <2>1. owner[c.run] = c.player
    BY DEF OwnerInv
  <2>2. CASE n # i
    BY <2>2, <1>4 DEF JobResultIsRetained, Up
  <2>3. CASE n = i /\ k.result = c.run /\ k.runs[c.player].result = c.run
    BY <2>1, <2>3, <1>1, <1>4, NoneAssumption
  <2>4. CASE n = i /\ k.result = job[i].result /\ k.runs[c.player].result = None
    <3>1. job[i].result \in RunIds
      BY <2>4, <1>2, <1>4 DEF Job, Result
    <3>2. owner[job[i].result] \in Players
          /\ job[i].runs[owner[job[i].result]].result = job[i].result
      BY <3>1, <2>4, <1>2, <1>4 DEF JobResultIsRetained, TypeOK
    <3>3. owner[job[i].result] # c.player
      BY <3>1, <3>2, <1>2, NoneAssumption
    <3> QED
      BY <3>2, <3>3, <2>4, <1>4, NoneAssumption
  <2> QED
    BY <2>2, <2>3, <2>4
<1>11. CoachingHasARun'
  BY <1>4 DEF CoachingHasARun, Up
<1> QED
  BY <1>6, <1>7, <1>8, <1>9, <1>10, <1>11

LEMMA CoachSucceedsInv ==
    ASSUME ServiceInv, NEW i \in Instances, NEW c \in calls[i], CoachSucceeds(i, c)
    PROVE  ServiceInv'
<1> DEFINE k == Succeeded(job[i], c)
<1>1. job[i] \in Job /\ c \in Call
  BY DEF ServiceInv, LiveCallOwnsRun, Up, TypeOK
<1>2. /\ k \in Job /\ k.status = "complete" /\ k.result = c.run
      /\ k.runs[c.player] = [id |-> c.run, status |-> "complete", result |-> c.run]
      /\ \A q \in Players \ {c.player} : k.runs[q] = job[i].runs[q]
  BY <1>1, SucceededJob
<1>3. /\ job' = [job EXCEPT ![i] = k]
      /\ calls' = [calls EXCEPT ![i] = @ \ {c}]
      /\ Enter(i, "complete", c.player, c.run, job[i])
      /\ UNCHANGED <<stored, intake, owner, replied, crashes>>
  BY DEF CoachSucceeds
<1> HIDE DEF k
<1>4. k.runs[c.player].result = c.run
  BY <1>2
<1> QED
  BY <1>2, <1>3, <1>4, CoachEndInv

LEMMA CoachFailsInv ==
    ASSUME ServiceInv, NEW i \in Instances, NEW c \in calls[i], CoachFails(i, c)
    PROVE  ServiceInv'
<1> DEFINE k == Failed(job[i], c)
<1>1. job[i] \in Job /\ c \in Call
  BY DEF ServiceInv, LiveCallOwnsRun, Up, TypeOK
<1>2. /\ k \in Job /\ k.status = "failed" /\ k.result = job[i].result
      /\ k.runs[c.player] = [id |-> c.run, status |-> "failed", result |-> None]
      /\ \A q \in Players \ {c.player} : k.runs[q] = job[i].runs[q]
  BY <1>1, FailedJob
<1>3. /\ job' = [job EXCEPT ![i] = k]
      /\ calls' = [calls EXCEPT ![i] = @ \ {c}]
      /\ Enter(i, "fail", c.player, c.run, job[i])
      /\ UNCHANGED <<stored, intake, owner, replied, crashes>>
  BY DEF CoachFails
<1> HIDE DEF k
<1>4. k.runs[c.player].result = None
  BY <1>2
<1> QED
  BY <1>2, <1>3, <1>4, CoachEndInv

\* Going on inside a section changes neither the job nor a call; what it
\* writes to result.json are the job's own results.
LEMMA GotoInv ==
    ASSUME ServiceInv, NEW i \in Instances,
           At(i, "state") \/ At(i, "result"),
           NEW step \in {"result", "log"}, Goto(i, step),
           UNCHANGED <<job, calls, intake, owner, replied, crashes>>,
           stored'.state \in Job \cup {None},
           \/ stored' = stored
           \/ stored' = [stored EXCEPT !.state = Snapshot(job[i])]
           \/ stored' = [stored EXCEPT !.results = ResultsOf(job[i])]
    PROVE  ServiceInv'
<1> USE DEF ServiceInv
<1>1. section[i] \in Section /\ section[i].step # "load" /\ section[i] # None
  BY DEF At, TypeOK
<1>2. /\ section' \in [Instances -> Section \cup {None}]
      /\ section'[i] = [section[i] EXCEPT !.step = step]
      /\ \A n \in Instances \ {i} : section'[n] = section[n]
  BY <1>1 DEF Goto, TypeOK, Section
<1>3. Up(i) /\ job[i] \in Job
  BY <1>1 DEF SectionInv, Up, TypeOK
<1>4. /\ stored' \in Stored
      /\ \A p \in Players : stored'.results[p] \in {stored.results[p], job[i].runs[p].result}
  BY <1>3, SnapshotType, ResultsOfType DEF TypeOK, Stored
<1>5. TypeOK'
  BY <1>2, <1>4 DEF TypeOK
<1>6. SectionInv'
  <2> SUFFICES ASSUME NEW n \in Instances, section'[n] # None
               PROVE  /\ section'[n].step # "load" => Up(n)' /\ section'[n].op # "restore"
                      /\ section'[n].step = "load" => ~Up(n)'
                      /\ section'[n].op \in {"select", "complete", "fail"} =>
                             section'[n].player \in Players /\ section'[n].run \in RunIds
                      /\ section'[n].op = "select" /\ section'[n].step # "load" =>
                             /\ owner'[section'[n].run] = section'[n].player
                             /\ job'[n].runs[section'[n].player] =
                                    [id |-> section'[n].run, status |-> "running",
                                     result |-> None]
                             /\ \A c \in calls'[n] : c.player # section'[n].player
    BY DEF SectionInv
  <2>1. CASE n = i
    <3>1. /\ section'[i].op = section[i].op /\ section'[i].run = section[i].run
          /\ section'[i].player = section[i].player /\ section'[i].step # "load"
      BY <1>1, <1>2 DEF Section
    <3> QED
      BY <3>1, <2>1, <1>1 DEF SectionInv, Up
  <2>2. CASE n # i
    BY <2>2, <1>2 DEF SectionInv, Up
  <2> QED
    BY <2>1, <2>2
<1>7. LiveCallOwnsRun' /\ JobResultIsRetained' /\ CoachingHasARun'
  BY DEF LiveCallOwnsRun, JobResultIsRetained, CoachingHasARun, Up
<1>8. OwnerInv'
  BY <1>3, <1>4 DEF OwnerInv, Up
<1> QED
  BY <1>5, <1>6, <1>7, <1>8

LEMMA WriteStateInv ==
    ASSUME ServiceInv, NEW i \in Instances, WriteState(i)
    PROVE  ServiceInv'
<1>1. job[i] \in Job
  BY DEF WriteState, At, ServiceInv, SectionInv, TypeOK, Up
<1>2. stored'.state \in Job \cup {None}
  BY <1>1, SnapshotType DEF WriteState, ServiceInv, TypeOK, Stored
<1> QED
  BY <1>2, GotoInv DEF WriteState

LEMMA WriteResultInv ==
    ASSUME ServiceInv, NEW i \in Instances, WriteResult(i)
    PROVE  ServiceInv'
<1>1. stored'.state \in Job \cup {None}
  BY DEF WriteResult, ServiceInv, TypeOK, Stored
<1> QED
  BY <1>1, GotoInv DEF WriteResult

LEMMA CacheFaultInv ==
    ASSUME ServiceInv, NEW i \in Instances, CacheFault(i)
    PROVE  ServiceInv'
<1>1. stored'.state \in Job \cup {None} /\ stored' = stored
  BY DEF CacheFault, ServiceInv, TypeOK, Stored
<1> QED
  BY <1>1, GotoInv DEF CacheFault

\* Leaving a section adds the call the section prepared, or none.
LEMMA EndSectionInv ==
    ASSUME ServiceInv, NEW i \in Instances, EndSection(i)
    PROVE  ServiceInv'
<1> USE DEF ServiceInv
<1> DEFINE s == section[i]
<1>1. s \in Section /\ s # None /\ s.step = "log" /\ Up(i)
  BY DEF EndSection, At, TypeOK, SectionInv
<1>2. /\ section' \in [Instances -> Section \cup {None}]
      /\ section'[i] = None
      /\ \A n \in Instances \ {i} : section'[n] = section[n]
  BY DEF EndSection, Leave, TypeOK
<1>3. UNCHANGED <<job, stored, owner, crashes>>
  BY DEF EndSection
<1>4. CASE s.op = "select"
  <2> DEFINE d == [player |-> s.player, run |-> s.run]
  <2>1. /\ s.player \in Players /\ s.run \in RunIds /\ owner[s.run] = s.player
        /\ job[i].runs[s.player] = [id |-> s.run, status |-> "running", result |-> None]
        /\ \A c \in calls[i] : c.player # s.player
    BY <1>1, <1>4 DEF SectionInv
  <2>2. d \in Call /\ d.player = s.player /\ d.run = s.run
    BY <2>1 DEF Call
  <2>3. /\ calls' = [calls EXCEPT ![i] = @ \cup {d}]
        /\ replied' = replied /\ intake' = intake
    BY <1>4 DEF EndSection
  <2> HIDE DEF d
  <2>4. /\ calls' \in [Instances -> SUBSET Call]
        /\ calls'[i] = calls[i] \cup {d}
        /\ \A n \in Instances \ {i} : calls'[n] = calls[n]
    BY <2>2, <2>3 DEF TypeOK
  <2>5. TypeOK'
    BY <1>2, <1>3, <2>3, <2>4 DEF TypeOK
  <2>6. SectionInv'
    BY <1>2, <1>3, <2>4 DEF SectionInv, Up
  <2>7. LiveCallOwnsRun'
    BY <1>1, <1>3, <2>1, <2>2, <2>4 DEF LiveCallOwnsRun, Up
  <2>8. OwnerInv'
    BY <1>3, <2>1, <2>2, <2>4 DEF OwnerInv, Up
  <2>9. JobResultIsRetained' /\ CoachingHasARun'
    BY <1>3 DEF JobResultIsRetained, CoachingHasARun, Up
  <2> QED
    BY <2>5, <2>6, <2>7, <2>8, <2>9
<1>5. CASE s.op # "select"
  <2>1. calls' = calls
    BY <1>5 DEF EndSection
  <2>2. replied' \in [RunIds -> Replies]
    BY DEF EndSection, TypeOK, Replies
  <2>3. intake' \in {"idle", "working", "returned", "lost"}
    BY DEF EndSection, TypeOK
  <2>4. TypeOK'
    BY <1>2, <1>3, <2>1, <2>2, <2>3 DEF TypeOK
  <2>5. SectionInv'
    BY <1>2, <1>3, <2>1 DEF SectionInv, Up
  <2>6. LiveCallOwnsRun' /\ OwnerInv' /\ JobResultIsRetained' /\ CoachingHasARun'
    BY <1>3, <2>1 DEF LiveCallOwnsRun, OwnerInv, JobResultIsRetained, CoachingHasARun, Up
  <2> QED
    BY <2>4, <2>5, <2>6
<1> QED
  BY <1>4, <1>5

\* An exception ends a section without touching the job - or fails the
\* preparation.
LEMMA RaiseInv ==
    ASSUME ServiceInv, NEW i \in Instances, Raise(i),
           section[i] # None, section[i].step # "load"
    PROVE  ServiceInv'
<1>1. Up(i)
  BY DEF ServiceInv, SectionInv
<1>2. CASE section[i].op = "ready"
  BY <1>1, <1>2, FailedPreparation DEF Raise
<1>3. CASE section[i].op # "ready"
  <2> USE DEF ServiceInv
  <2>1. /\ section' \in [Instances -> Section \cup {None}]
        /\ section'[i] = None
        /\ \A n \in Instances \ {i} : section'[n] = section[n]
    BY <1>3 DEF Raise, Leave, TypeOK
  <2>2. UNCHANGED <<job, calls, stored, owner, crashes>>
    BY <1>3 DEF Raise
  <2>3. /\ replied' \in [RunIds -> Replies]
        /\ intake' \in {"idle", "working", "returned", "lost"}
    BY <1>3 DEF Raise, TypeOK, Replies
  <2>4. TypeOK'
    BY <2>1, <2>2, <2>3 DEF TypeOK
  <2>5. SectionInv'
    BY <2>1, <2>2 DEF SectionInv, Up
  <2>6. LiveCallOwnsRun' /\ OwnerInv' /\ JobResultIsRetained' /\ CoachingHasARun'
    BY <2>2 DEF LiveCallOwnsRun, OwnerInv, JobResultIsRetained, CoachingHasARun, Up
  <2> QED
    BY <2>4, <2>5, <2>6
<1> QED
  BY <1>2, <1>3

LEMMA PreparationFailsInv ==
    ASSUME ServiceInv, NEW i \in Instances, PreparationFails(i)
    PROVE  ServiceInv'
BY FailedPreparation DEF PreparationFails

LEMMA BlobFaultInv ==
    ASSUME ServiceInv, NEW i \in Instances, BlobFault(i)
    PROVE  ServiceInv'
BY RaiseInv DEF BlobFault, At

LEMMA LogFaultInv ==
    ASSUME ServiceInv, NEW i \in Instances, LogFault(i)
    PROVE  ServiceInv'
BY RaiseInv DEF LogFault, At

\* A stop forgets the job, its lock and its calls together.
LEMMA CrashInv ==
    ASSUME ServiceInv, NEW i \in Instances, Crash(i)
    PROVE  ServiceInv'
<1> USE DEF ServiceInv
<1>1. /\ job' = [job EXCEPT ![i] = None]
      /\ section' = [section EXCEPT ![i] = None]
      /\ calls' = [calls EXCEPT ![i] = {}]
      /\ intake' \in {"idle", "working", "returned", "lost"}
      /\ crashes' = crashes + 1
      /\ UNCHANGED <<stored, owner, replied>>
  BY DEF Crash, TypeOK
<1>2. /\ job' \in [Instances -> Job \cup {None}] /\ job'[i] = None
      /\ \A n \in Instances \ {i} : job'[n] = job[n]
  BY <1>1 DEF TypeOK
<1>3. /\ section' \in [Instances -> Section \cup {None}] /\ section'[i] = None
      /\ \A n \in Instances \ {i} : section'[n] = section[n]
  BY <1>1 DEF TypeOK
<1>4. /\ calls' \in [Instances -> SUBSET Call] /\ calls'[i] = {}
      /\ \A n \in Instances \ {i} : calls'[n] = calls[n]
  BY <1>1 DEF TypeOK
<1>5. TypeOK'
  BY <1>1, <1>2, <1>3, <1>4 DEF TypeOK
<1>6. SectionInv'
  BY <1>1, <1>2, <1>3, <1>4 DEF SectionInv, Up
<1>7. LiveCallOwnsRun'
  BY <1>2, <1>4 DEF LiveCallOwnsRun, Up
<1>8. OwnerInv'
  BY <1>1, <1>2, <1>4 DEF OwnerInv, Up
<1>9. JobResultIsRetained' /\ CoachingHasARun'
  BY <1>1, <1>2 DEF JobResultIsRetained, CoachingHasARun, Up
<1> QED
  BY <1>5, <1>6, <1>7, <1>8, <1>9

LEMMA ReadStateInv ==
    ASSUME ServiceInv, NEW i \in Instances, ReadState(i)
    PROVE  ServiceInv'
<1> USE DEF ServiceInv
<1>1. stored.state \in Job /\ ~Up(i)
  BY DEF ReadState, TypeOK, Stored
<1>2. /\ section' \in [Instances -> Section \cup {None}]
      /\ section'[i] = [op |-> "restore", player |-> None, run |-> None,
                        step |-> "load", before |-> stored.state]
      /\ \A n \in Instances \ {i} : section'[n] = section[n]
  BY <1>1 DEF ReadState, TypeOK, Section, Operations, Result
<1>3. UNCHANGED <<job, calls, stored, intake, owner, replied, crashes>>
  BY DEF ReadState
<1>4. TypeOK'
  BY <1>2, <1>3 DEF TypeOK
<1>5. SectionInv'
  BY <1>1, <1>2, <1>3 DEF SectionInv, Up
<1>6. LiveCallOwnsRun' /\ OwnerInv' /\ JobResultIsRetained' /\ CoachingHasARun'
  BY <1>3 DEF LiveCallOwnsRun, OwnerInv, JobResultIsRetained, CoachingHasARun, Up
<1> QED
  BY <1>4, <1>5, <1>6

\* A restored job takes every result, its own included, from result.json,
\* whoever wrote it and whatever state.json it is read with.
LEMMA ReadResultInv ==
    ASSUME ServiceInv, NEW i \in Instances, ReadResult(i)
    PROVE  ServiceInv'
<1> USE DEF ServiceInv
<1> DEFINE s == section[i].before
           k == Restored(s, stored.results)
<1>1. /\ section[i] \in Section /\ section[i].step = "load" /\ section[i] # None
      /\ ~Up(i) /\ s \in Job /\ stored.results \in [Players -> Result]
  BY DEF ReadResult, At, TypeOK, Section, SectionInv, Stored
<1>2. /\ k \in Job /\ k.status # "coaching"
      /\ \A p \in Players : k.runs[p].result \in {stored.results[p], None}
      /\ k.result # None => s.selected \in Players /\ k.result = k.runs[s.selected].result
  BY <1>1, RestoredJob
<1>3. job' = [job EXCEPT ![i] = k] /\ Leave(i)
      /\ UNCHANGED <<calls, stored, intake, owner, replied, crashes>>
  BY DEF ReadResult
<1> HIDE DEF k, s
<1>4. /\ job' \in [Instances -> Job \cup {None}] /\ job'[i] = k
      /\ \A n \in Instances \ {i} : job'[n] = job[n]
  BY <1>2, <1>3 DEF TypeOK
<1>5. /\ section' \in [Instances -> Section \cup {None}] /\ section'[i] = None
      /\ \A n \in Instances \ {i} : section'[n] = section[n]
  BY <1>3 DEF Leave, TypeOK
<1>6. TypeOK'
  BY <1>3, <1>4, <1>5 DEF TypeOK
<1>7. SectionInv'
  BY <1>3, <1>4, <1>5 DEF SectionInv, Up
<1>8. LiveCallOwnsRun'
  BY <1>1, <1>3, <1>4 DEF LiveCallOwnsRun, Up
<1>9. OwnerInv'
  BY <1>2, <1>3, <1>4 DEF OwnerInv, Up
<1>10. JobResultIsRetained'
  <2> SUFFICES ASSUME NEW n \in Instances, Up(n)', job'[n].result # None
               PROVE  /\ owner'[job'[n].result] # None
                      /\ job'[n].runs[owner'[job'[n].result]].result = job'[n].result
    BY DEF JobResultIsRetained
  <2>1. CASE n # i
    BY <2>1, <1>3, <1>4 DEF JobResultIsRetained, Up
  <2>2. CASE n = i
    <3>1. s.selected \in Players /\ k.result = k.runs[s.selected].result /\ k.result # None
      BY <2>2, <1>2, <1>4
    <3>2. owner[k.result] = s.selected
      BY <3>1, <1>2 DEF OwnerInv
    <3> QED
      BY <3>1, <3>2, <2>2, <1>3, <1>4, NoneAssumption
  <2> QED
    BY <2>1, <2>2
<1>11. CoachingHasARun'
  BY <1>2, <1>4 DEF CoachingHasARun, Up
<1> QED
  BY <1>6, <1>7, <1>8, <1>9, <1>10, <1>11

LEMMA NextInv == ServiceInv /\ [Next]_vars => ServiceInv'
<1> SUFFICES ASSUME ServiceInv, [Next]_vars PROVE ServiceInv'
  OBVIOUS
<1>1. CASE Next
  <2>1. PICK i \in Instances :
          \/ Prepare(i) \/ PreparationSucceeds(i) \/ PreparationFails(i)
          \/ \E p \in Players : SelectPlayer(i, p) \/ CoachEnds(i, p)
          \/ Persist(i)
          \/ CacheFault(i) \/ BlobFault(i) \/ LogFault(i)
          \/ Crash(i)
          \/ Restore(i)
    BY <1>1 DEF Next
  <2>2. CASE Prepare(i)
    BY <2>2, PrepareInv
  <2>3. CASE PreparationSucceeds(i)
    BY <2>3, PreparationSucceedsInv
  <2>4. CASE PreparationFails(i)
    BY <2>4, PreparationFailsInv
  <2>5. CASE \E p \in Players : SelectPlayer(i, p)
    BY <2>5, SelectPlayerInv
  <2>6. CASE \E p \in Players : CoachEnds(i, p)
    BY <2>6, CoachSucceedsInv, CoachFailsInv DEF CoachEnds
  <2>7. CASE Persist(i)
    BY <2>7, WriteStateInv, WriteResultInv, EndSectionInv DEF Persist
  <2>8. CASE CacheFault(i) \/ BlobFault(i) \/ LogFault(i)
    BY <2>8, CacheFaultInv, BlobFaultInv, LogFaultInv
  <2>9. CASE Crash(i)
    BY <2>9, CrashInv
  <2>10. CASE Restore(i)
    BY <2>10, ReadStateInv, ReadResultInv DEF Restore
  <2> QED
    BY <2>1, <2>2, <2>3, <2>4, <2>5, <2>6, <2>7, <2>8, <2>9, <2>10
<1>2. CASE UNCHANGED vars
  BY <1>2 DEF vars, ServiceInv, TypeOK, SectionInv, LiveCallOwnsRun, OwnerInv,
              JobResultIsRetained, CoachingHasARun, Up
<1> QED
  BY <1>1, <1>2

-----------------------------------------------------------------------------
(* The theorems.                                                           *)

\* The inductive invariant holds in every reachable state.
THEOREM ServiceInvariant == Spec => []ServiceInv
BY InitInv, NextInv, PTL DEF Spec

\* The job, the sections and the two artifacts always hold values the code
\* puts there.
THEOREM TypeCorrectness == Spec => []TypeOK
<1>1. ServiceInv => TypeOK
  BY DEF ServiceInv
<1> QED
  BY <1>1, ServiceInvariant, PTL

\* On every process, a provider call in flight is the one its player's entry
\* records (select_player's status check under the lock).
THEOREM CallsOwnTheirRuns == Spec => []LiveCallOwnsRun
<1>1. ServiceInv => LiveCallOwnsRun
  BY DEF ServiceInv
<1> QED
  BY <1>1, ServiceInvariant, PTL

\* No write, restart or provider answer serves a result under another
\* player's name, in memory or from the artifacts.
THEOREM ResultsStayWithTheirPlayer == Spec => []ResultsBelongToTheirPlayer
<1>1. ServiceInv => ResultsBelongToTheirPlayer
  <2> SUFFICES ASSUME ServiceInv, NEW p \in Players
               PROVE  /\ \A i \in Instances : Up(i) /\ ResultOfPlayer(job[i], p) \in RunIds =>
                             owner[ResultOfPlayer(job[i], p)] = p
                      /\ stored.results[p] # None => owner[stored.results[p]] = p
    BY DEF ResultsBelongToTheirPlayer
  <2>1. ASSUME NEW i \in Instances, Up(i), ResultOfPlayer(job[i], p) \in RunIds
        PROVE  owner[ResultOfPlayer(job[i], p)] = p
    <3>1. ResultOfPlayer(job[i], p) \notin NoResult
      BY <2>1, RunIdAssumption
    <3>2. /\ job[i].runs[p].result # None
          /\ ResultOfPlayer(job[i], p) = job[i].runs[p].result
      BY <3>1 DEF ResultOfPlayer, NoResult
    <3> QED
      BY <3>2, <2>1 DEF ServiceInv, OwnerInv
  <2>2. stored.results[p] # None => owner[stored.results[p]] = p
    BY DEF ServiceInv, OwnerInv
  <2> QED
    BY <2>1, <2>2
<1> QED
  BY <1>1, ServiceInvariant, PTL

\* The result a request without a player gets is one its player still has.
THEOREM JobResultStaysRetained == Spec => []JobResultIsRetained
<1>1. ServiceInv => JobResultIsRetained
  BY DEF ServiceInv
<1> QED
  BY <1>1, ServiceInvariant, PTL

\* A job that says it is coaching has a run in progress for the player
\* selected last.
THEOREM CoachingJobHasARun == Spec => []CoachingHasARun
<1>1. ServiceInv => CoachingHasARun
  BY DEF ServiceInv
<1> QED
  BY <1>1, ServiceInvariant, PTL

-----------------------------------------------------------------------------
(* Where an exception of a write is never raised - the local artifacts may *)
(* fail, the Blob store and the log do not - a request is told "error" of  *)
(* a run only if nothing, on any process or in the store, says that the    *)
(* run is complete.                                                        *)

RunOps == {"select", "complete", "fail"}

\* Job j shows run r as complete.
Shows(j, r) == \E p \in Players : j.runs[p].id = r /\ j.runs[p].status = "complete"

Completed(r) ==
    \/ \E i \in Instances : Up(i) /\ Shows(job[i], r)
    \/ stored.state # None /\ Shows(stored.state, r)
    \/ \E i \in Instances : ~Free(i) /\ Shows(section[i].before, r)

\* Process i waits for the provider's answer to run r, or has a section of
\* one of these operations for it.
Called(i, r)    == \E c \in calls[i] : c.run = r
Held(i, r, ops) == ~Free(i) /\ section[i].run = r /\ section[i].op \in ops

\* A run is in one place at a time, and is complete nowhere before it ends.
AnswerInv(r) ==
    /\ \A i, k \in Instances : \A c \in calls[i], d \in calls[k] :
           c.run = r /\ d.run = r => i = k /\ c = d
    /\ \A i, k \in Instances : ~(Called(i, r) /\ Held(k, r, RunOps))
    /\ \A i, k \in Instances : Held(i, r, RunOps) /\ Held(k, r, RunOps) => i = k
    /\ Completed(r) =>
           \A i \in Instances : ~Called(i, r) /\ ~Held(i, r, {"select", "fail"})
    /\ Completed(r) => replied[r] # "error" /\ owner[r] # None
    /\ \A i \in Instances :
           Called(i, r) \/ Held(i, r, RunOps) => replied[r] # "error" /\ owner[r] # None
    /\ owner[r] = None => replied[r] # "error"

LEMMA SnapshotShows ==
    ASSUME NEW j \in Job, NEW r \in RunIds, Shows(Snapshot(j), r)
    PROVE  Shows(j, r)
BY DEF Shows, Snapshot, Job, Runs, Run

LEMMA RestoredShows ==
    ASSUME NEW j \in Job, NEW results \in [Players -> Result], NEW r \in RunIds,
           Shows(Restored(j, results), r)
    PROVE  Shows(j, r)
<1>1. PICK p \in Players : /\ RestoredRun(j, j.runs[p], results[p]).id = r
                           /\ RestoredRun(j, j.runs[p], results[p]).status = "complete"
  BY DEF Shows, Restored
<1>2. j.runs[p].id = r /\ j.runs[p].status = "complete"
  BY <1>1 DEF RestoredRun, RestoredStatus, NoRun
<1> QED
  BY <1>2 DEF Shows

\* A step of one process that completes no run.
LEMMA CompletedStep ==
    ASSUME NEW i \in Instances, NEW r \in RunIds,
           \A k \in Instances \ {i} : job'[k] = job[k] /\ section'[k] = section[k],
           job'[i] # None /\ Shows(job'[i], r) => Completed(r),
           stored'.state # None /\ Shows(stored'.state, r) => Completed(r),
           section'[i] # None /\ Shows(section'[i].before, r) => Completed(r)
    PROVE  Completed(r)' => Completed(r)
<1>1. ASSUME NEW k \in Instances, Up(k)', Shows(job'[k], r) PROVE Completed(r)
  <2>1. CASE k = i
    BY <1>1, <2>1 DEF Up
  <2>2. CASE k # i
    BY <1>1, <2>2 DEF Up, Completed
  <2> QED
    BY <2>1, <2>2
<1>2. ASSUME NEW k \in Instances, ~Free(k)', Shows(section'[k].before, r) PROVE Completed(r)
  <2>1. CASE k = i
    BY <1>2, <2>1 DEF Free
  <2>2. CASE k # i
    BY <1>2, <2>2 DEF Free, Completed
  <2> QED
    BY <2>1, <2>2
<1>3. ASSUME Completed(r)'
      PROVE  \/ \E k \in Instances : Up(k)' /\ Shows(job'[k], r)
             \/ stored'.state # None /\ Shows(stored'.state, r)
             \/ \E k \in Instances : ~Free(k)' /\ Shows(section'[k].before, r)
  BY <1>3 DEF Completed, Shows
<1> QED
  BY <1>1, <1>2, <1>3

\* A step of one process that does nothing for run r.
LEMMA QuietStep ==
    ASSUME ServiceInv, NEW i \in Instances, NEW r \in RunIds, AnswerInv(r),
           \A k \in Instances \ {i} : /\ job'[k] = job[k] /\ section'[k] = section[k]
                                      /\ calls'[k] = calls[k],
           \A c \in calls'[i] : c.run = r => c \in calls[i],
           job'[i] # None /\ Shows(job'[i], r) => Completed(r),
           stored'.state # None /\ Shows(stored'.state, r) => Completed(r),
           section'[i] # None /\ Shows(section'[i].before, r) => Completed(r),
           section'[i] # None /\ section'[i].run = r /\ section'[i].op \in RunOps =>
               ~Free(i) /\ section[i].run = r /\ section[i].op = section'[i].op,
           replied'[r] = replied[r], owner'[r] = owner[r]
    PROVE  AnswerInv(r)'
<1>1. Completed(r)' => Completed(r)
  BY CompletedStep
<1>2. \A k \in Instances : \A c \in calls'[k] : c.run = r => c \in calls[k]
  OBVIOUS
<1>3. \A k \in Instances : Called(k, r)' => Called(k, r)
  BY <1>2 DEF Called
<1>4. ASSUME NEW k \in Instances, NEW ops, ops \subseteq RunOps, Held(k, r, ops)'
      PROVE  Held(k, r, ops)
  <2>1. ~Free(k)' /\ section'[k].run = r /\ section'[k].op \in ops
    BY <1>4 DEF Held
  <2>2. CASE k = i
    BY <1>4, <2>1, <2>2 DEF Free, Held
  <2>3. CASE k # i
    BY <1>4, <2>1, <2>3 DEF Free, Held
  <2> QED
    BY <2>2, <2>3
<1>5. \A k \in Instances : /\ Held(k, r, RunOps)' => Held(k, r, RunOps)
                           /\ Held(k, r, {"select", "fail"})' => Held(k, r, {"select", "fail"})
  BY <1>4 DEF RunOps
<1> QED
  BY <1>1, <1>2, <1>3, <1>5 DEF AnswerInv

\* What the steps of one process leave alone.
LEMMA OtherProcesses ==
    ASSUME ServiceInv, NEW i \in Instances, NEW j, NEW s, NEW cs
    PROVE  /\ job' = [job EXCEPT ![i] = j] =>
                  job'[i] = j /\ \A k \in Instances \ {i} : job'[k] = job[k]
           /\ section' = [section EXCEPT ![i] = s] =>
                  section'[i] = s /\ \A k \in Instances \ {i} : section'[k] = section[k]
           /\ calls' = [calls EXCEPT ![i] = cs] =>
                  calls'[i] = cs /\ \A k \in Instances \ {i} : calls'[k] = calls[k]
BY DEF ServiceInv, TypeOK

\* What a process has of a run is complete if it shows it so.
LEMMA ShownIsCompleted ==
    ASSUME NEW i \in Instances, NEW r \in RunIds
    PROVE  /\ Up(i) /\ Shows(job[i], r) => Completed(r)
           /\ stored.state # None /\ Shows(stored.state, r) => Completed(r)
           /\ ~Free(i) /\ Shows(section[i].before, r) => Completed(r)
BY DEF Completed

LEMMA InitAnswer ==
    ASSUME Init, NEW r \in RunIds
    PROVE  AnswerInv(r)
BY DEF Init, AnswerInv, Completed, Called, Held, Up, Free

\* Preparing: no run is touched.
LEMMA PreparingAnswer ==
    ASSUME ServiceInv, NEW i \in Instances, NEW r \in RunIds, AnswerInv(r),
           \/ Prepare(i) \/ PreparationSucceeds(i) \/ PreparationFails(i)
    PROVE  AnswerInv(r)'
<1>1. ~Shows(NewJob, r)
  BY DEF Shows, NewJob, NoRun
<1>2. CASE Prepare(i)
  <2>1. PICK s : s = [op |-> "receive", player |-> None, run |-> None,
                      step |-> "state", before |-> NewJob]
    OBVIOUS
  <2>2. /\ job' = [job EXCEPT ![i] = NewJob] /\ section' = [section EXCEPT ![i] = s]
        /\ UNCHANGED <<calls, stored, owner, replied>>
    BY <1>2, <2>1 DEF Prepare, Enter
  <2>3. s.before = NewJob /\ s.run # r
    BY <2>1, NoneAssumption
  <2>4. /\ job'[i] = NewJob /\ section'[i] = s
        /\ \A k \in Instances \ {i} : job'[k] = job[k] /\ section'[k] = section[k]
    BY <2>2, OtherProcesses
  <2>5. stored'.state # None /\ Shows(stored'.state, r) => Completed(r)
    BY <2>2, ShownIsCompleted
  <2> QED
    BY <1>1, <2>2, <2>3, <2>4, <2>5, QuietStep
<1>3. CASE PreparationSucceeds(i) \/ PreparationFails(i)
  <2>1. Up(i) /\ job[i] \in Job
    BY <1>3 DEF PreparationSucceeds, PreparationFails, Up, ServiceInv, TypeOK
  <2>2. PICK op : Enter(i, op, None, None, job[i])
    BY <1>3 DEF PreparationSucceeds, PreparationFails
  <2>3. PICK s : s = [op |-> op, player |-> None, run |-> None,
                      step |-> "state", before |-> job[i]]
    OBVIOUS
  <2>4. section' = [section EXCEPT ![i] = s] /\ UNCHANGED <<calls, stored, owner, replied>>
    BY <1>3, <2>2, <2>3 DEF PreparationSucceeds, PreparationFails, Enter
  <2>5. PICK j : job' = [job EXCEPT ![i] = j] /\ j.runs = job[i].runs
    <3>1. CASE PreparationSucceeds(i)
      <4>1. PICK j : j = [job[i] EXCEPT !.prepared = TRUE, !.status = "ready"]
        OBVIOUS
      <4>2. job' = [job EXCEPT ![i] = j] /\ j.runs = job[i].runs
        BY <2>1, <3>1, <4>1 DEF PreparationSucceeds, Job, ServiceInv, TypeOK
      <4> QED
        BY <4>2
    <3>2. CASE PreparationFails(i)
      <4>1. PICK j : j = [job[i] EXCEPT !.status = "failed"]
        OBVIOUS
      <4>2. job' = [job EXCEPT ![i] = j] /\ j.runs = job[i].runs
        BY <2>1, <3>2, <4>1 DEF PreparationFails, Job, ServiceInv, TypeOK
      <4> QED
        BY <4>2
    <3> QED
      BY <1>3, <3>1, <3>2
  <2>6. Shows(j, r) => Shows(job[i], r)
    BY <2>5 DEF Shows
  <2>7. s.before = job[i] /\ s.run # r
    BY <2>3, NoneAssumption
  <2>8. /\ job'[i] = j /\ section'[i] = s
        /\ \A k \in Instances \ {i} : job'[k] = job[k] /\ section'[k] = section[k]
    BY <2>4, <2>5, OtherProcesses
  <2>9. /\ stored'.state # None /\ Shows(stored'.state, r) => Completed(r)
        /\ Shows(job[i], r) => Completed(r)
    BY <2>1, <2>4, ShownIsCompleted
  <2> QED
    BY <2>4, <2>6, <2>7, <2>8, <2>9, QuietStep
<1> QED
  BY <1>2, <1>3


\* A run starts under an identifier nobody has seen.
LEMMA SelectAnswer ==
    ASSUME ServiceInv, NEW i \in Instances, NEW r \in RunIds, AnswerInv(r),
           NEW p \in Players, SelectPlayer(i, p)
    PROVE  AnswerInv(r)'
<1>1. PICK x \in RunIds :
        /\ owner[x] = None
        /\ owner' = [owner EXCEPT ![x] = p]
        /\ job' = [job EXCEPT ![i] = Started(job[i], p, x)]
        /\ Enter(i, "select", p, x, job[i])
  BY DEF SelectPlayer
<1>2. Up(i) /\ Free(i) /\ job[i] \in Job /\ UNCHANGED <<calls, stored, replied>>
  BY DEF SelectPlayer, Up, ServiceInv, TypeOK
<1>3. PICK j : j = Started(job[i], p, x)
  OBVIOUS
<1>4. PICK s : s = [op |-> "select", player |-> p, run |-> x,
                    step |-> "state", before |-> job[i]]
  OBVIOUS
<1>5. /\ job'[i] = j /\ section'[i] = s
      /\ \A k \in Instances \ {i} : job'[k] = job[k] /\ section'[k] = section[k]
  <2>1. job' = [job EXCEPT ![i] = j]
    BY <1>1, <1>3
  <2>2. section' = [section EXCEPT ![i] = s]
    BY <1>1, <1>4 DEF Enter
  <2> QED
    BY <2>1, <2>2, OtherProcesses
<1>6. s.before = job[i] /\ s.run = x /\ s.op = "select"
  BY <1>4
<1>7. Shows(j, r) => Shows(job[i], r)
  <2>1. /\ j.runs[p] = [id |-> x, status |-> "running", result |-> None]
        /\ \A q \in Players \ {p} : j.runs[q] = job[i].runs[q]
    BY <1>2, <1>3, StartedJob
  <2>2. j.runs[p].status = "running"
    BY <2>1
  <2> QED
    BY <2>1, <2>2 DEF Shows
<1>8. /\ stored'.state # None /\ Shows(stored'.state, r) => Completed(r)
      /\ Shows(job[i], r) => Completed(r)
  BY <1>2, ShownIsCompleted
<1>9. owner' \in [RunIds -> Players \cup {None}] /\ owner'[x] = p
      /\ \A y \in RunIds \ {x} : owner'[y] = owner[y]
  BY <1>1 DEF ServiceInv, TypeOK
<1>10. CASE x # r
  BY <1>2, <1>5, <1>6, <1>7, <1>8, <1>9, <1>10, QuietStep
<1>11. CASE x = r
  <2>1. ~Completed(r)'
    <3>1. Completed(r)' => Completed(r)
      BY <1>5, <1>6, <1>7, <1>8, CompletedStep
    <3> QED
      BY <1>1, <1>11, <3>1 DEF AnswerInv
  <2>2. \A k \in Instances : ~Called(k, r)' /\ \A c \in calls'[k] : c.run # r
    BY <1>1, <1>2, <1>11 DEF AnswerInv, Called
  <2>3. \A k \in Instances : Held(k, r, RunOps)' => k = i
    <3>1. ASSUME NEW k \in Instances, k # i PROVE ~Held(k, r, RunOps)'
      BY <1>1, <1>5, <1>11, <3>1 DEF AnswerInv, Held, Free
    <3> QED
      BY <3>1
  <2>4. replied'[r] # "error" /\ owner'[r] # None
    BY <1>1, <1>2, <1>9, <1>11, NoneAssumption DEF AnswerInv
  <2> QED
    BY <2>1, <2>2, <2>3, <2>4 DEF AnswerInv
<1> QED
  BY <1>10, <1>11

\* Its call ends, in the one section that says how.
LEMMA EndsAnswer ==
    ASSUME ServiceInv, NEW i \in Instances, NEW r \in RunIds, AnswerInv(r),
           NEW c \in calls[i], NEW op \in {"complete", "fail"}, NEW j,
           (op = "complete" /\ r = c.run) \/ (Shows(j, r) => Shows(job[i], r)),
           job' = [job EXCEPT ![i] = j], calls' = [calls EXCEPT ![i] = @ \ {c}],
           Enter(i, op, c.player, c.run, job[i]),
           UNCHANGED <<stored, owner, replied>>
    PROVE  AnswerInv(r)'
<1>1. PICK s : s = [op |-> op, player |-> c.player, run |-> c.run,
                    step |-> "state", before |-> job[i]]
  OBVIOUS
<1>2. s.before = job[i] /\ s.run = c.run /\ s.op = op
  BY <1>1
<1>3. /\ job'[i] = j /\ section'[i] = s /\ calls'[i] = calls[i] \ {c}
      /\ \A k \in Instances \ {i} : /\ job'[k] = job[k] /\ section'[k] = section[k]
                                    /\ calls'[k] = calls[k]
  <2>1. section' = [section EXCEPT ![i] = s]
    BY <1>1 DEF Enter
  <2>2. job' = [job EXCEPT ![i] = j] /\ calls' = [calls EXCEPT ![i] = calls[i] \ {c}]
    OBVIOUS
  <2>3. section'[i] = s /\ \A k \in Instances \ {i} : section'[k] = section[k]
    BY <2>1, OtherProcesses
  <2>4. job'[i] = j /\ \A k \in Instances \ {i} : job'[k] = job[k]
    BY <2>2, OtherProcesses
  <2>5. calls'[i] = calls[i] \ {c} /\ \A k \in Instances \ {i} : calls'[k] = calls[k]
    BY <2>2, OtherProcesses
  <2> QED
    BY <2>3, <2>4, <2>5
<1>4. /\ stored'.state # None /\ Shows(stored'.state, r) => Completed(r)
      /\ Shows(job[i], r) => Completed(r)
  BY ShownIsCompleted DEF ServiceInv, LiveCallOwnsRun
<1>5. CASE c.run # r
  BY <1>2, <1>3, <1>4, <1>5, QuietStep
<1>6. CASE c.run = r
  <2>1. Called(i, r) /\ ~Completed(r) /\ replied[r] # "error" /\ owner[r] # None
    BY <1>6 DEF Called, AnswerInv
  <2>2. \A k \in Instances : \A d \in calls'[k] : d.run # r
    BY <1>3, <1>6 DEF AnswerInv
  <2>3. \A k \in Instances : ~Called(k, r)'
    BY <2>2 DEF Called
  <2>4. \A k \in Instances : Held(k, r, RunOps)' => k = i
    <3>1. ASSUME NEW k \in Instances, k # i PROVE ~Held(k, r, RunOps)'
      BY <1>3, <2>1, <3>1 DEF AnswerInv, Held, Free
    <3> QED
      BY <3>1
  <2>5. Completed(r)' => \A k \in Instances : ~Held(k, r, {"select", "fail"})'
    <3>1. CASE op = "complete"
      <4>1. ~Held(i, r, {"select", "fail"})'
        BY <1>2, <1>3, <3>1 DEF Held
      <4>2. \A k \in Instances : Held(k, r, {"select", "fail"})' => Held(k, r, RunOps)'
        BY DEF Held, RunOps
      <4> QED
        BY <2>4, <4>1, <4>2
    <3>2. CASE op = "fail"
      <4>1. Shows(j, r) => Completed(r)
        BY <1>4, <3>2
      <4>2. Completed(r)' => Completed(r)
        BY <1>2, <1>3, <1>4, <4>1, CompletedStep
      <4> QED
        BY <2>1, <4>2
    <3> QED
      BY <3>1, <3>2
  <2> QED
    BY <2>1, <2>2, <2>3, <2>4, <2>5 DEF AnswerInv
<1> QED
  BY <1>5, <1>6

LEMMA CoachEndsAnswer ==
    ASSUME ServiceInv, NEW i \in Instances, NEW r \in RunIds, AnswerInv(r),
           NEW p \in Players, CoachEnds(i, p)
    PROVE  AnswerInv(r)'
<1>1. PICK c \in calls[i] : CoachSucceeds(i, c) \/ CoachFails(i, c)
  BY DEF CoachEnds
<1>2. c \in Call /\ job[i] \in Job
  BY DEF ServiceInv, TypeOK, LiveCallOwnsRun, Up
<1>3. CASE CoachSucceeds(i, c)
  <2>1. PICK j : j = Succeeded(job[i], c)
    OBVIOUS
  <2>2. /\ j.runs[c.player] = [id |-> c.run, status |-> "complete", result |-> c.run]
        /\ \A q \in Players \ {c.player} : j.runs[q] = job[i].runs[q]
    BY <1>2, <2>1, SucceededJob
  <2>3. j.runs[c.player].id = c.run
    BY <2>2
  <2>4. r = c.run \/ (Shows(j, r) => Shows(job[i], r))
    BY <2>2, <2>3 DEF Shows
  <2>5. /\ job' = [job EXCEPT ![i] = j] /\ calls' = [calls EXCEPT ![i] = @ \ {c}]
        /\ Enter(i, "complete", c.player, c.run, job[i]) /\ UNCHANGED <<stored, owner, replied>>
    BY <1>3, <2>1 DEF CoachSucceeds
  <2> QED
    BY <2>4, <2>5, EndsAnswer
<1>4. CASE CoachFails(i, c)
  <2>1. PICK j : j = Failed(job[i], c)
    OBVIOUS
  <2>2. /\ j.runs[c.player] = [id |-> c.run, status |-> "failed", result |-> None]
        /\ \A q \in Players \ {c.player} : j.runs[q] = job[i].runs[q]
    BY <1>2, <2>1, FailedJob
  <2>3. j.runs[c.player].status = "failed"
    BY <2>2
  <2>4. Shows(j, r) => Shows(job[i], r)
    BY <2>2, <2>3 DEF Shows
  <2>5. /\ job' = [job EXCEPT ![i] = j] /\ calls' = [calls EXCEPT ![i] = @ \ {c}]
        /\ Enter(i, "fail", c.player, c.run, job[i]) /\ UNCHANGED <<stored, owner, replied>>
    BY <1>4, <2>1 DEF CoachFails
  <2> QED
    BY <2>4, <2>5, EndsAnswer
<1> QED
  BY <1>1, <1>3, <1>4

\* A section goes on, written or not.
LEMMA GotoAnswer ==
    ASSUME ServiceInv, NEW i \in Instances, NEW r \in RunIds, AnswerInv(r),
           WriteState(i) \/ WriteResult(i) \/ CacheFault(i)
    PROVE  AnswerInv(r)'
<1>1. ~Free(i) /\ section[i] \in Section /\ Up(i) /\ job[i] \in Job
  BY DEF WriteState, WriteResult, CacheFault, At, Free, Up, ServiceInv, TypeOK, SectionInv
<1>2. PICK step : Goto(i, step)
  BY DEF WriteState, WriteResult, CacheFault
<1>3. PICK s : s = [section[i] EXCEPT !.step = step]
  OBVIOUS
<1>4. s.before = section[i].before /\ s.run = section[i].run /\ s.op = section[i].op
  BY <1>1, <1>3 DEF Section
<1>5. section' = [section EXCEPT ![i] = s]
  BY <1>2, <1>3 DEF Goto, ServiceInv, TypeOK
<1>6. section'[i] = s /\ \A k \in Instances \ {i} : section'[k] = section[k]
  BY <1>5, OtherProcesses
<1>7. UNCHANGED <<job, calls, owner, replied>>
  BY DEF WriteState, WriteResult, CacheFault
<1>8. stored'.state = stored.state \/ stored'.state = Snapshot(job[i])
  BY DEF WriteState, WriteResult, CacheFault, ServiceInv, TypeOK, Stored
<1>9. /\ Shows(job[i], r) => Completed(r)
      /\ Shows(s.before, r) => Completed(r)
      /\ stored'.state # None /\ Shows(stored'.state, r) => Completed(r)
  BY <1>1, <1>4, <1>8, ShownIsCompleted, SnapshotShows
<1> QED
  BY <1>1, <1>4, <1>6, <1>7, <1>9, QuietStep

\* The lock is released: the request of run r calls the provider, or answers.
LEMMA EndSectionAnswer ==
    ASSUME ServiceInv, NEW i \in Instances, NEW r \in RunIds, AnswerInv(r), EndSection(i)
    PROVE  AnswerInv(r)'
<1>1. PICK s : s = section[i]
  OBVIOUS
<1>2. ~Free(i) /\ s \in Section /\ s.step = "log"
  BY <1>1 DEF EndSection, At, Free, ServiceInv, TypeOK
<1>3. s.op \in RunOps => s.player \in Players /\ s.run \in RunIds
  BY <1>1, <1>2 DEF ServiceInv, SectionInv, RunOps, Free
<1>4. section' = [section EXCEPT ![i] = None] /\ UNCHANGED <<job, stored, owner>>
  BY DEF EndSection, Leave
<1>5. section'[i] = None /\ \A k \in Instances \ {i} : section'[k] = section[k]
  BY <1>4, OtherProcesses
<1>6. ASSUME s.op # "select" PROVE calls' = calls
  BY <1>1, <1>6 DEF EndSection
<1>7. ASSUME s.op = "select"
      PROVE  /\ calls'[i] = calls[i] \cup {[player |-> s.player, run |-> s.run]}
             /\ \A k \in Instances \ {i} : calls'[k] = calls[k]
  <2>1. PICK cs : cs = calls[i] \cup {[player |-> s.player, run |-> s.run]}
    OBVIOUS
  <2>2. calls' = [calls EXCEPT ![i] = cs]
    BY <1>1, <1>7, <2>1 DEF EndSection
  <2> QED
    BY <2>1, <2>2, OtherProcesses
<1>8. \A k \in Instances \ {i} : calls'[k] = calls[k]
  BY <1>6, <1>7
<1>9. /\ Up(i) /\ Shows(job[i], r) => Completed(r)
      /\ stored.state # None /\ Shows(stored.state, r) => Completed(r)
  BY ShownIsCompleted
<1>10. Completed(r)' => Completed(r)
  BY <1>4, <1>5, <1>9, CompletedStep DEF Up
<1>11. ASSUME NEW k \in Instances, Held(k, r, RunOps)' PROVE Held(k, r, RunOps) /\ k # i
  BY <1>5, <1>11 DEF Held, Free
<1>12. CASE s.op \notin RunOps \/ s.run # r
  <2>1. \A c \in calls'[i] : c.run = r => c \in calls[i]
    BY <1>6, <1>7, <1>12 DEF RunOps
  <2>2. replied'[r] = replied[r]
    BY <1>1, <1>3, <1>12 DEF EndSection, RunOps, ServiceInv, TypeOK
  <2> QED
    BY <1>4, <1>5, <1>8, <1>9, <2>1, <2>2, QuietStep DEF Up
<1>13. CASE s.op \in RunOps /\ s.run = r
  <2>1. Held(i, r, RunOps)
    BY <1>1, <1>2, <1>13 DEF Held
  <2>2. /\ \A k \in Instances : ~Called(k, r)
        /\ replied[r] # "error" /\ owner[r] # None
    BY <2>1 DEF AnswerInv
  <2>3. \A k \in Instances : ~Held(k, r, RunOps)'
    BY <1>11, <2>1 DEF AnswerInv
  <2>4. \A k \in Instances : ~Held(k, r, {"select", "fail"})'
    BY <2>3 DEF Held, RunOps
  <2>5. CASE s.op = "select"
    <3>1. Held(i, r, {"select", "fail"})
      BY <1>1, <1>2, <1>13, <2>5 DEF Held
    <3>2. ~Completed(r)'
      BY <1>10, <3>1 DEF AnswerInv
    <3>3. PICK c : c = [player |-> s.player, run |-> r]
      OBVIOUS
    <3>4. \A k \in Instances : \A d \in calls'[k] : d.run = r => k = i /\ d = c
      BY <1>7, <1>8, <1>13, <2>2, <2>5, <3>3 DEF Called
    <3>5. replied' = replied
      BY <1>1, <2>5 DEF EndSection
    <3> QED
      BY <1>4, <2>2, <2>3, <3>2, <3>4, <3>5 DEF AnswerInv
  <2>6. CASE s.op # "select"
    <3>1. \A k \in Instances : ~Called(k, r)' /\ \A d \in calls'[k] : d.run # r
      BY <1>6, <2>2, <2>6 DEF Called
    <3>2. Completed(r)' => replied'[r] # "error"
      <4>1. CASE s.op = "complete"
        <5>1. replied' = [replied EXCEPT ![r] = "done"]
          BY <1>1, <1>13, <4>1 DEF EndSection
        <5> QED
          BY <5>1 DEF ServiceInv, TypeOK
      <4>2. CASE s.op # "complete"
        <5>1. Held(i, r, {"select", "fail"})
          BY <1>1, <1>2, <1>13, <2>6, <4>2 DEF Held, RunOps
        <5> QED
          BY <1>10, <5>1 DEF AnswerInv
      <4> QED
        BY <4>1, <4>2
    <3> QED
      BY <1>4, <2>2, <2>3, <2>4, <3>1, <3>2 DEF AnswerInv
  <2> QED
    BY <2>5, <2>6
<1> QED
  BY <1>12, <1>13

\* A process that stops, or starts again, completes nothing.
LEMMA CrashAnswer ==
    ASSUME ServiceInv, NEW i \in Instances, NEW r \in RunIds, AnswerInv(r), Crash(i)
    PROVE  AnswerInv(r)'
<1>1. /\ job' = [job EXCEPT ![i] = None]
      /\ section' = [section EXCEPT ![i] = None]
      /\ calls' = [calls EXCEPT ![i] = {}]
      /\ UNCHANGED <<stored, owner, replied>>
  BY DEF Crash
<1>2. job'[i] = None /\ \A k \in Instances \ {i} : job'[k] = job[k]
  BY <1>1, OtherProcesses
<1>3. section'[i] = None /\ \A k \in Instances \ {i} : section'[k] = section[k]
  BY <1>1, OtherProcesses
<1>4. calls'[i] = {} /\ \A k \in Instances \ {i} : calls'[k] = calls[k]
  BY <1>1, OtherProcesses
<1>5. stored'.state # None /\ Shows(stored'.state, r) => Completed(r)
  BY <1>1, ShownIsCompleted
<1> QED
  BY <1>1, <1>2, <1>3, <1>4, <1>5, QuietStep

LEMMA RestoreAnswer ==
    ASSUME ServiceInv, NEW i \in Instances, NEW r \in RunIds, AnswerInv(r), Restore(i)
    PROVE  AnswerInv(r)'
<1>1. UNCHANGED <<calls, stored, owner, replied>>
  BY DEF Restore, ReadState, ReadResult
<1>2. stored'.state # None /\ Shows(stored'.state, r) => Completed(r)
  BY <1>1, ShownIsCompleted
<1>3. CASE ReadState(i)
  <2>1. PICK s : s = [op |-> "restore", player |-> None, run |-> None,
                      step |-> "load", before |-> stored.state]
    OBVIOUS
  <2>2. section' = [section EXCEPT ![i] = s] /\ job' = job /\ stored.state # None /\ ~Up(i)
    BY <1>3, <2>1 DEF ReadState
  <2>3. section'[i] = s /\ \A k \in Instances \ {i} : section'[k] = section[k]
    BY <2>2, OtherProcesses
  <2>4. s.before = stored.state /\ s.run # r
    BY <2>1, NoneAssumption
  <2>5. Shows(s.before, r) => Completed(r)
    BY <2>2, <2>4, ShownIsCompleted
  <2> QED
    BY <1>1, <1>2, <2>2, <2>3, <2>4, <2>5, QuietStep DEF Up
<1>4. CASE ReadResult(i)
  <2>1. PICK j : j = Restored(section[i].before, stored.results)
    OBVIOUS
  <2>2. job' = [job EXCEPT ![i] = j] /\ section' = [section EXCEPT ![i] = None]
    BY <1>4, <2>1 DEF ReadResult, Leave
  <2>3. job'[i] = j /\ \A k \in Instances \ {i} : job'[k] = job[k]
    BY <2>2, OtherProcesses
  <2>4. section'[i] = None /\ \A k \in Instances \ {i} : section'[k] = section[k]
    BY <2>2, OtherProcesses
  <2>5. ~Free(i) /\ section[i].before \in Job /\ stored.results \in [Players -> Result]
    BY <1>4 DEF ReadResult, At, Free, ServiceInv, TypeOK, Section, Stored
  <2>6. Shows(j, r) => Completed(r)
    BY <2>1, <2>5, RestoredShows, ShownIsCompleted
  <2> QED
    BY <1>1, <1>2, <2>3, <2>4, <2>6, QuietStep
<1> QED
  BY <1>3, <1>4 DEF Restore

LEMMA NextAnswer ==
    ASSUME Faults \subseteq {"cache"}, ServiceInv, NEW r \in RunIds, AnswerInv(r), [Next]_vars
    PROVE  AnswerInv(r)'
<1>1. CASE UNCHANGED vars
  BY <1>1 DEF vars, AnswerInv, Completed, Called, Held, Up, Free
<1>2. ASSUME NEW i \in Instances, Prepare(i) \/ PreparationSucceeds(i) \/ PreparationFails(i)
      PROVE  AnswerInv(r)'
  BY <1>2, PreparingAnswer
<1>3. ASSUME NEW i \in Instances, NEW p \in Players, SelectPlayer(i, p) \/ CoachEnds(i, p)
      PROVE  AnswerInv(r)'
  BY <1>3, SelectAnswer, CoachEndsAnswer
<1>4. ASSUME NEW i \in Instances, Persist(i) \/ CacheFault(i)
      PROVE  AnswerInv(r)'
  BY <1>4, GotoAnswer, EndSectionAnswer DEF Persist
<1>5. ASSUME NEW i \in Instances PROVE ~BlobFault(i) /\ ~LogFault(i)
  BY DEF BlobFault, LogFault
<1>6. ASSUME NEW i \in Instances, Crash(i) \/ Restore(i)
      PROVE  AnswerInv(r)'
  BY <1>6, CrashAnswer, RestoreAnswer
<1> QED
  BY <1>1, <1>2, <1>3, <1>4, <1>5, <1>6 DEF Next

\* When only local artifacts can fail to be written, no coaching that a
\* process shows as complete was answered with an error: on any number of
\* processes, through any stops and restarts.
THEOREM SuccessesAreAnswered ==
    ASSUME Faults \subseteq {"cache"}
    PROVE  Spec => []SuccessIsAnswered
<1> DEFINE Inv == ServiceInv /\ \A r \in RunIds : AnswerInv(r)
<1>1. Init => Inv
  BY InitInv, InitAnswer
<1>2. Inv /\ [Next]_vars => Inv'
  BY NextInv, NextAnswer
<1>3. Inv => SuccessIsAnswered
  <2>1. ASSUME Inv, NEW i \in Instances, NEW r \in RunIds, Up(i), replied[r] = "error",
               NEW p \in Players,
               job[i].runs[p] = [id |-> r, status |-> "complete", result |-> r]
        PROVE  FALSE
    <3>1. job[i].runs[p].id = r /\ job[i].runs[p].status = "complete"
      BY <2>1
    <3>2. Completed(r)
      BY <2>1, <3>1 DEF Completed, Shows
    <3> QED
      BY <2>1, <3>2 DEF AnswerInv
  <2> QED
    BY <2>1 DEF SuccessIsAnswered
<1> HIDE DEF Inv
<1> QED
  BY <1>1, <1>2, <1>3, PTL DEF Spec

-----------------------------------------------------------------------------
(* One process that never stops and whose log can be written: each run it  *)
(* shows as running is one it is about to call the provider for, or waits  *)
(* for.                                                                    *)

PrepInv(i) ==
    /\ intake # "idle" => Up(i)
    /\ ~Free(i) => Up(i)
    /\ Up(i) => \A p \in Players : job[i].runs[p].status = "running" =>
           \/ \E c \in calls[i] : c.player = p
           \/ ~Free(i) /\ section[i].op = "select" /\ section[i].player = p

\* A step that starts no run and ends none.
LEMMA QuietPrep ==
    ASSUME NEW i \in Instances, PrepInv(i), job'[i] # None,
           \A p \in Players : job'[i].runs[p].status = "running" =>
               Up(i) /\ job[i].runs[p].status = "running",
           calls'[i] = calls[i],
           ~Free(i) /\ section[i].op = "select" =>
               ~Free(i)' /\ section'[i].op = "select" /\ section'[i].player = section[i].player
    PROVE  PrepInv(i)'
BY DEF PrepInv, Up, Free

LEMMA PreparingPrep ==
    ASSUME ServiceInv, NEW i \in Instances, PrepInv(i),
           \/ Prepare(i) \/ PreparationSucceeds(i) \/ PreparationFails(i)
    PROVE  PrepInv(i)'
<1>1. Free(i) /\ calls' = calls
  BY DEF Prepare, PreparationSucceeds, PreparationFails
<1>2. CASE Prepare(i)
  <2>1. job'[i] = NewJob
    BY <1>2 DEF Prepare, ServiceInv, TypeOK
  <2>2. NewJob \in Job /\ \A p \in Players : NewJob.runs[p].status = "not_started"
    BY NewJobType DEF NewJob, NoRun
  <2> QED
    BY <1>1, <2>1, <2>2, NoJobAssumption, QuietPrep
<1>3. CASE PreparationSucceeds(i) \/ PreparationFails(i)
  <2>1. Up(i) /\ job[i] \in Job
    BY <1>3 DEF PreparationSucceeds, PreparationFails, Up, ServiceInv, TypeOK
  <2>2. PICK j \in Job : job' = [job EXCEPT ![i] = j] /\ j.runs = job[i].runs
    <3>1. CASE PreparationSucceeds(i)
      <4>1. PICK j : j = [job[i] EXCEPT !.prepared = TRUE, !.status = "ready"]
        OBVIOUS
      <4>2. j \in Job /\ job' = [job EXCEPT ![i] = j] /\ j.runs = job[i].runs
        BY <2>1, <3>1, <4>1 DEF PreparationSucceeds, Job, JobStatus, ServiceInv, TypeOK
      <4> QED
        BY <4>2
    <3>2. CASE PreparationFails(i)
      <4>1. PICK j : j = [job[i] EXCEPT !.status = "failed"]
        OBVIOUS
      <4>2. j \in Job /\ job' = [job EXCEPT ![i] = j] /\ j.runs = job[i].runs
        BY <2>1, <3>2, <4>1 DEF PreparationFails, Job, JobStatus, ServiceInv, TypeOK
      <4> QED
        BY <4>2
    <3> QED
      BY <1>3, <3>1, <3>2
  <2>3. job'[i] = j
    BY <2>2, OtherProcesses
  <2>4. j # None
    BY <2>2, NoJobAssumption
  <2> QED
    BY <1>1, <2>1, <2>2, <2>3, <2>4, QuietPrep
<1> QED
  BY <1>2, <1>3

LEMMA SelectPrep ==
    ASSUME ServiceInv, NEW i \in Instances, PrepInv(i), NEW p \in Players, SelectPlayer(i, p)
    PROVE  PrepInv(i)'
<1>1. PICK x \in RunIds :
        /\ job' = [job EXCEPT ![i] = Started(job[i], p, x)]
        /\ Enter(i, "select", p, x, job[i])
  BY DEF SelectPlayer
<1>2. Up(i) /\ Free(i) /\ job[i] \in Job /\ calls' = calls
  BY DEF SelectPlayer, Up, ServiceInv, TypeOK
<1>3. PICK j : j = Started(job[i], p, x)
  OBVIOUS
<1>4. PICK s : s = [op |-> "select", player |-> p, run |-> x,
                    step |-> "state", before |-> job[i]]
  OBVIOUS
<1>5. job'[i] = j
  BY <1>1, <1>3, OtherProcesses
<1>6. section'[i] = s
  <2>1. section' = [section EXCEPT ![i] = s]
    BY <1>1, <1>4 DEF Enter
  <2> QED
    BY <2>1, OtherProcesses
<1>7. s # None /\ s.op = "select" /\ s.player = p
  <2>1. s \in Section
    BY <1>2, <1>4 DEF Section, Operations, Result
  <2> QED
    BY <1>4, <2>1, NoSectionAssumption
<1>8. j # None /\ \A q \in Players \ {p} : j.runs[q] = job[i].runs[q]
  <2>1. j \in Job
    BY <1>2, <1>3, StartedJob
  <2>2. /\ j.runs[p] = [id |-> x, status |-> "running", result |-> None]
        /\ \A q \in Players \ {p} : j.runs[q] = job[i].runs[q]
    BY <1>2, <1>3, StartedJob
  <2> QED
    BY <2>1, <2>2, NoJobAssumption
<1> QED
  BY <1>2, <1>5, <1>6, <1>7, <1>8 DEF PrepInv, Up, Free

LEMMA CoachEndsPrep ==
    ASSUME ServiceInv, NEW i \in Instances, PrepInv(i), NEW p \in Players, CoachEnds(i, p)
    PROVE  PrepInv(i)'
<1>1. PICK c \in calls[i] : CoachSucceeds(i, c) \/ CoachFails(i, c)
  BY DEF CoachEnds
<1>2. c \in Call /\ Up(i) /\ job[i] \in Job /\ Free(i)
  BY <1>1 DEF ServiceInv, TypeOK, LiveCallOwnsRun, Up, CoachSucceeds, CoachFails
<1>3. PICK j \in Job :
        /\ job' = [job EXCEPT ![i] = j]
        /\ j.runs[c.player].status # "running"
        /\ \A q \in Players \ {c.player} : j.runs[q] = job[i].runs[q]
  <2>1. CASE CoachSucceeds(i, c)
    <3>1. PICK j : j = Succeeded(job[i], c)
      OBVIOUS
    <3>2. /\ j \in Job
          /\ j.runs[c.player] = [id |-> c.run, status |-> "complete", result |-> c.run]
          /\ \A q \in Players \ {c.player} : j.runs[q] = job[i].runs[q]
      BY <1>2, <3>1, SucceededJob
    <3>3. j.runs[c.player].status # "running"
      BY <3>2
    <3>4. job' = [job EXCEPT ![i] = j]
      BY <2>1, <3>1 DEF CoachSucceeds
    <3> QED
      BY <3>2, <3>3, <3>4
  <2>2. CASE CoachFails(i, c)
    <3>1. PICK j : j = Failed(job[i], c)
      OBVIOUS
    <3>2. /\ j \in Job
          /\ j.runs[c.player] = [id |-> c.run, status |-> "failed", result |-> None]
          /\ \A q \in Players \ {c.player} : j.runs[q] = job[i].runs[q]
      BY <1>2, <3>1, FailedJob
    <3>3. j.runs[c.player].status # "running"
      BY <3>2
    <3>4. job' = [job EXCEPT ![i] = j]
      BY <2>2, <3>1 DEF CoachFails
    <3> QED
      BY <3>2, <3>3, <3>4
  <2> QED
    BY <1>1, <2>1, <2>2
<1>4. job'[i] = j /\ j # None
  BY <1>3, OtherProcesses, NoJobAssumption
<1>5. calls'[i] = calls[i] \ {c}
  BY <1>1 DEF CoachSucceeds, CoachFails, ServiceInv, TypeOK
<1>6. \A q \in Players : j.runs[q].status = "running" => \E d \in calls'[i] : d.player = q
  <2>1. ASSUME NEW q \in Players, j.runs[q].status = "running"
        PROVE  \E d \in calls'[i] : d.player = q
    <3>1. q # c.player /\ job[i].runs[q].status = "running"
      BY <1>3, <2>1
    <3>2. PICK d \in calls[i] : d.player = q
      BY <1>2, <3>1 DEF PrepInv
    <3>3. d \in calls'[i]
      BY <1>5, <3>1, <3>2
    <3> QED
      BY <3>2, <3>3
  <2> QED
    BY <2>1
<1> QED
  BY <1>4, <1>6 DEF PrepInv, Up

LEMMA GotoPrep ==
    ASSUME ServiceInv, NEW i \in Instances, PrepInv(i),
           WriteState(i) \/ WriteResult(i) \/ CacheFault(i)
    PROVE  PrepInv(i)'
<1>1. ~Free(i) /\ section[i] \in Section /\ Up(i)
  BY DEF WriteState, WriteResult, CacheFault, At, Free, ServiceInv, TypeOK, PrepInv
<1>2. PICK step \in {"result", "log"} : Goto(i, step)
  BY DEF WriteState, WriteResult, CacheFault
<1>3. section'[i] = [section[i] EXCEPT !.step = step]
  BY <1>2 DEF Goto, ServiceInv, TypeOK
<1>4. section'[i].op = section[i].op /\ section'[i].player = section[i].player
  BY <1>1, <1>3 DEF Section
<1>5. section'[i] # None
  <2>1. section'[i] \in Section
    BY <1>1, <1>2, <1>3 DEF Section
  <2> QED
    BY <2>1, NoSectionAssumption
<1>6. UNCHANGED <<job, calls>>
  BY DEF WriteState, WriteResult, CacheFault
<1> QED
  BY <1>1, <1>4, <1>5, <1>6, QuietPrep DEF Up, Free

LEMMA EndSectionPrep ==
    ASSUME ServiceInv, NEW i \in Instances, PrepInv(i), EndSection(i)
    PROVE  PrepInv(i)'
<1>1. PICK s : s = section[i]
  OBVIOUS
<1>2. ~Free(i) /\ Up(i) /\ job' = job
  BY DEF EndSection, At, Free, PrepInv
<1>3. section'[i] = None
  BY DEF EndSection, Leave, ServiceInv, TypeOK
<1>4. CASE s.op = "select"
  <2>1. PICK c : c = [player |-> s.player, run |-> s.run]
    OBVIOUS
  <2>2. calls' = [calls EXCEPT ![i] = calls[i] \cup {c}]
    BY <1>1, <1>4, <2>1 DEF EndSection
  <2>3. calls'[i] = calls[i] \cup {c}
    BY <2>2, OtherProcesses
  <2>4. c.player = s.player
    BY <2>1
  <2> QED
    BY <1>1, <1>2, <1>3, <2>3, <2>4 DEF PrepInv, Up, Free
<1>5. CASE s.op # "select"
  <2>1. calls' = calls
    BY <1>1, <1>5 DEF EndSection
  <2> QED
    BY <1>1, <1>2, <1>3, <1>5, <2>1, QuietPrep DEF Up
<1> QED
  BY <1>4, <1>5

LEMMA NextPrep ==
    ASSUME NEW i, Instances = {i}, Faults \subseteq {"cache"}, MaxCrashes = 0,
           ServiceInv, PrepInv(i), [Next]_vars
    PROVE  PrepInv(i)'
<1>1. CASE UNCHANGED vars
  BY <1>1 DEF vars, PrepInv, Up, Free
<1>2. CASE Prepare(i) \/ PreparationSucceeds(i) \/ PreparationFails(i)
  BY <1>2, PreparingPrep
<1>3. ASSUME NEW p \in Players, SelectPlayer(i, p) \/ CoachEnds(i, p)
      PROVE  PrepInv(i)'
  BY <1>3, SelectPrep, CoachEndsPrep
<1>4. CASE Persist(i) \/ CacheFault(i)
  BY <1>4, GotoPrep, EndSectionPrep DEF Persist
<1>5. ~BlobFault(i) /\ ~LogFault(i)
  BY DEF BlobFault, LogFault
<1>6. ~Crash(i)
  BY DEF Crash, ServiceInv, TypeOK
<1>7. ~Restore(i)
  BY DEF Restore, ReadState, ReadResult, PrepInv, ServiceInv, SectionInv, At, Free
<1> QED
  BY <1>1, <1>2, <1>3, <1>4, <1>5, <1>6, <1>7 DEF Next

\* A single process that does not stop and can write its log never strands a
\* player of a prepared job: the player can be selected, or is being coached.
THEOREM PreparedJobsAreReusable ==
    ASSUME NEW i, Instances = {i}, Faults \subseteq {"cache"}, MaxCrashes = 0
    PROVE  Spec => []PreparedJobIsReusable
<1> DEFINE Inv == ServiceInv /\ PrepInv(i)
<1>1. Init => Inv
  BY InitInv DEF Init, PrepInv, Up, Free
<1>2. Inv /\ [Next]_vars => Inv'
  BY NextInv, NextPrep
<1>3. Inv => PreparedJobIsReusable
  BY DEF PrepInv, PreparedJobIsReusable, Selectable, Free
<1> HIDE DEF Inv
<1> QED
  BY <1>1, <1>2, <1>3, PTL DEF Spec

==============================================================================
