------------------------- MODULE DecisionFlowProofs -------------------------
(***************************************************************************)
(* What the page guarantees for any number of replays, analyses, players,  *)
(* runs and coaching requests, whatever the backend answers and however    *)
(* the visitor moves through the history: its types, that the answer to a  *)
(* coaching request is about the selection on the screen, and that what is *)
(* shown of an upload was made for it; and for one player that the         *)
(* recovery of a lost answer is about its run.                             *)
(***************************************************************************)
EXTENDS DecisionFlow, AnalysisJobProofs, SequenceTheorems, TLAPS

-----------------------------------------------------------------------------
(* The inductive invariant.                                                *)

\* The screens that show the players of an analysis or one of them.
Prepared == {"waiting-for-players", "players-error", "choosing-player"} \cup PlayerScreens

\* The screens of a replay that the backend has.
Uploaded == {"preparing-analysis", "analysis-prepare-error"} \cup Prepared

\* What a screen promises of itself.
ScreenOK(s) ==
    /\ s \in Screen
    /\ (s.player # None) = (s.status \in PlayerScreens)
    /\ s.status = "selecting-sample" => Sample # None
    /\ s.status \in Uploaded => s.replay # None
    /\ s.status \in Prepared => s.analysis # None

\* What it promises of the backend and of the requests in flight.
PlaceOK(s) ==
    /\ s.request \in 0 .. lastId
    /\ s.status \in Prepared => replayOf[s.analysis] = s.replay
    /\ s.status = "running-coaching" =>
           \A q \in requests : q.id = s.request => Owner(q) = Owner(s)

\* A request is about a job, and its run was issued for it.
RequestsOK ==
    \A q \in requests :
        /\ q.id \in 1 .. lastId
        /\ replayOf[q.analysis] # None
        /\ q.stage \notin {"sent", "refused"} =>
               q.run # None /\ owner[q.run] = Owner(q)

FlowInv ==
    /\ FlowTypeOK
    /\ ScreenOK(screen)
    /\ PlaceOK(screen)
    /\ RequestsOK

\* t is the screen s, or one that waits for no coaching request and shows no
\* other analysis.
Follows(t, s) ==
    /\ ScreenOK(t)
    /\ \/ t = s
       \/ /\ t.request = 0
          /\ t.status # "running-coaching"
          /\ t.status \in Prepared => /\ s.status \in Prepared
                                      /\ t.analysis = s.analysis /\ t.replay = s.replay

-----------------------------------------------------------------------------
(* What the reducer makes of a screen.                                     *)

\* The screen of RESET is well formed.
LEMMA ChooseFollows ==
    ASSUME NEW s PROVE Follows(Choose, s)
BY DEF Follows, ScreenOK, Choose, Screen, ScreenStatus, ScreenError, SampleScreens,
       PlayerScreens, Prepared, Uploaded

\* So is the catalog opened from it, or after an error.
LEMMA OpenSamplesFollows ==
    ASSUME NEW s, ScreenOK(s) PROVE Follows(OpenSamples(s), s)
<1>1. Follows(Enter(Choose, "loading-samples", 0), s)
  <2> DEFINE t == Enter(Choose, "loading-samples", 0)
  <2>1. /\ t \in Screen
        /\ t.status = "loading-samples" /\ t.player = None /\ t.request = 0
    BY DEF Enter, Choose, Screen, ScreenStatus, ScreenError, SampleScreens
  <2> HIDE DEF t
  <2>2. ScreenOK(t)
    BY <2>1 DEF ScreenOK, PlayerScreens, Prepared, Uploaded
  <2> QED BY <2>1, <2>2 DEF Follows, PlayerScreens, Prepared, t
<1> QED BY <1>1 DEF OpenSamples, Follows

\* A screen that goes on to another of the same analysis.
LEMMA EnterFollows ==
    ASSUME NEW s, ScreenOK(s), NEW status \in ScreenStatus,
           status \in Prepared => s.status \in Prepared,
           status \in Uploaded => s.status \in Uploaded,
           status = "selecting-sample" => Sample # None,
           status # "running-coaching",
           (status \in PlayerScreens) = (s.status \in PlayerScreens)
    PROVE  Follows(Enter(s, status, 0), s)
BY DEF Enter, Follows, ScreenOK, Screen, ScreenError

\* The same for a screen that shows an error.
LEMMA FailFollows ==
    ASSUME NEW s, ScreenOK(s), NEW status \in ScreenStatus, NEW error \in ScreenError,
           status \in Prepared => s.status \in Prepared,
           status \in Uploaded => s.status \in Uploaded,
           status = "selecting-sample" => Sample # None,
           status # "running-coaching",
           (status \in PlayerScreens) = (s.status \in PlayerScreens)
    PROVE  Follows(Fail(s, status, error), s)
BY DEF Fail, Follows, ScreenOK, Screen

LEMMA SameFollows ==
    ASSUME NEW s, ScreenOK(s) PROVE Follows(s, s)
BY DEF Follows

\* RETURN_TO_PLAYER_SELECTION forgets the player and the result.
LEMMA ReturnFollows ==
    ASSUME NEW s, ScreenOK(s) PROVE Follows(ReturnToPlayerSelection(s), s)
<1> DEFINE t == [Enter(s, "choosing-player", 0) EXCEPT !.player = None, !.result = None]
<1>1. ASSUME s.status \in PlayerScreens PROVE Follows(t, s)
  <2>1. /\ t \in Screen
        /\ t.status = "choosing-player" /\ t.player = None /\ t.request = 0
        /\ t.replay = s.replay /\ t.analysis = s.analysis
    BY DEF Enter, ScreenOK, Screen, ScreenStatus, ScreenError
  <2> HIDE DEF t
  <2>2. ScreenOK(t)
    BY <2>1, <1>1 DEF ScreenOK, PlayerScreens, Prepared, Uploaded
  <2> QED BY <2>1, <2>2, <1>1 DEF Follows, PlayerScreens, Prepared
<1> QED BY <1>1 DEF ReturnToPlayerSelection, Follows

\* RESTORE_VIEWER shows the cached result under the analysis on the screen.
LEMMA RestoreFollows ==
    ASSUME NEW s, ScreenOK(s), NEW r \in CoachingResult
    PROVE  Follows(RestoreViewer(s, r), s)
<1> DEFINE t == [Enter(s, "viewer", 0) EXCEPT !.player = r.player, !.result = r]
<1>1. ASSUME s.status = "choosing-player" PROVE Follows(t, s)
  <2>1. /\ t \in Screen
        /\ t.status = "viewer" /\ t.player \in Players /\ t.request = 0
        /\ t.replay = s.replay /\ t.analysis = s.analysis
    BY DEF Enter, ScreenOK, Screen, ScreenStatus, ScreenError, PlayerScreens, CoachingResult
  <2> HIDE DEF t
  <2>2. ScreenOK(t)
    BY <2>1, <1>1, NoneAssumption DEF ScreenOK, PlayerScreens, Prepared, Uploaded
  <2> QED BY <2>1, <2>2, <1>1 DEF Follows, PlayerScreens, Prepared
<1> QED BY <1>1 DEF RestoreViewer, Follows

\* A result reaches the screen only if its player and replay are those shown.
LEMMA FinishFollows ==
    ASSUME NEW s, ScreenOK(s), s.status \in {"running-coaching", "recovering-result"},
           NEW replay, NEW player, NEW run \in RunIds
    PROVE  Follows(FinishCoaching(s, [replay |-> replay, player |-> player, run |-> run]), s)
<1> DEFINE r == [replay |-> replay, player |-> player, run |-> run]
<1>1. CASE ResultMatchesSelection(r, s)
  <2>1. r \in CoachingResult
    BY <1>1 DEF ResultMatchesSelection, CoachingResult, ScreenOK, Screen, PlayerScreens,
                Prepared, Uploaded
  <2> HIDE DEF r
  <2>2. Follows([Enter(s, "loading-visualization", 0) EXCEPT !.result = r], s)
    BY <2>1 DEF Enter, Follows, ScreenOK, Screen, ScreenStatus, ScreenError,
                SampleScreens, PlayerScreens, Prepared, Uploaded
  <2> QED BY <1>1, <2>2 DEF FinishCoaching, r
<1>2. CASE ~ResultMatchesSelection(r, s)
  <2>1. Follows(Fail(s, "coaching-error", "final"), s)
    BY DEF Fail, Follows, ScreenOK, Screen, ScreenStatus, ScreenError,
           SampleScreens, PlayerScreens, Prepared, Uploaded
  <2> QED BY <1>2, <2>1 DEF FinishCoaching
<1> QED BY <1>1, <1>2

\* Opening the catalog from the start screen, whatever was shown before.
LEMMA OpenedFollows ==
    ASSUME NEW s PROVE Follows(OpenSamples(Choose), s)
<1>1. ScreenOK(Choose)
  BY ChooseFollows DEF Follows
<1>2. Follows(OpenSamples(Choose), Choose)
  BY <1>1, OpenSamplesFollows
<1> QED
  BY <1>2, ChooseFollows DEF Follows, Choose, Prepared, PlayerScreens

\* RETRY_ANALYSIS_PREPARE drops the analysis and keeps the replay.
LEMMA PrepareAgainFollows ==
    ASSUME NEW s, ScreenOK(s) PROVE Follows(RetryAnalysisPrepare(s), s)
<1> DEFINE t == [Enter(s, "preparing-analysis", 0) EXCEPT !.analysis = None]
<1>1. ASSUME s.status \in {"analysis-prepare-error", "players-error"} PROVE Follows(t, s)
  <2>1. /\ t \in Screen
        /\ t.status = "preparing-analysis" /\ t.player = s.player /\ t.request = 0
        /\ t.replay = s.replay
    BY DEF Enter, ScreenOK, Screen, ScreenStatus, ScreenError
  <2> HIDE DEF t
  <2>2. ScreenOK(t)
    BY <2>1, <1>1 DEF ScreenOK, PlayerScreens, Prepared, Uploaded
  <2> QED BY <2>1, <2>2 DEF Follows, PlayerScreens, Prepared
<1> QED BY <1>1 DEF RetryAnalysisPrepare, Follows

\* What syncFromLocation makes of a screen, whichever entry is reached.
LEMMA ReachedFollows ==
    ASSUME ScreenOK(screen), cache \in CoachingResult \cup {None}, NEW view
    PROVE  Follows(Reached(view), screen)
BY OpenedFollows, ChooseFollows, SameFollows, ReturnFollows, RestoreFollows DEF Reached

-----------------------------------------------------------------------------
(* The history.                                                            *)

HistoryOK ==
    /\ history \in [entries : Seq(View), at : Nat]
    /\ history.at \in 1 .. Len(history.entries)
    /\ Len(history.entries) <= MaxHistory

\* pushState cuts the entries off behind the new one.
LEMMA PushHistory ==
    ASSUME HistoryOK, NEW view \in View, Push(view) PROVE HistoryOK'
<1> DEFINE kept == SubSeq(history.entries, 1, history.at)
<1>1. /\ history.entries \in Seq(View) /\ history.at \in Nat
      /\ history.at \in 1 .. Len(history.entries) /\ history.at >= 1
      /\ history.at < MaxHistory /\ MaxHistory \in Nat
      /\ history' = [entries |-> Append(kept, view), at |-> history.at + 1]
  BY BoundsAssumption DEF HistoryOK, Push
<1>2. \A i \in 1 .. history.at : history.entries[i] \in View
  BY <1>1, ElementOfSeq, LenProperties
<1>3. kept \in Seq(View) /\ Len(kept) = history.at
  BY <1>1, <1>2, SubSeqProperties
<1> HIDE DEF kept
<1>4. Append(kept, view) \in Seq(View) /\ Len(Append(kept, view)) = history.at + 1
  BY <1>3, AppendProperties
<1> QED
  BY <1>1, <1>4 DEF HistoryOK

\* popstate moves among the entries.
LEMMA GoToHistory ==
    ASSUME HistoryOK, NEW n, GoTo(n) PROVE HistoryOK'
<1>1. /\ history \in [entries : Seq(View), at : Nat]
      /\ n \in 1 .. Len(history.entries) /\ n \in Nat
      /\ history' = [history EXCEPT !.at = n]
  BY LenProperties DEF HistoryOK, GoTo
<1> QED
  BY <1>1 DEF HistoryOK

-----------------------------------------------------------------------------
(* The kinds of steps.                                                     *)

\* An effect starts anew or keeps its type.
LEMMA ShowEffect ==
    ASSUME NEW t, Show(t), effect \in Effect
    PROVE  screen' = t /\ effect' \in Effect
BY DEF Show, Effect, NewEffect

\* A step of the page that sends nothing: the screen follows from the one before.
LEMMA PageStep ==
    ASSUME FlowInv, NEW t, Follows(t, screen), screen' = t, effect' \in Effect,
           cache' \in CoachingResult \cup {None}, HistoryOK', uploaded' \subseteq Replays,
           requests' \subseteq requests,
           UNCHANGED <<lastId, jobs, replayOf, owner, unlocked>>
    PROVE  FlowInv'
<1>1. lastId \in Nat
  BY BoundsAssumption DEF FlowInv, FlowTypeOK
<1>2. ScreenOK(screen)'
  BY DEF Follows, ScreenOK
<1>3. PlaceOK(screen)'
  BY <1>1 DEF Follows, FlowInv, PlaceOK, Owner
<1>4. RequestsOK'
  BY DEF FlowInv, RequestsOK, Owner
<1>5. FlowTypeOK'
  BY <1>2, <1>3 DEF FlowInv, FlowTypeOK, HistoryOK, ScreenOK, PlaceOK
<1> QED
  BY <1>2, <1>3, <1>4, <1>5 DEF FlowInv

\* A new job under the screen that waited for it.
LEMMA PreparedStep ==
    ASSUME FlowInv, NEW a \in Analyses, NEW replay \in Replays, NewAnalysis(a, replay),
           NEW t, ScreenOK(t), t.status = "waiting-for-players", t.request = 0,
           t.analysis = a, t.replay = replay, screen' = t, effect' \in Effect,
           UNCHANGED <<cache, lastId, history, requests, owner, uploaded, unlocked>>
    PROVE  FlowInv'
<1>1. /\ jobs' = [jobs EXCEPT ![a] = NewJob] /\ jobs \in [Analyses -> Job \cup {None}]
      /\ replayOf' = [replayOf EXCEPT ![a] = replay]
      /\ replayOf \in [Analyses -> Replays \cup {None}]
      /\ \A b \in Analyses : (jobs[b] = None) = (replayOf[b] = None)
      /\ lastId \in Nat /\ NewJob \in Job /\ NewJob # None /\ replay # None
  BY NewJobType, NoJobAssumption, NoReplayAssumption, BoundsAssumption
     DEF FlowInv, FlowTypeOK, NewAnalysis
<1>2. ScreenOK(screen)'
  BY DEF ScreenOK
<1>3. PlaceOK(screen)'
  BY <1>1 DEF PlaceOK
<1>4. RequestsOK'
  BY <1>1 DEF FlowInv, FlowTypeOK, RequestsOK, Request, Owner
<1>5. FlowTypeOK'
  <2>1. /\ jobs' \in [Analyses -> Job \cup {None}]
        /\ replayOf' \in [Analyses -> Replays \cup {None}]
        /\ \A b \in Analyses : (jobs'[b] = None) = (replayOf'[b] = None)
    BY <1>1
  <2> QED
    BY <2>1, <1>2, <1>3 DEF FlowInv, FlowTypeOK, ScreenOK, PlaceOK
<1> QED
  BY <1>2, <1>3, <1>4, <1>5 DEF FlowInv

\* A screen that sends a coaching request of its own.
LEMMA PostStep ==
    ASSUME FlowInv, NEW t, ScreenOK(t), t.status = "running-coaching",
           t.request = lastId + 1, screen.status \in Prepared,
           t.analysis = screen.analysis, t.replay = screen.replay,
           lastId < MaxRequests, lastId' = lastId + 1,
           screen' = t, effect' \in Effect, requests' = requests \cup {Post(t)},
           cache' \in CoachingResult \cup {None}, HistoryOK', UNCHANGED backend
    PROVE  FlowInv'
<1>1. /\ lastId \in Nat /\ MaxRequests \in Nat
      /\ UNCHANGED <<jobs, replayOf, owner, uploaded, unlocked>>
  BY BoundsAssumption DEF FlowInv, FlowTypeOK, backend
<1>2. /\ t.analysis \in Analyses /\ t.player \in Players /\ t.replay # None
      /\ replayOf[t.analysis] = t.replay
  BY DEF ScreenOK, Screen, PlayerScreens, Prepared, Uploaded, FlowInv, PlaceOK
<1>3. /\ Post(t) \in Request /\ Post(t).id = lastId + 1 /\ Post(t).stage = "sent"
      /\ Post(t).analysis = t.analysis /\ Post(t).player = t.player
  BY <1>1, <1>2 DEF Post, Request, RequestStage
<1>4. ScreenOK(screen)'
  BY DEF ScreenOK
<1>5. PlaceOK(screen)'
  <2>1. \A q \in requests : q.id # lastId + 1
    BY <1>1 DEF FlowInv, RequestsOK
  <2> QED
    BY <1>1, <1>2, <1>3, <2>1 DEF PlaceOK, Owner
<1>6. RequestsOK'
  <2> SUFFICES ASSUME NEW q \in requests'
               PROVE  /\ q.id \in 1 .. lastId' /\ replayOf[q.analysis] # None
                      /\ q.stage \notin {"sent", "refused"} =>
                             q.run # None /\ owner[q.run] = Owner(q)
    BY <1>1 DEF RequestsOK, Owner
  <2>1. CASE q = Post(t)
    BY <2>1, <1>1, <1>2, <1>3
  <2>2. CASE q \in requests
    BY <2>2, <1>1 DEF FlowInv, RequestsOK
  <2> QED
    BY <2>1, <2>2
<1>7. FlowTypeOK'
  BY <1>1, <1>3, <1>4, <1>5 DEF FlowInv, FlowTypeOK, HistoryOK, ScreenOK, PlaceOK
<1> QED
  BY <1>4, <1>5, <1>6, <1>7 DEF FlowInv

\* A step of the backend for one request: it stays the same request.
LEMMA BackendStep ==
    ASSUME FlowInv, NEW q \in requests, NEW moved \in Request,
           moved.id = q.id, moved.analysis = q.analysis, moved.player = q.player,
           requests' = (requests \ {q}) \cup {moved},
           moved.stage \notin {"sent", "refused"} =>
               moved.run # None /\ owner'[moved.run] = Owner(moved),
           \A r \in RunIds : owner[r] # None => owner'[r] = owner[r],
           owner' \in [RunIds -> [analysis : Analyses, player : Players] \cup {None}],
           jobs' \in [Analyses -> Job \cup {None}],
           \A a \in Analyses : (jobs'[a] = None) = (jobs[a] = None),
           unlocked' \subseteq Replays,
           UNCHANGED <<page, lastId, history, replayOf, uploaded>>
    PROVE  FlowInv'
<1>1. UNCHANGED <<screen, effect, cache>> /\ Owner(moved) = Owner(q)
  BY DEF page, Owner
<1>2. PlaceOK(screen)'
  BY <1>1 DEF FlowInv, PlaceOK, Owner
<1>3. RequestsOK'
  <2> SUFFICES ASSUME NEW x \in requests'
               PROVE  /\ x.id \in 1 .. lastId /\ replayOf[x.analysis] # None
                      /\ x.stage \notin {"sent", "refused"} =>
                             x.run # None /\ owner'[x.run] = Owner(x)
    BY DEF RequestsOK, Owner
  <2>1. CASE x = moved
    BY <2>1 DEF FlowInv, RequestsOK
  <2>2. CASE x \in requests
    <3>1. x.run \in RunIds \cup {None} /\ Owner(x) # None
      BY <2>2, NoOwnerAssumption DEF FlowInv, FlowTypeOK, Request, Owner
    <3> QED
      BY <2>2, <3>1 DEF FlowInv, RequestsOK
  <2> QED
    BY <2>1, <2>2
<1>4. FlowTypeOK'
  BY <1>1 DEF FlowInv, FlowTypeOK
<1> QED
  BY <1>1, <1>2, <1>3, <1>4 DEF FlowInv, ScreenOK
-----------------------------------------------------------------------------
(* Every step preserves the invariant.                                     *)

LEMMA InitFlow == Init => FlowInv
<1> SUFFICES ASSUME Init PROVE FlowInv
  OBVIOUS
<1>1. ScreenOK(screen) /\ screen.status = "choose" /\ screen.request = 0
  BY ChooseFollows DEF Init, Follows, Choose
<1>2. <<"home">> \in Seq(View) /\ Len(<<"home">>) = 1
  BY DEF View
<1>3. /\ history \in [entries : Seq(View), at : Nat]
      /\ history.at \in 1 .. Len(history.entries) /\ Len(history.entries) <= MaxHistory
  BY <1>2, BoundsAssumption DEF Init
<1>4. PlaceOK(screen) /\ RequestsOK
  BY <1>1 DEF Init, PlaceOK, RequestsOK, Prepared, PlayerScreens
<1>5. FlowTypeOK
  BY <1>1, <1>3, BoundsAssumption, SampleAssumption
     DEF Init, FlowTypeOK, ScreenOK, Effect, NewEffect
<1> QED
  BY <1>1, <1>4, <1>5 DEF FlowInv

\* The steps of the backend.
LEMMA BackendPreserves ==
    ASSUME FlowInv,
           \/ \E a \in Analyses : PreparationEnds(a)
           \/ \E q \in requests : Receive(q) \/ RunEnds(q) \/ Unlock(q)
    PROVE  FlowInv'
<1>1. ASSUME NEW a \in Analyses, PreparationEnds(a) PROVE FlowInv'
  <2>1. /\ jobs' \in [Analyses -> Job \cup {None}]
        /\ \A b \in Analyses : (jobs'[b] = None) = (jobs[b] = None)
    <3>1. /\ jobs \in [Analyses -> Job \cup {None}] /\ jobs[a] \in Job
          /\ \/ jobs' = [jobs EXCEPT ![a].status = "ready", ![a].prepared = TRUE]
             \/ jobs' = [jobs EXCEPT ![a].status = "failed"]
      BY <1>1 DEF PreparationEnds, FlowInv, FlowTypeOK
    <3>2. /\ [jobs[a] EXCEPT !.status = "ready", !.prepared = TRUE] \in Job
          /\ [jobs[a] EXCEPT !.status = "failed"] \in Job
      BY <3>1 DEF Job, JobStatus
    <3>3. PICK j \in Job : jobs' = [jobs EXCEPT ![a] = j]
      BY <3>1, <3>2
    <3> QED
      BY <3>1, <3>3, NoJobAssumption
  <2>2. UNCHANGED <<screen, effect, cache, lastId, history, requests, replayOf, owner,
                    uploaded, unlocked>>
    BY <1>1 DEF PreparationEnds, page
  <2> QED
    BY <2>1, <2>2 DEF FlowInv, FlowTypeOK, PlaceOK, RequestsOK, ScreenOK, Owner
<1> DEFINE Typed(q) == /\ q \in Request /\ jobs \in [Analyses -> Job \cup {None}]
                       /\ q.analysis \in Analyses /\ q.player \in Players
                       /\ jobs[q.analysis] \in Job
<1>2. ASSUME NEW q \in requests PROVE Typed(q)
  <2>1. /\ q \in Request /\ q.analysis \in Analyses /\ replayOf[q.analysis] # None
    BY <1>2 DEF FlowInv, FlowTypeOK, RequestsOK, Request
  <2> QED
    BY <2>1 DEF FlowInv, FlowTypeOK, Request
<1>3. ASSUME NEW q \in requests, Receive(q) PROVE FlowInv'
  <2> DEFINE moved(r) == [q EXCEPT !.stage = "running", !.run = r]
  <2>1. ASSUME NEW r \in RunIds, owner[r] = None,
               owner' = [owner EXCEPT ![r] = Owner(q)],
               jobs' = [jobs EXCEPT ![q.analysis] = Started(@, q.player, r)],
               requests' = (requests \ {q}) \cup {moved(r)},
               UNCHANGED unlocked
        PROVE  FlowInv'
    <3>1. /\ moved(r) \in Request
          /\ moved(r).id = q.id /\ moved(r).analysis = q.analysis
          /\ moved(r).player = q.player /\ moved(r).run = r
      BY <1>2 DEF Request, RequestStage
    <3>2. Owner(moved(r)) = Owner(q) /\ Owner(q) \in [analysis : Analyses, player : Players]
      BY <3>1, <1>2 DEF Owner
    <3> HIDE DEF moved
    <3>3. /\ owner' \in [RunIds -> [analysis : Analyses, player : Players] \cup {None}]
          /\ owner'[r] = Owner(q)
          /\ \A x \in RunIds : owner[x] # None => owner'[x] = owner[x]
      BY <2>1, <3>2 DEF FlowInv, FlowTypeOK
    <3>4. Started(jobs[q.analysis], q.player, r) \in Job
      BY <1>2, StartedJob
    <3>5. /\ jobs' \in [Analyses -> Job \cup {None}]
          /\ \A a \in Analyses : (jobs'[a] = None) = (jobs[a] = None)
      BY <2>1, <3>4, <1>2, NoJobAssumption
    <3>6. /\ unlocked' \subseteq Replays
          /\ UNCHANGED <<page, lastId, history, replayOf, uploaded>>
      BY <2>1, <1>3 DEF Receive, FlowInv, FlowTypeOK
    <3>7. moved(r).run # None /\ owner'[moved(r).run] = Owner(moved(r))
      BY <3>1, <3>2, <3>3, NoneAssumption
    <3> QED
      BY <2>1, <3>1, <3>3, <3>5, <3>6, <3>7, BackendStep
  <2>2. ASSUME requests' = Moved(q, "refused"), UNCHANGED <<jobs, owner, unlocked>>
        PROVE  FlowInv'
    <3> DEFINE m == [q EXCEPT !.stage = "refused"]
    <3>1. /\ m \in Request /\ m.id = q.id /\ m.analysis = q.analysis
          /\ m.player = q.player /\ m.stage = "refused"
      BY <1>2 DEF Request, RequestStage
    <3>2. requests' = (requests \ {q}) \cup {m}
      BY <2>2 DEF Moved
    <3> HIDE DEF m
    <3>3. UNCHANGED <<page, lastId, history, replayOf, uploaded>>
      BY <1>3 DEF Receive
    <3> QED
      BY <2>2, <3>1, <3>2, <3>3, BackendStep DEF FlowInv, FlowTypeOK
  <2> QED
    BY <1>3, <2>1, <2>2 DEF Receive
<1>4. ASSUME NEW q \in requests, q.run # None, owner[q.run] = Owner(q),
             NEW stage \in RequestStage, requests' = Moved(q, stage),
             jobs' \in [Analyses -> Job \cup {None}],
             \A a \in Analyses : (jobs'[a] = None) = (jobs[a] = None),
             unlocked' \subseteq Replays,
             UNCHANGED <<page, lastId, history, replayOf, owner, uploaded>>
      PROVE  FlowInv'
  <2> DEFINE m == [q EXCEPT !.stage = stage]
  <2>1. /\ m \in Request /\ m.id = q.id /\ m.analysis = q.analysis
        /\ m.player = q.player /\ m.run = q.run
    BY <1>2 DEF Request
  <2>2. requests' = (requests \ {q}) \cup {m}
    BY <1>4 DEF Moved
  <2> HIDE DEF m
  <2>3. m.run # None /\ owner'[m.run] = Owner(m)
    BY <1>4, <2>1 DEF Owner
  <2> QED
    BY <1>4, <2>1, <2>2, <2>3, BackendStep DEF FlowInv, FlowTypeOK
<1>5. ASSUME NEW q \in requests, RunEnds(q) PROVE FlowInv'
  <2>1. q.run \in RunIds /\ q.run # None /\ owner[q.run] = Owner(q)
    BY <1>2, <1>5 DEF RunEnds, FlowInv, RequestsOK, Request
  <2>2. /\ Succeeded(jobs[q.analysis], q) \in Job
        /\ Failed(jobs[q.analysis], q) \in Job
    BY <1>2, <2>1, SucceededRun, FailedRun
  <2>3. PICK j \in Job : jobs' = [jobs EXCEPT ![q.analysis] = j]
    BY <1>5, <2>2 DEF RunEnds
  <2>4. /\ jobs' \in [Analyses -> Job \cup {None}]
        /\ \A a \in Analyses : (jobs'[a] = None) = (jobs[a] = None)
    BY <2>3, <1>2, NoJobAssumption
  <2>5. /\ \E stage \in RequestStage : requests' = Moved(q, stage)
        /\ unlocked' \subseteq Replays
        /\ UNCHANGED <<page, lastId, history, replayOf, owner, uploaded>>
    BY <1>5 DEF RunEnds, RequestStage, FlowInv, FlowTypeOK
  <2> QED
    BY <1>4, <2>1, <2>4, <2>5
<1>6. ASSUME NEW q \in requests, Unlock(q) PROVE FlowInv'
  <2>1. q.run # None /\ owner[q.run] = Owner(q) /\ replayOf[q.analysis] \in Replays
    BY <1>2, <1>6 DEF Unlock, FlowInv, FlowTypeOK, RequestsOK, Request
  <2>2. /\ \E stage \in RequestStage : requests' = Moved(q, stage)
        /\ unlocked' \subseteq Replays
        /\ jobs' \in [Analyses -> Job \cup {None}]
        /\ \A a \in Analyses : (jobs'[a] = None) = (jobs[a] = None)
        /\ UNCHANGED <<page, lastId, history, replayOf, owner, uploaded>>
    BY <1>6, <2>1 DEF Unlock, RequestStage, FlowInv, FlowTypeOK
  <2> QED
    BY <1>4, <2>1, <2>2
<1> QED
  BY <1>1, <1>3, <1>5, <1>6
\* An effect's call that fails.
LEMMA CallFailsPreserves ==
    ASSUME FlowInv, NEW status \in ScreenStatus \ (Uploaded \cup {"selecting-sample"}),
           NEW error \in ScreenError, screen.status \notin PlayerScreens,
           CallFails(status, error)
    PROVE  FlowInv'
<1>1. Follows(Fail(screen, status, error), screen)
  BY FailFollows DEF FlowInv, Uploaded, Prepared, PlayerScreens
<1>2. /\ HistoryOK' /\ cache' \in CoachingResult \cup {None} /\ uploaded' \subseteq Replays
      /\ UNCHANGED <<lastId, requests, jobs, replayOf, owner, unlocked>>
  BY DEF CallFails, backend, FlowInv, FlowTypeOK, HistoryOK
<1> QED
  BY <1>1, <1>2, ShowEffect, PageStep DEF CallFails, FlowInv, FlowTypeOK

\* The effects of the screens before a player is chosen.
LEMMA PreparationPreserves ==
    ASSUME FlowInv,
           SamplesAnswered \/ SampleAnswered \/ UploadAnswered \/ PrepareAnswered
    PROVE  FlowInv'
<1> USE DEF ScreenStatus, SampleScreens, PlayerScreens, Prepared, Uploaded, ScreenError
<1>1. /\ ScreenOK(screen) /\ screen \in Screen /\ effect \in Effect
      /\ HistoryOK /\ cache \in CoachingResult \cup {None}
      /\ uploaded \subseteq Replays
  BY DEF FlowInv, FlowTypeOK, HistoryOK
<1>2. CASE SamplesAnswered
  <2>1. ASSUME Show(Enter(screen, "samples-ready", 0)),
               UNCHANGED <<cache, lastId, history, requests, backend>>
        PROVE  FlowInv'
    <3>1. Follows(Enter(screen, "samples-ready", 0), screen)
      BY <1>1, <1>2, EnterFollows DEF SamplesAnswered
    <3> QED
      BY <1>1, <2>1, <3>1, ShowEffect, PageStep DEF backend, HistoryOK
  <2> QED
    BY <1>2, <2>1, CallFailsPreserves DEF SamplesAnswered
<1>3. CASE SampleAnswered
  <2>1. ASSUME NEW a \in Analyses, NewAnalysis(a, Sample),
               Show(SampleReplayReady(screen, Sample, a)),
               UNCHANGED <<cache, lastId, history, requests, owner, uploaded, unlocked>>
        PROVE  FlowInv'
    <3> DEFINE t == SampleReplayReady(screen, Sample, a)
    <3>1. screen.status = "selecting-sample" /\ screen.player = None /\ Sample \in Replays
      BY <1>1, <1>3, SampleAssumption DEF SampleAnswered, ScreenOK
    <3>2. /\ t \in Screen /\ t.status = "waiting-for-players" /\ t.request = 0
          /\ t.analysis = a /\ t.replay = Sample /\ t.player = None
      BY <1>1, <3>1 DEF SampleReplayReady, Enter, Screen
    <3> HIDE DEF t
    <3>3. ScreenOK(t)
      BY <3>1, <3>2, NoReplayAssumption DEF ScreenOK
    <3>4. screen' = t /\ effect' \in Effect
      BY <1>1, <2>1, ShowEffect DEF t
    <3> QED
      BY <2>1, <3>1, <3>2, <3>3, <3>4, PreparedStep
  <2> QED
    BY <1>3, <2>1, CallFailsPreserves DEF SampleAnswered
<1>4. CASE UploadAnswered
  <2>1. ASSUME NEW r \in Replays, uploaded' = uploaded \cup {r},
               Show([Enter(screen, "preparing-analysis", 0) EXCEPT !.replay = r]),
               UNCHANGED <<cache, lastId, history, requests, jobs, replayOf, owner, unlocked>>
        PROVE  FlowInv'
    <3> DEFINE t == [Enter(screen, "preparing-analysis", 0) EXCEPT !.replay = r]
    <3>1. screen.status = "uploading" /\ screen.player = None
      BY <1>1, <1>4 DEF UploadAnswered, ScreenOK
    <3>2. /\ t \in Screen /\ t.status = "preparing-analysis" /\ t.request = 0
          /\ t.replay = r /\ t.player = None
      BY <1>1, <3>1 DEF Enter, Screen
    <3>3. screen' = t /\ effect' \in Effect
      BY <1>1, <2>1, ShowEffect
    <3> HIDE DEF t
    <3>4. Follows(t, screen)
      BY <3>1, <3>2, NoReplayAssumption DEF Follows, ScreenOK
    <3> QED
      BY <1>1, <2>1, <3>3, <3>4, PageStep DEF HistoryOK
  <2> QED
    BY <1>4, <2>1, CallFailsPreserves DEF UploadAnswered
<1>5. CASE PrepareAnswered
  <2>1. /\ screen.status = "preparing-analysis" /\ screen.player = None
        /\ screen.replay \in Replays
    BY <1>1, <1>5 DEF PrepareAnswered, ScreenOK, Screen
  <2>2. ASSUME NEW a \in Analyses, NewAnalysis(a, screen.replay),
               Show(AnalysisPrepared(screen, a)),
               UNCHANGED <<cache, lastId, history, requests, owner, uploaded, unlocked>>
        PROVE  FlowInv'
    <3> DEFINE t == AnalysisPrepared(screen, a)
    <3>1. /\ t \in Screen /\ t.status = "waiting-for-players" /\ t.request = 0
          /\ t.analysis = a /\ t.replay = screen.replay /\ t.player = None
      BY <1>1, <2>1 DEF AnalysisPrepared, Enter, Screen
    <3>2. screen' = t /\ effect' \in Effect
      BY <1>1, <2>2, ShowEffect
    <3> HIDE DEF t
    <3>3. ScreenOK(t)
      BY <2>1, <3>1, NoReplayAssumption DEF ScreenOK
    <3> QED
      BY <2>1, <2>2, <3>1, <3>2, <3>3, PreparedStep
  <2>3. ASSUME NEW e \in {"retryable", "final"}, Show(AnalysisPrepareFailed(screen, e)),
               UNCHANGED <<cache, lastId, history, requests, backend>>
        PROVE  FlowInv'
    <3> DEFINE t == AnalysisPrepareFailed(screen, e)
    <3>1. /\ t \in Screen /\ t.status = "analysis-prepare-error" /\ t.request = 0
          /\ t.replay = screen.replay /\ t.player = None
      BY <1>1, <2>1 DEF AnalysisPrepareFailed, Fail, Screen
    <3>2. screen' = t /\ effect' \in Effect
      BY <1>1, <2>3, ShowEffect
    <3> HIDE DEF t
    <3>3. Follows(t, screen)
      BY <2>1, <3>1, NoReplayAssumption DEF Follows, ScreenOK
    <3> QED
      BY <1>1, <2>3, <3>2, <3>3, PageStep DEF HistoryOK, backend
  <2> QED
    BY <1>5, <2>2, <2>3 DEF PrepareAnswered
<1> QED
  BY <1>2, <1>3, <1>4, <1>5

\* A coaching answer finds its own screen or changes nothing, and its result
\* is of that screen's selection.
LEMMA AnswerMatches ==
    ASSUME FlowInv, NEW q \in requests, q.stage = "done",
           Expects(screen, "running-coaching", q.id)
    PROVE  ResultMatchesSelection(ResultOf(q.analysis, q.run), screen)
<1>1. Owner(q) = Owner(screen) /\ owner[q.run] = Owner(q)
  BY DEF Expects, FlowInv, PlaceOK, RequestsOK
<1>2. q.analysis = screen.analysis /\ q.player = screen.player /\ owner[q.run].player = q.player
  BY <1>1 DEF Owner
<1>3. replayOf[screen.analysis] = screen.replay
  BY DEF Expects, FlowInv, PlaceOK, Prepared, PlayerScreens
<1> QED
  BY <1>2, <1>3 DEF ResultMatchesSelection, ResultOf

LEMMA AnswerPreserves ==
    ASSUME FlowInv, NEW q \in requests, CoachingAnswered(q) PROVE FlowInv'
<1> USE DEF ScreenStatus, SampleScreens, PlayerScreens, Prepared, Uploaded, ScreenError
<1>1. /\ ScreenOK(screen) /\ HistoryOK /\ cache \in CoachingResult \cup {None}
      /\ effect \in Effect /\ uploaded \subseteq Replays
  BY DEF FlowInv, FlowTypeOK, HistoryOK
<1>2. Follows(CoachingRequestUncertain(screen, q.id), screen)
  BY <1>1, EnterFollows, SameFollows DEF CoachingRequestUncertain, Expects
<1>3. Follows(CoachingFailed(screen, q.id), screen)
  BY <1>1, FailFollows, SameFollows DEF CoachingFailed, Expects
<1>4. ASSUME q.stage = "done"
      PROVE  Follows(CoachingSucceeded(screen, q.id, ResultOf(q.analysis, q.run)), screen)
  <2>1. q.run \in RunIds
    BY <1>4 DEF FlowInv, FlowTypeOK, RequestsOK, Request
  <2>2. CASE Expects(screen, "running-coaching", q.id)
    BY <1>1, <2>1, <2>2, FinishFollows DEF CoachingSucceeded, Expects, ResultOf
  <2>3. CASE ~Expects(screen, "running-coaching", q.id)
    BY <1>1, <2>3, SameFollows DEF CoachingSucceeded
  <2> QED
    BY <2>2, <2>3
<1>5. PICK t : Follows(t, screen) /\ Show(t)
  BY <1>2, <1>3, <1>4 DEF CoachingAnswered
<1> QED
  BY <1>1, <1>5, ShowEffect, PageStep DEF CoachingAnswered, HistoryOK, backend
\* The effects that poll: players, the result, the replay map.
LEMMA PollPreserves ==
    ASSUME FlowInv,
           \/ PlayersPolled \/ CoachingTimesOut \/ RecoveryPolled
           \/ VisualizationPolled \/ Deadline
    PROVE  FlowInv'
<1> USE DEF ScreenStatus, SampleScreens, PlayerScreens, Prepared, Uploaded, ScreenError
<1>1. /\ ScreenOK(screen) /\ HistoryOK /\ cache \in CoachingResult \cup {None}
      /\ effect \in Effect /\ uploaded \subseteq Replays
      /\ screen.result \in CoachingResult \cup {None}
  BY DEF FlowInv, FlowTypeOK, HistoryOK, ScreenOK, Screen
<1>2. /\ [effect EXCEPT !.second = TRUE] \in Effect
      /\ [effect EXCEPT !.second = FALSE] \in Effect
      /\ [effect EXCEPT !.late = TRUE] \in Effect
  BY <1>1 DEF Effect
<1>3. Follows(screen, screen)
  BY <1>1, SameFollows
<1>4. ASSUME NEW t, Follows(t, screen),
             Show(t) \/ (effect' \in Effect /\ UNCHANGED screen /\ t = screen),
             cache' \in CoachingResult \cup {None},
             UNCHANGED <<lastId, history, requests, backend>>
      PROVE  FlowInv'
  BY <1>1, <1>4, ShowEffect, PageStep DEF HistoryOK, backend
<1>5. CASE PlayersPolled
  <2>1. Follows(Fail(screen, "players-error", "retryable"), screen)
    BY <1>1, <1>5, FailFollows DEF PlayersPolled
  <2>2. Follows(PlayersLoaded(screen, Listed(screen.analysis)), screen)
    BY <1>1, <1>5, FailFollows, EnterFollows DEF PlayersPolled, PlayersLoaded
  <2>3. UNCHANGED <<cache, lastId, history, requests, backend>>
    BY <1>5 DEF PlayersPolled
  <2>4. \/ Show(Fail(screen, "players-error", "retryable"))
        \/ Show(PlayersLoaded(screen, Listed(screen.analysis)))
        \/ effect' \in Effect /\ UNCHANGED screen
    BY <1>2, <1>5 DEF PlayersPolled
  <2> QED
    BY <1>1, <1>3, <1>4, <2>1, <2>2, <2>3, <2>4
<1>6. CASE CoachingTimesOut
  <2>1. Follows(CoachingRequestUncertain(screen, screen.request), screen)
    BY <1>1, <1>6, EnterFollows, SameFollows
       DEF CoachingTimesOut, CoachingRequestUncertain, Expects
  <2> QED
    BY <1>1, <1>4, <1>6, <2>1 DEF CoachingTimesOut
<1>7. CASE RecoveryPolled
  <2> DEFINE answer == ResultOfJob(jobs[screen.analysis])
  <2>1. \A e \in {"result-recovery-error", "coaching-error"} :
            Follows(Fail(screen, e, "retryable"), screen)
    BY <1>1, <1>7, FailFollows DEF RecoveryPolled
  <2>2. ASSUME answer \in RunIds
        PROVE  Follows(ResultRecovered(screen, ResultOf(screen.analysis, answer)), screen)
    BY <1>1, <1>7, <2>2, FinishFollows DEF RecoveryPolled, ResultRecovered, ResultOf
  <2>3. UNCHANGED <<cache, lastId, history, requests, backend>>
    BY <1>7 DEF RecoveryPolled
  <2>4. \/ \E e \in {"result-recovery-error", "coaching-error"} :
               Show(Fail(screen, e, "retryable"))
        \/ /\ answer \in RunIds
           /\ Show(ResultRecovered(screen, ResultOf(screen.analysis, answer)))
        \/ effect' \in Effect /\ UNCHANGED screen
    BY <1>2, <1>7 DEF RecoveryPolled
  <2> HIDE DEF answer
  <2> QED
    BY <1>1, <1>3, <1>4, <2>1, <2>2, <2>3, <2>4
<1>8. CASE VisualizationPolled
  <2>1. \A e \in {"retryable", "final"} :
            Follows(Fail(screen, "visualization-error", e), screen)
    BY <1>1, <1>8, FailFollows DEF VisualizationPolled
  <2>2. Follows(VisualizationLoaded(screen), screen)
    BY <1>1, <1>8, EnterFollows DEF VisualizationPolled, VisualizationLoaded
  <2>3. /\ cache' \in CoachingResult \cup {None}
        /\ UNCHANGED <<lastId, history, requests, backend>>
    BY <1>1, <1>8 DEF VisualizationPolled
  <2>4. \/ Show(VisualizationLoaded(screen)) \/ Show(screen)
        \/ \E e \in {"retryable", "final"} : Show(Fail(screen, "visualization-error", e))
    BY <1>8 DEF VisualizationPolled
  <2> QED
    BY <1>3, <1>4, <2>1, <2>2, <2>3, <2>4
<1>9. CASE Deadline
  BY <1>1, <1>2, <1>3, <1>4, <1>9 DEF Deadline
<1> QED
  BY <1>5, <1>6, <1>7, <1>8, <1>9

\* The buttons that send nothing, and the history.
LEMMA ButtonPreserves ==
    ASSUME FlowInv,
           \/ Back \/ Forward \/ OpenLandingView \/ SelectReplayFile \/ ChooseSample
           \/ Retry \/ ReturnHome \/ ReturnToPlayers
    PROVE  FlowInv'
<1> USE DEF ScreenStatus, SampleScreens, PlayerScreens, Prepared, Uploaded, ScreenError
<1>1. /\ ScreenOK(screen) /\ HistoryOK /\ cache \in CoachingResult \cup {None}
      /\ effect \in Effect /\ uploaded \subseteq Replays
  BY DEF FlowInv, FlowTypeOK, HistoryOK
<1>2. ASSUME NEW t, Follows(t, screen), Show(t), HistoryOK',
             UNCHANGED <<cache, lastId, requests, backend>>
      PROVE  FlowInv'
  BY <1>1, <1>2, ShowEffect, PageStep DEF backend
<1>3. ASSUME NEW n, GoTo(n), UNCHANGED <<cache, lastId, requests, backend>>
      PROVE  FlowInv'
  <2>1. HistoryOK' /\ Follows(Reached(history.entries[n]), screen)
    BY <1>1, <1>3, GoToHistory, ReachedFollows
  <2> QED
    BY <1>2, <1>3, <2>1 DEF GoTo
<1>4. ASSUME UNCHANGED history PROVE HistoryOK'
  BY <1>1, <1>4 DEF HistoryOK
<1>5. CASE Back \/ Forward
  BY <1>3, <1>5 DEF Back, Forward
<1>6. CASE OpenLandingView
  <2>1. Follows(OpenSamples(Choose), screen)
    BY OpenedFollows
  <2>2. HistoryOK'
    BY <1>1, <1>6, PushHistory DEF OpenLandingView, View
  <2> QED
    BY <1>2, <1>6, <2>1, <2>2 DEF OpenLandingView
<1>7. CASE SelectReplayFile
  <2>1. Follows(Enter(screen, "uploading", 0), screen)
    BY <1>1, <1>7, EnterFollows DEF SelectReplayFile
  <2>2. HistoryOK'
    BY <1>1, <1>7, PushHistory DEF SelectReplayFile, View
  <2> QED
    BY <1>2, <1>7, <2>1, <2>2 DEF SelectReplayFile
<1>8. CASE ChooseSample
  <2>1. Follows(SelectSample(screen), screen)
    BY <1>1, <1>8, EnterFollows DEF ChooseSample, SelectSample
  <2> QED
    BY <1>2, <1>4, <1>8, <2>1 DEF ChooseSample
<1>9. CASE Retry
  <2>1. ASSUME screen.status = "samples-error" PROVE Follows(OpenSamples(screen), screen)
    BY <1>1, OpenSamplesFollows
  <2>2. ASSUME screen.status = "upload-error"
        PROVE  Follows(Enter(screen, "uploading", 0), screen)
    BY <1>1, <2>2, EnterFollows
  <2>3. ASSUME screen.status = "players-error"
        PROVE  Follows(Enter(screen, "waiting-for-players", 0), screen)
    BY <1>1, <2>3, EnterFollows
  <2>4. Follows(RetryResultRecovery(screen), screen)
    BY <1>1, EnterFollows, SameFollows DEF RetryResultRecovery
  <2>5. Follows(RetryVisualization(screen), screen)
    BY <1>1, EnterFollows, SameFollows DEF RetryVisualization
  <2>6. Follows(RetryAnalysisPrepare(screen), screen)
    BY <1>1, PrepareAgainFollows
  <2>7. PICK t : Follows(t, screen) /\ Show(t)
    BY <1>9, <2>1, <2>2, <2>3, <2>4, <2>5, <2>6 DEF Retry
  <2> QED
    BY <1>2, <1>4, <1>9, <2>7 DEF Retry
<1>10. CASE ReturnHome
  BY <1>1, <1>2, <1>3, <1>4, <1>10, ChooseFollows DEF ReturnHome
<1>11. CASE ReturnToPlayers
  BY <1>1, <1>2, <1>3, <1>4, <1>11, ReturnFollows DEF ReturnToPlayers
<1> QED
  BY <1>5, <1>6, <1>7, <1>8, <1>9, <1>10, <1>11

\* The buttons that send a coaching request.
LEMMA PostPreserves ==
    ASSUME FlowInv, RepeatCoaching \/ \E p \in Players : ChoosePlayer(p)
    PROVE  FlowInv'
<1> USE DEF ScreenStatus, SampleScreens, PlayerScreens, Prepared, Uploaded, ScreenError
<1>1. /\ ScreenOK(screen) /\ HistoryOK /\ cache \in CoachingResult \cup {None}
      /\ effect \in Effect /\ lastId \in Nat /\ screen \in Screen
      /\ screen.status \in Prepared =>
             screen.replay \in Replays /\ screen.analysis \in Analyses
  BY BoundsAssumption, NoReplayAssumption
     DEF FlowInv, FlowTypeOK, HistoryOK, ScreenOK, Screen
<1>2. ASSUME NEW id \in Nat, NEW u \in Screen
      PROVE  LET t == Enter(u, "running-coaching", id)
             IN  /\ t \in Screen /\ t.status = "running-coaching" /\ t.request = id
                 /\ t.analysis = u.analysis /\ t.replay = u.replay
                 /\ t.player = u.player
  BY DEF Enter, Screen
<1>3. lastId + 1 \in Nat
  BY <1>1
<1>4. ASSUME NEW p \in Players, ChoosePlayer(p) PROVE FlowInv'
  <2> DEFINE t == SelectPlayer(screen, p, lastId + 1)
  <2>1. /\ t \in Screen /\ t.status = "running-coaching" /\ t.request = lastId + 1
        /\ t.analysis = screen.analysis /\ t.replay = screen.replay /\ t.player = p
    <3>1. screen.status = "choosing-player"
      BY <1>4 DEF ChoosePlayer
    <3> QED
      BY <1>1, <1>2, <1>3, <3>1 DEF SelectPlayer, Screen
  <2>2. /\ Show(t) /\ lastId' = lastId + 1 /\ requests' = requests \cup {Post(t)}
        /\ cache' = None /\ UNCHANGED backend /\ lastId < MaxRequests
        /\ screen.status = "choosing-player" /\ Push("upload-viewer")
    BY <1>4 DEF ChoosePlayer, Show
  <2> HIDE DEF t
  <2>3. ScreenOK(t)
    BY <1>1, <2>1, <2>2, NoneAssumption, NoReplayAssumption DEF ScreenOK
  <2>4. HistoryOK' /\ screen' = t /\ effect' \in Effect
    BY <1>1, <2>2, PushHistory, ShowEffect DEF View
  <2> QED
    BY <2>1, <2>2, <2>3, <2>4, PostStep
<1>5. CASE RepeatCoaching
  <2> DEFINE t == RetryCoaching(screen, lastId + 1)
  <2>1. /\ t \in Screen /\ t.status = "running-coaching" /\ t.request = lastId + 1
        /\ t.analysis = screen.analysis /\ t.replay = screen.replay
        /\ t.player = screen.player
    <3>1. screen.status = "coaching-error" /\ screen.error = "retryable"
      BY <1>5 DEF RepeatCoaching
    <3> QED
      BY <1>1, <1>2, <1>3, <3>1 DEF RetryCoaching
  <2>2. /\ Show(t) /\ lastId' = lastId + 1 /\ requests' = requests \cup {Post(t)}
        /\ UNCHANGED <<cache, history, backend>> /\ lastId < MaxRequests
        /\ screen.status = "coaching-error"
    BY <1>5 DEF RepeatCoaching, Show
  <2> HIDE DEF t
  <2>3. ScreenOK(t)
    BY <1>1, <2>1, <2>2, NoReplayAssumption DEF ScreenOK
  <2>4. HistoryOK' /\ screen' = t /\ effect' \in Effect
    BY <1>1, <2>2, ShowEffect DEF HistoryOK
  <2> QED
    BY <1>1, <2>1, <2>2, <2>3, <2>4, PostStep
<1> QED
  BY <1>4, <1>5
\* Every step of the page and of the backend preserves the invariant.
LEMMA NextFlow == FlowInv /\ [Next]_vars => FlowInv'
<1> SUFFICES ASSUME FlowInv, [Next]_vars PROVE FlowInv'
  OBVIOUS
<1>1. CASE UNCHANGED vars
  BY <1>1 DEF vars, page, backend, FlowInv, FlowTypeOK, ScreenOK, PlaceOK, RequestsOK, Owner
<1>2. CASE Next
  BY <1>2, BackendPreserves, AnswerPreserves, PreparationPreserves, PollPreserves,
     ButtonPreserves, PostPreserves DEF Next
<1> QED
  BY <1>1, <1>2

-----------------------------------------------------------------------------
(* The theorems.                                                           *)

\* The inductive invariant holds in every reachable state.
THEOREM FlowInvariant == Spec => []FlowInv
BY InitFlow, NextFlow, PTL DEF Spec

\* The screen, the history, the requests in flight and the jobs always have
\* their types (analysis-flow.ts AnalysisFlowState); a player is on the screen
\* exactly where one was chosen.
THEOREM FlowTypes == Spec => []FlowTypeOK
<1>1. FlowInv => FlowTypeOK
  BY DEF FlowInv
<1> QED
  BY <1>1, FlowInvariant, PTL

\* No answer of a request the visitor has left reaches a coaching screen, and
\* the answer of its own request is about its replay and player: the "did not
\* match" error of FinishCoaching cannot follow a direct answer.
THEOREM AnswersMatch == Spec => DirectAnswersMatch
<1> DEFINE Matches == screen.status = "running-coaching" /\ screen'.status = "coaching-error"
                          => screen'.error = "retryable"
<1>1. ASSUME FlowInv, [Next]_vars PROVE Matches
  <2> SUFFICES ASSUME screen.status = "running-coaching",
                      screen'.status = "coaching-error"
               PROVE  screen'.error = "retryable"
    OBVIOUS
  <2>1. screen \in Screen
    BY <1>1 DEF FlowInv, FlowTypeOK
  <2>2. screen' # screen
    OBVIOUS
  <2>3. PICK q \in requests : CoachingAnswered(q)
    <3>1. ASSUME NEW view PROVE Reached(view).status # "coaching-error"
      BY <2>1 DEF Reached, ReturnToPlayerSelection, RestoreViewer, OpenSamples, Choose,
                  Enter, Screen, PlayerScreens
    <3>2. ASSUME NEW n, GoTo(n) PROVE FALSE
      BY <3>1, <3>2 DEF GoTo, Show
    <3>3. ReturnToPlayerSelection(screen).status # "coaching-error"
      BY <2>1 DEF ReturnToPlayerSelection, Enter, Screen, PlayerScreens
    <3>4. ~ReturnToPlayers /\ ~Back /\ ~Forward
      BY <3>2, <3>3 DEF ReturnToPlayers, Back, Forward, Show
    <3>5. ~CoachingTimesOut
      BY <2>1 DEF CoachingTimesOut, CoachingRequestUncertain, Expects, Enter, Screen, Show
    <3>6. ~Retry
      BY <2>1 DEF Retry, Show, RetryAnalysisPrepare, RetryVisualization,
                  RetryResultRecovery, OpenSamples
    <3> QED
      BY <1>1, <2>2, <3>4, <3>5, <3>6
         DEF Next, vars, page, PreparationEnds, Receive, RunEnds, Unlock, SamplesAnswered,
             SampleAnswered, UploadAnswered, PrepareAnswered, PlayersPolled,
             RecoveryPolled, VisualizationPolled, Deadline, OpenLandingView,
             SelectReplayFile, ChooseSample, ChoosePlayer, RepeatCoaching, ReturnHome
  <2>4. CASE q.stage = "done"
    <3>1. screen' = CoachingSucceeded(screen, q.id, ResultOf(q.analysis, q.run))
      BY <2>3, <2>4 DEF CoachingAnswered, Show
    <3>2. Expects(screen, "running-coaching", q.id)
      BY <2>2, <3>1 DEF CoachingSucceeded
    <3>3. ResultMatchesSelection(ResultOf(q.analysis, q.run), screen)
      BY <1>1, <2>4, <3>2, AnswerMatches
    <3>4. screen'.status = "loading-visualization"
      BY <2>1, <3>1, <3>2, <3>3 DEF CoachingSucceeded, FinishCoaching, Enter, Screen
    <3> QED
      BY <3>4
  <2>5. CASE q.stage = "broken"
    <3>1. screen' = CoachingRequestUncertain(screen, q.id)
      BY <2>3, <2>5 DEF CoachingAnswered, Show
    <3> QED
      BY <2>1, <2>2, <3>1 DEF CoachingRequestUncertain, Enter, Screen
  <2>6. CASE q.stage \notin {"done", "broken"}
    <3>1. screen' = CoachingFailed(screen, q.id)
      BY <2>3, <2>6 DEF CoachingAnswered, Show
    <3> QED
      BY <2>1, <2>2, <3>1 DEF CoachingFailed, Fail, Screen
  <2> QED
    BY <2>4, <2>5, <2>6
<1> QED
  BY <1>1, FlowInvariant, PTL DEF Spec, DirectAnswersMatch

-----------------------------------------------------------------------------
(***************************************************************************)
(* The result on the screen of an upload was made for the analysis and the *)
(* player on the screen.  The page compares a result's replay and player   *)
(* only; that its analysis is the right one rests on two facts no line of  *)
(* the page states: an upload is prepared successfully at most once, and a *)
(* result, wherever it is kept, was made under the replay it carries.      *)
(***************************************************************************)

\* The screens before any replay, those of an unfinished preparation, and
\* those that keep a result.
Early     == {"choose", "uploading", "upload-error"} \cup SampleScreens
Preparing == {"preparing-analysis", "analysis-prepare-error"}
Showing   == {"loading-visualization", "visualization-error", "viewer"}

\* Result x is labelled with the player and the replay of its run.
Made(x) ==
    /\ owner[x.run] # None
    /\ owner[x.run].player = x.player
    /\ replayOf[owner[x.run].analysis] = x.replay

\* What a screen promises of its result and of the sample flag.
ShownOK(s) ==
    /\ s.result # None => /\ Made(s.result) /\ s.status \in Showing
                          /\ s.result.replay = s.replay /\ s.result.player = s.player
    /\ s.status \in Early => ~s.sample
    /\ s.sample => s.replay = Sample

\* An upload has one analysis at most, and none while it is being prepared.
UploadsPreparedOnce ==
    /\ screen.replay \in uploaded \cup {Sample, None}
    /\ \A a \in Analyses : replayOf[a] \in uploaded \cup {Sample, None}
    /\ \A a, b \in Analyses :
           replayOf[a] = replayOf[b] /\ replayOf[a] \notin {Sample, None} => a = b
    /\ screen.status \in Preparing /\ screen.replay # Sample =>
           \A a \in Analyses : replayOf[a] # screen.replay

\* A result that is kept somewhere is one of its own job.
KeptResults ==
    /\ cache # None => Made(cache)
    /\ \A a \in Analyses : jobs[a] # None /\ jobs[a].result # None =>
           owner[jobs[a].result] # None /\ owner[jobs[a].result].analysis = a

ShownInv == ShownOK(screen) /\ UploadsPreparedOnce /\ KeptResults

\* t shows the selection of s, or one that s's replay was prepared for.
Carries(t, s) ==
    /\ ShownOK(t)
    /\ t.replay \in {s.replay, None}
    /\ t.status \in Preparing =>
           t.replay = s.replay /\ (s.status \in Preparing \/ s.replay = Sample)

-----------------------------------------------------------------------------
(* What the reducer makes of a screen.                                     *)

LEMMA ChooseCarries ==
    ASSUME NEW s PROVE Carries(Choose, s)
BY DEF Choose, Carries, ShownOK, Preparing, Early, SampleScreens

LEMMA SameCarries ==
    ASSUME NEW s, ShownOK(s) PROVE Carries(s, s)
BY DEF Carries

\* A screen that goes on and keeps what it has.
LEMMA EnterCarries ==
    ASSUME NEW s \in Screen, ShownOK(s), NEW status, NEW id,
           s.result # None => status \in Showing,
           status \in Early => s.status \in Early,
           status \in Preparing => s.status \in Preparing
    PROVE  Carries(Enter(s, status, id), s)
BY DEF Enter, Carries, ShownOK, Screen

LEMMA FailCarries ==
    ASSUME NEW s \in Screen, ShownOK(s), NEW status, NEW error,
           s.result # None => status \in Showing,
           status \in Early => s.status \in Early,
           status \in Preparing => s.status \in Preparing
    PROVE  Carries(Fail(s, status, error), s)
BY DEF Fail, Carries, ShownOK, Screen

LEMMA OpenCarries ==
    ASSUME NEW s, ShownOK(s), NEW c \in {s, Choose} PROVE Carries(OpenSamples(c), s)
<1>1. /\ Enter(Choose, "loading-samples", 0).result = None
      /\ Enter(Choose, "loading-samples", 0).sample = FALSE
      /\ Enter(Choose, "loading-samples", 0).replay = None
      /\ Enter(Choose, "loading-samples", 0).status = "loading-samples"
  BY DEF Enter, Choose
<1>2. Carries(Enter(Choose, "loading-samples", 0), s)
  BY <1>1 DEF Carries, ShownOK, Preparing
<1> QED
  BY <1>2, ChooseCarries, SameCarries DEF OpenSamples

LEMMA PrepareAgainCarries ==
    ASSUME NEW s \in Screen, ShownOK(s), s.status = "players-error" => s.sample
    PROVE  Carries(RetryAnalysisPrepare(s), s)
<1> DEFINE t == [Enter(s, "preparing-analysis", 0) EXCEPT !.analysis = None]
<1>1. /\ t.result = s.result /\ t.sample = s.sample /\ t.replay = s.replay
      /\ t.status = "preparing-analysis"
  BY DEF Enter, Screen
<1> HIDE DEF t
<1>2. ASSUME s.status \in {"analysis-prepare-error", "players-error"} PROVE Carries(t, s)
  BY <1>1, <1>2 DEF Carries, ShownOK, Preparing, Early, Showing, SampleScreens
<1> QED
  BY <1>2, SameCarries DEF RetryAnalysisPrepare, t

LEMMA ReturnCarries ==
    ASSUME NEW s \in Screen, ShownOK(s) PROVE Carries(ReturnToPlayerSelection(s), s)
<1> DEFINE t == [Enter(s, "choosing-player", 0) EXCEPT !.player = None, !.result = None]
<1>1. /\ t.result = None /\ t.sample = s.sample /\ t.replay = s.replay
      /\ t.status = "choosing-player"
  BY DEF Enter, Screen
<1> HIDE DEF t
<1>2. Carries(t, s)
  BY <1>1 DEF Carries, ShownOK, Preparing, Early, SampleScreens
<1> QED
  BY <1>2, SameCarries DEF ReturnToPlayerSelection, t

\* The cached result is of the replay on the screen.
LEMMA RestoreCarries ==
    ASSUME NEW s \in Screen, ShownOK(s), NEW r \in CoachingResult, Made(r)
    PROVE  Carries(RestoreViewer(s, r), s)
<1> DEFINE t == [Enter(s, "viewer", 0) EXCEPT !.player = r.player, !.result = r]
<1>1. /\ t.result = r /\ t.sample = s.sample /\ t.replay = s.replay
      /\ t.status = "viewer" /\ t.player = r.player
  BY DEF Enter, Screen
<1>2. ResultMatchesSelection(r, [s EXCEPT !.player = r.player]) => r.replay = s.replay
  BY DEF ResultMatchesSelection, Screen
<1> HIDE DEF t
<1>3. ASSUME r.replay = s.replay PROVE Carries(t, s)
  BY <1>1, <1>3 DEF Carries, ShownOK, Preparing, Early, SampleScreens, Showing
<1> QED
  BY <1>2, <1>3, SameCarries DEF RestoreViewer, t

\* A result of the job on the screen is shown, or an error.
LEMMA FinishCarries ==
    ASSUME NEW s \in Screen, ShownOK(s),
           s.status \in {"running-coaching", "recovering-result"},
           NEW a, NEW r, owner[r] # None, owner[r].analysis = a
    PROVE  Carries(FinishCoaching(s, ResultOf(a, r)), s)
<1> DEFINE x == ResultOf(a, r)
           t == [Enter(s, "loading-visualization", 0) EXCEPT !.result = x]
<1>1. Made(x)
  BY DEF Made, ResultOf
<1>2. s.result = None
  BY DEF ShownOK, Showing
<1>3. /\ t.result = x /\ t.sample = s.sample /\ t.replay = s.replay
      /\ t.status = "loading-visualization" /\ t.player = s.player
  BY DEF Enter, Screen
<1>4. Carries(Fail(s, "coaching-error", "final"), s)
  BY <1>2, FailCarries DEF Early, Preparing, SampleScreens
<1> HIDE DEF x, t
<1>5. ASSUME ResultMatchesSelection(x, s) PROVE Carries(t, s)
  BY <1>1, <1>3, <1>5
     DEF Carries, ShownOK, Preparing, Early, SampleScreens, Showing, ResultMatchesSelection
<1> QED
  BY <1>4, <1>5 DEF FinishCoaching, x, t

LEMMA ReachedCarries ==
    ASSUME FlowInv, ShownInv, NEW view PROVE Carries(Reached(view), screen)
BY ChooseCarries, SameCarries, OpenCarries, ReturnCarries, RestoreCarries
   DEF Reached, FlowInv, FlowTypeOK, ShownInv, KeptResults

-----------------------------------------------------------------------------
(* The kinds of steps.                                                     *)

\* A step of the page: no job changes.
LEMMA CarryStep ==
    ASSUME ShownInv, NEW t, Carries(t, screen), screen' = t,
           cache' \in {cache, None, screen.result}, UNCHANGED backend
    PROVE  ShownInv'
<1>1. UNCHANGED <<jobs, replayOf, owner, uploaded>>
  BY DEF backend
<1>2. ShownOK(screen)'
  BY <1>1 DEF Carries, ShownOK, Made
<1>3. KeptResults'
  BY <1>1 DEF ShownInv, KeptResults, ShownOK, Made
<1>4. UploadsPreparedOnce'
  BY <1>1 DEF ShownInv, UploadsPreparedOnce, Carries
<1> QED
  BY <1>2, <1>3, <1>4 DEF ShownInv

\* What a result is labelled with never changes.
LEMMA MadeStays ==
    ASSUME FlowInv, NEW x \in CoachingResult, Made(x),
           \A r \in RunIds : owner[r] # None => owner'[r] = owner[r],
           \A a \in Analyses : replayOf[a] # None => replayOf'[a] = replayOf[a]
    PROVE  /\ owner'[x.run] # None /\ owner'[x.run].player = x.player
           /\ replayOf'[owner'[x.run].analysis] = x.replay
<1>1. /\ x.run \in RunIds /\ owner'[x.run] = owner[x.run] /\ x.replay # None
      /\ owner[x.run].analysis \in Analyses
  BY NoReplayAssumption DEF Made, CoachingResult, FlowInv, FlowTypeOK
<1> QED
  BY <1>1 DEF Made

\* A step that changes jobs or runs, and leaves the results where they are.
LEMMA JobStep ==
    ASSUME FlowInv, ShownInv,
           \A r \in RunIds : owner[r] # None => owner'[r] = owner[r],
           \A a \in Analyses : replayOf[a] # None => replayOf'[a] = replayOf[a],
           cache' = cache, screen'.result = screen.result,
           screen.result = None \/ (UNCHANGED screen),
           screen'.status \in Early => ~screen'.sample,
           screen'.sample => screen'.replay = Sample,
           \A a \in Analyses : jobs'[a] # None /\ jobs'[a].result # None =>
               owner'[jobs'[a].result] # None /\ owner'[jobs'[a].result].analysis = a
    PROVE  ShownOK(screen)' /\ KeptResults'
<1>1. screen.result \in CoachingResult \cup {None} /\ cache \in CoachingResult \cup {None}
  BY DEF FlowInv, FlowTypeOK, Screen
<1>2. /\ screen.result # None => Made(screen.result)
      /\ cache # None => Made(cache)
  BY DEF ShownInv, ShownOK, KeptResults
<1>3. ShownOK(screen)'
  BY <1>1, <1>2, MadeStays DEF ShownInv, ShownOK, Made
<1>4. KeptResults'
  BY <1>1, <1>2, MadeStays DEF KeptResults, Made
<1> QED
  BY <1>3, <1>4

\* A new job for the replay that is prepared.
LEMMA NewJobStep ==
    ASSUME FlowInv, ShownInv, NEW a \in Analyses, NEW replay \in Replays,
           NewAnalysis(a, replay),
           (screen.status \in Preparing /\ screen.replay = replay) \/ replay = Sample,
           screen.status \notin Showing,
           screen'.status = "waiting-for-players", screen'.replay = replay,
           screen'.result = screen.result, screen'.sample => replay = Sample,
           UNCHANGED <<cache, owner, uploaded>>
    PROVE  ShownInv'
<1>1. /\ jobs[a] = None /\ replayOf[a] = None /\ replay # None
      /\ jobs' = [jobs EXCEPT ![a] = NewJob]
      /\ replayOf' = [replayOf EXCEPT ![a] = replay]
      /\ DOMAIN jobs = Analyses /\ DOMAIN replayOf = Analyses /\ NewJob.result = None
  BY NoReplayAssumption DEF NewAnalysis, FlowInv, FlowTypeOK, NewJob
<1>2. screen.result = None
  BY DEF ShownInv, ShownOK
<1>3. \A b \in Analyses : jobs'[b] # None /\ jobs'[b].result # None =>
          owner[jobs'[b].result] # None /\ owner[jobs'[b].result].analysis = b
  BY <1>1 DEF ShownInv, KeptResults
<1>4. ShownOK(screen)' /\ KeptResults'
  <2>1. screen'.status \notin Early
    BY DEF Early, SampleScreens
  <2> QED
    BY <1>1, <1>2, <1>3, <2>1, JobStep
<1>5. UploadsPreparedOnce'
  <2>1. replay \in uploaded \cup {Sample}
    BY <1>1 DEF ShownInv, UploadsPreparedOnce
  <2>2. \A b \in Analyses : replayOf[b] = replay => replay = Sample
    BY DEF ShownInv, UploadsPreparedOnce
  <2>3. /\ replayOf'[a] = replay
        /\ \A b \in Analyses \ {a} : replayOf'[b] = replayOf[b]
    BY <1>1
  <2>4. screen'.status \notin Preparing
    BY DEF Preparing
  <2> QED
    BY <1>1, <2>1, <2>2, <2>3, <2>4 DEF ShownInv, UploadsPreparedOnce
<1> QED
  BY <1>4, <1>5 DEF ShownInv

-----------------------------------------------------------------------------
(* Every step preserves it.                                                *)

LEMMA InitShown == Init => ShownInv
BY DEF Init, ShownInv, ShownOK, UploadsPreparedOnce, KeptResults, Choose, Preparing

\* The backend's steps: a run's result goes to its own job.
LEMMA BackendShown ==
    ASSUME FlowInv, ShownInv,
           \/ \E a \in Analyses : PreparationEnds(a)
           \/ \E q \in requests : Receive(q) \/ RunEnds(q) \/ Unlock(q)
    PROVE  ShownInv'
<1>1. UNCHANGED <<screen, cache, replayOf, uploaded>>
  BY DEF PreparationEnds, Receive, RunEnds, Unlock, page
<1>2. ASSUME \A r \in RunIds : owner[r] # None => owner'[r] = owner[r],
             \A a \in Analyses : jobs'[a] # None /\ jobs'[a].result # None =>
                 owner'[jobs'[a].result] # None /\ owner'[jobs'[a].result].analysis = a
      PROVE  ShownInv'
  <2>1. ShownOK(screen)' /\ KeptResults'
    BY <1>1, <1>2, JobStep DEF ShownInv, ShownOK
  <2> QED
    BY <1>1, <2>1 DEF ShownInv, UploadsPreparedOnce
<1>3. /\ jobs \in [Analyses -> Job \cup {None}]
      /\ owner \in [RunIds -> [analysis : Analyses, player : Players] \cup {None}]
      /\ \A a \in Analyses : jobs[a] # None /\ jobs[a].result # None =>
             owner[jobs[a].result] # None /\ owner[jobs[a].result].analysis = a
  BY DEF FlowInv, FlowTypeOK, ShownInv, KeptResults
<1>4. ASSUME NEW a \in Analyses, PreparationEnds(a) PROVE ShownInv'
  <2>1. /\ owner' = owner /\ jobs[a] \in Job
        /\ \/ jobs' = [jobs EXCEPT ![a].status = "ready", ![a].prepared = TRUE]
           \/ jobs' = [jobs EXCEPT ![a].status = "failed"]
    BY <1>3, <1>4 DEF PreparationEnds
  <2>2. \A b \in Analyses : /\ jobs'[b] # None => jobs[b] # None
                            /\ jobs[b] # None => jobs'[b].result = jobs[b].result
    BY <1>3, <2>1, NoJobAssumption DEF Job
  <2> QED
    BY <1>2, <1>3, <2>1, <2>2
<1>5. ASSUME NEW q \in requests
      PROVE  /\ q.analysis \in Analyses /\ q.player \in Players
             /\ jobs[q.analysis] \in Job
             /\ Owner(q) # None /\ Owner(q).analysis = q.analysis
             /\ q.run \in RunIds \cup {None}
  <2>1. /\ q.analysis \in Analyses /\ q.player \in Players
        /\ q.run \in RunIds \cup {None}
    BY DEF FlowInv, FlowTypeOK, Request
  <2>2. jobs[q.analysis] # None
    BY <2>1 DEF FlowInv, FlowTypeOK, RequestsOK
  <2>3. Owner(q) \in [analysis : Analyses, player : Players]
    BY <2>1 DEF Owner
  <2> QED
    BY <1>3, <2>1, <2>2, <2>3, NoOwnerAssumption DEF Owner
<1>6. ASSUME NEW q \in requests, Receive(q) PROVE ShownInv'
  <2>1. CASE jobs' = jobs /\ owner' = owner
    BY <1>2, <1>3, <2>1
  <2>2. ASSUME NEW r \in RunIds, owner[r] = None,
               owner' = [owner EXCEPT ![r] = Owner(q)],
               jobs' = [jobs EXCEPT ![q.analysis] = Started(@, q.player, r)]
        PROVE  ShownInv'
    <3>1. Started(jobs[q.analysis], q.player, r).result = None
      <4>1. jobs[q.analysis] \in Job /\ q.player \in Players
        BY <1>5
      <4> QED
        BY <4>1, StartedJob
    <3>2. \A x \in RunIds : owner[x] # None => owner'[x] = owner[x]
      BY <1>3, <2>2
    <3>3. ASSUME NEW a \in Analyses, jobs'[a] # None, jobs'[a].result # None
          PROVE  owner'[jobs'[a].result] # None /\ owner'[jobs'[a].result].analysis = a
      <4>1. a # q.analysis /\ jobs'[a] = jobs[a]
        BY <1>3, <1>5, <2>2, <3>1, <3>3
      <4>2. jobs[a].result \in RunIds
        BY <1>3, <3>3, <4>1 DEF Job, Result
      <4> QED
        BY <1>3, <3>2, <3>3, <4>1, <4>2
    <3> QED
      BY <1>2, <3>2, <3>3
  <2> QED
    BY <1>6, <2>1, <2>2 DEF Receive
<1>7. ASSUME NEW q \in requests, RunEnds(q) PROVE ShownInv'
  <2>1. q.run \in RunIds /\ owner[q.run] = Owner(q) /\ owner' = owner
    BY <1>5, <1>7 DEF RunEnds, FlowInv, RequestsOK
  <2>2. /\ Succeeded(jobs[q.analysis], q).result = q.run
        /\ Failed(jobs[q.analysis], q).result = jobs[q.analysis].result
        /\ jobs[q.analysis] # None
    <3>1. jobs[q.analysis] \in Job /\ q.player \in Players
      BY <1>5
    <3> QED
      BY <2>1, <3>1, SucceededRun, FailedRun, NoJobAssumption
  <2>3. PICK j \in {Succeeded(jobs[q.analysis], q), Failed(jobs[q.analysis], q)} :
            jobs' = [jobs EXCEPT ![q.analysis] = j]
    BY <1>7 DEF RunEnds
  <2>4. ASSUME NEW a \in Analyses, jobs'[a] # None, jobs'[a].result # None
        PROVE  owner[jobs'[a].result] # None /\ owner[jobs'[a].result].analysis = a
    <3>1. CASE a # q.analysis
      BY <1>3, <2>3, <2>4, <3>1
    <3>2. CASE a = q.analysis
      <4>1. jobs'[a].result \in {q.run, jobs[a].result}
        BY <1>3, <2>2, <2>3, <3>2
      <4> QED
        BY <1>3, <1>5, <2>1, <2>2, <2>4, <3>2, <4>1
    <3> QED
      BY <3>1, <3>2
  <2> QED
    BY <1>2, <2>1, <2>4
<1>8. ASSUME NEW q \in requests, Unlock(q) PROVE ShownInv'
  BY <1>2, <1>3, <1>8 DEF Unlock
<1> QED
  BY <1>4, <1>6, <1>7, <1>8

\* The effects before a player is chosen.
LEMMA PreparationShown ==
    ASSUME FlowInv, ShownInv,
           SamplesAnswered \/ SampleAnswered \/ UploadAnswered \/ PrepareAnswered
    PROVE  ShownInv'
<1> USE DEF Early, Preparing, Showing, SampleScreens
<1>1. /\ screen \in Screen /\ ShownOK(screen)
      /\ screen.status \in PlayerScreens \/ screen.player = None
  BY DEF FlowInv, FlowTypeOK, ShownInv
<1>2. screen.result = None
  BY <1>1 DEF ShownOK, SamplesAnswered, SampleAnswered, UploadAnswered, PrepareAnswered
<1>3. ASSUME NEW t, Carries(t, screen), Show(t), UNCHANGED <<cache, backend>>
      PROVE  ShownInv'
  BY <1>3, CarryStep DEF Show
<1>4. ASSUME NEW status, NEW error, CallFails(status, error),
             status \in Early => screen.status \in Early, status \notin Preparing
      PROVE  ShownInv'
  <2>1. Carries(Fail(screen, status, error), screen)
    BY <1>1, <1>2, <1>4, FailCarries
  <2> QED
    BY <1>3, <1>4, <2>1 DEF CallFails
<1>5. CASE SamplesAnswered
  <2>1. Carries(Enter(screen, "samples-ready", 0), screen)
    BY <1>1, <1>2, <1>5, EnterCarries DEF SamplesAnswered
  <2> QED
    BY <1>3, <1>4, <1>5, <2>1 DEF SamplesAnswered
<1>6. CASE SampleAnswered
  <2>1. ASSUME NEW a \in Analyses, NewAnalysis(a, Sample),
               Show(SampleReplayReady(screen, Sample, a)),
               UNCHANGED <<cache, owner, uploaded>>
        PROVE  ShownInv'
    <3>1. screen.status = "selecting-sample" /\ Sample \in Replays
      BY <1>6, SampleAssumption DEF SampleAnswered, FlowInv, ScreenOK
    <3>2. /\ screen'.status = "waiting-for-players" /\ screen'.replay = Sample
          /\ screen'.result = screen.result
      BY <1>1, <2>1, <3>1 DEF Show, SampleReplayReady, Enter, Screen
    <3> QED
      BY <2>1, <3>1, <3>2, NewJobStep
  <2> QED
    BY <1>4, <1>6, <2>1 DEF SampleAnswered
<1>7. CASE UploadAnswered
  <2>1. ASSUME NEW r \in Replays \ (uploaded \cup {Sample}), uploaded' = uploaded \cup {r},
               Show([Enter(screen, "preparing-analysis", 0) EXCEPT !.replay = r]),
               UNCHANGED <<cache, jobs, replayOf, owner>>
        PROVE  ShownInv'
    <3>1. screen.status = "uploading" /\ ~screen.sample
      BY <1>1, <1>7 DEF UploadAnswered, ShownOK
    <3>2. /\ screen'.status = "preparing-analysis" /\ screen'.replay = r
          /\ screen'.result = None /\ ~screen'.sample
      BY <1>1, <1>2, <2>1, <3>1 DEF Show, Enter, Screen
    <3>3. ShownOK(screen)'
      BY <3>2 DEF ShownOK
    <3>4. KeptResults'
      BY <2>1 DEF ShownInv, KeptResults, Made
    <3>5. \A a \in Analyses : replayOf[a] # r
      BY <2>1, NoReplayAssumption DEF ShownInv, UploadsPreparedOnce
    <3>6. UploadsPreparedOnce'
      BY <2>1, <3>2, <3>5 DEF ShownInv, UploadsPreparedOnce
    <3> QED
      BY <3>3, <3>4, <3>6 DEF ShownInv
  <2> QED
    BY <1>4, <1>7, <2>1 DEF UploadAnswered
<1>8. CASE PrepareAnswered
  <2>1. screen.status = "preparing-analysis" /\ screen.replay \in Replays
    BY <1>8 DEF PrepareAnswered, FlowInv, ScreenOK, Screen, Uploaded
  <2>2. ASSUME NEW a \in Analyses, NewAnalysis(a, screen.replay),
               Show(AnalysisPrepared(screen, a)),
               UNCHANGED <<cache, owner, uploaded>>
        PROVE  ShownInv'
    <3>1. /\ screen'.status = "waiting-for-players" /\ screen'.replay = screen.replay
          /\ screen'.result = screen.result /\ screen'.sample = FALSE
      BY <1>1, <2>1, <2>2 DEF Show, AnalysisPrepared, Enter, Screen
    <3> QED
      BY <2>1, <2>2, <3>1, NewJobStep
  <2>3. ASSUME NEW e, Show(AnalysisPrepareFailed(screen, e)), UNCHANGED <<cache, backend>>
        PROVE  ShownInv'
    <3> DEFINE t == AnalysisPrepareFailed(screen, e)
    <3>1. /\ t.status = "analysis-prepare-error" /\ t.replay = screen.replay
          /\ t.result = None /\ t.sample = FALSE
      BY <1>1, <1>2, <2>1 DEF AnalysisPrepareFailed, Fail, Screen
    <3> HIDE DEF t
    <3>2. Carries(t, screen)
      BY <2>1, <3>1 DEF Carries, ShownOK
    <3> QED
      BY <1>3, <2>3, <3>2 DEF t
  <2> QED
    BY <1>8, <2>2, <2>3 DEF PrepareAnswered
<1> QED
  BY <1>5, <1>6, <1>7, <1>8

\* The answer to a coaching request carries the result of that request's run.
LEMMA AnswerShown ==
    ASSUME FlowInv, ShownInv, NEW q \in requests, CoachingAnswered(q) PROVE ShownInv'
<1> USE DEF Early, Preparing, Showing, SampleScreens
<1>1. screen \in Screen /\ ShownOK(screen)
  BY DEF FlowInv, FlowTypeOK, ShownInv
<1>2. ASSUME Expects(screen, "running-coaching", q.id)
      PROVE  screen.status = "running-coaching" /\ screen.result = None
  BY <1>1, <1>2 DEF Expects, ShownOK
<1>3. Carries(CoachingRequestUncertain(screen, q.id), screen)
  BY <1>1, <1>2, EnterCarries, SameCarries DEF CoachingRequestUncertain
<1>4. Carries(CoachingFailed(screen, q.id), screen)
  BY <1>1, <1>2, FailCarries, SameCarries DEF CoachingFailed
<1>5. ASSUME q.stage = "done"
      PROVE  Carries(CoachingSucceeded(screen, q.id, ResultOf(q.analysis, q.run)), screen)
  <2>1. owner[q.run] = Owner(q)
    BY <1>5 DEF FlowInv, RequestsOK
  <2>2. Owner(q) # None /\ Owner(q).analysis = q.analysis
    <3>1. q.analysis \in Analyses /\ q.player \in Players
      BY DEF FlowInv, FlowTypeOK, Request
    <3> QED
      BY <3>1, NoOwnerAssumption DEF Owner
  <2> QED
    BY <1>1, <1>2, <2>1, <2>2, FinishCarries, SameCarries DEF CoachingSucceeded
<1>6. PICK t : Carries(t, screen) /\ screen' = t
  BY <1>3, <1>4, <1>5 DEF CoachingAnswered, Show
<1> QED
  BY <1>6, CarryStep DEF CoachingAnswered

\* Recovery is given the latest result of the job on the screen.
LEMMA RecoveryShown ==
    ASSUME FlowInv, ShownInv, RecoveryPolled PROVE ShownInv'
<1> USE DEF Early, Preparing, Showing, SampleScreens
<1> DEFINE answer == ResultOfJob(jobs[screen.analysis])
<1>1. /\ screen \in Screen /\ ShownOK(screen) /\ screen.result = None
      /\ screen.status = "recovering-result"
  BY DEF RecoveryPolled, FlowInv, FlowTypeOK, ShownInv, ShownOK
<1>2. \A e \in {"result-recovery-error", "coaching-error"} :
          Carries(Fail(screen, e, "retryable"), screen)
  BY <1>1, FailCarries
<1>3. ASSUME answer \in RunIds
      PROVE  Carries(ResultRecovered(screen, ResultOf(screen.analysis, answer)), screen)
  <2>1. answer \notin NoResult
    BY <1>3, RunIdAssumption
  <2>2. /\ jobs[screen.analysis].result # None
        /\ answer = jobs[screen.analysis].result
    BY <2>1 DEF ResultOfJob, NoResult
  <2>3. screen.analysis \in Analyses /\ jobs[screen.analysis] # None
    <3>1. /\ screen.analysis \in Analyses /\ screen.replay # None
          /\ replayOf[screen.analysis] = screen.replay
      BY <1>1 DEF FlowInv, ScreenOK, PlaceOK, Screen, PlayerScreens, Prepared, Uploaded
    <3> QED
      BY <3>1 DEF FlowInv, FlowTypeOK
  <2>4. owner[answer] # None /\ owner[answer].analysis = screen.analysis
    BY <2>2, <2>3 DEF ShownInv, KeptResults
  <2> HIDE DEF answer
  <2> QED
    BY <1>1, <2>4, FinishCarries DEF ResultRecovered
<1>4. \/ \E e \in {"result-recovery-error", "coaching-error"} :
             screen' = Fail(screen, e, "retryable")
      \/ /\ answer \in RunIds
         /\ screen' = ResultRecovered(screen, ResultOf(screen.analysis, answer))
      \/ screen' = screen
  BY DEF RecoveryPolled, Show
<1> HIDE DEF answer
<1>5. PICK t : Carries(t, screen) /\ screen' = t
  BY <1>1, <1>2, <1>3, <1>4, SameCarries
<1> QED
  BY <1>5, CarryStep DEF RecoveryPolled

\* The other effects, the buttons and the history bring no result but the
\* cached one.
LEMMA PageShown ==
    ASSUME FlowInv, ShownInv,
           \/ PlayersPolled \/ CoachingTimesOut \/ VisualizationPolled \/ Deadline
           \/ Back \/ Forward \/ OpenLandingView \/ SelectReplayFile \/ ChooseSample
           \/ \E p \in Players : ChoosePlayer(p)
           \/ RepeatCoaching \/ Retry \/ ReturnHome \/ ReturnToPlayers
    PROVE  ShownInv'
<1> USE DEF Early, Preparing, Showing, SampleScreens
<1>1. /\ screen \in Screen /\ ShownOK(screen)
      /\ screen.result # None => screen.status \in Showing
  BY DEF FlowInv, FlowTypeOK, ShownInv, ShownOK
<1>2. ASSUME NEW t, Carries(t, screen), screen' = t,
             cache' \in {cache, None, screen.result}, UNCHANGED backend
      PROVE  ShownInv'
  BY <1>2, CarryStep
<1>3. ASSUME NEW n, GoTo(n), UNCHANGED <<cache, backend>> PROVE ShownInv'
  BY <1>2, <1>3, ReachedCarries DEF GoTo, Show
<1>4. Carries(screen, screen)
  BY <1>1, SameCarries
<1>5. CASE PlayersPolled
  <2>1. Carries(Fail(screen, "players-error", "retryable"), screen)
    BY <1>1, <1>5, FailCarries DEF PlayersPolled
  <2>2. Carries(PlayersLoaded(screen, Listed(screen.analysis)), screen)
    BY <1>1, <1>5, FailCarries, EnterCarries DEF PlayersPolled, PlayersLoaded
  <2>3. PICK t : Carries(t, screen) /\ screen' = t
    BY <1>4, <1>5, <2>1, <2>2 DEF PlayersPolled, Show
  <2> QED
    BY <1>2, <1>5, <2>3 DEF PlayersPolled
<1>6. CASE CoachingTimesOut
  <2>1. Carries(CoachingRequestUncertain(screen, screen.request), screen)
    BY <1>1, <1>6, EnterCarries, SameCarries DEF CoachingTimesOut, CoachingRequestUncertain
  <2> QED
    BY <1>2, <1>6, <2>1 DEF CoachingTimesOut, Show
<1>7. CASE VisualizationPolled
  <2>1. \A e : Carries(Fail(screen, "visualization-error", e), screen)
    BY <1>1, <1>7, FailCarries DEF VisualizationPolled
  <2>2. Carries(VisualizationLoaded(screen), screen)
    BY <1>1, <1>7, EnterCarries DEF VisualizationPolled, VisualizationLoaded
  <2>3. PICK t : Carries(t, screen) /\ screen' = t
    BY <1>4, <1>7, <2>1, <2>2 DEF VisualizationPolled, Show
  <2> QED
    BY <1>2, <1>7, <2>3 DEF VisualizationPolled
<1>8. CASE Deadline
  BY <1>2, <1>4, <1>8 DEF Deadline
<1>9. CASE Back \/ Forward
  BY <1>3, <1>9 DEF Back, Forward
<1>10. CASE OpenLandingView
  BY <1>1, <1>2, <1>10, OpenCarries DEF OpenLandingView, Show
<1>11. CASE SelectReplayFile
  <2>1. Carries(Enter(screen, "uploading", 0), screen)
    BY <1>1, <1>11, EnterCarries DEF SelectReplayFile
  <2> QED
    BY <1>2, <1>11, <2>1 DEF SelectReplayFile, Show
<1>12. CASE ChooseSample
  <2>1. Carries(SelectSample(screen), screen)
    BY <1>1, <1>12, EnterCarries DEF ChooseSample, SelectSample
  <2> QED
    BY <1>2, <1>12, <2>1 DEF ChooseSample, Show
<1>13. ASSUME NEW p \in Players, ChoosePlayer(p) PROVE ShownInv'
  <2> DEFINE t == [Enter(screen, "running-coaching", lastId') EXCEPT !.player = p]
  <2>1. screen.status = "choosing-player" /\ screen.result = None
    BY <1>1, <1>13 DEF ChoosePlayer
  <2>2. /\ t.result = None /\ t.sample = screen.sample /\ t.replay = screen.replay
        /\ t.status = "running-coaching"
    BY <1>1, <2>1 DEF Enter, Screen
  <2>3. screen' = t
    BY <1>13, <2>1 DEF ChoosePlayer, SelectPlayer, Show
  <2> HIDE DEF t
  <2>4. Carries(t, screen)
    BY <1>1, <2>2 DEF Carries, ShownOK
  <2> QED
    BY <1>2, <1>13, <2>3, <2>4 DEF ChoosePlayer
<1>14. CASE RepeatCoaching
  <2>1. Carries(RetryCoaching(screen, lastId'), screen)
    BY <1>1, <1>14, EnterCarries, SameCarries DEF RepeatCoaching, RetryCoaching
  <2> QED
    BY <1>2, <1>14, <2>1 DEF RepeatCoaching, Show
<1>15. CASE Retry
  <2>1. Carries(OpenSamples(screen), screen)
    BY <1>1, OpenCarries
  <2>2. ASSUME screen.status = "upload-error"
        PROVE  Carries(Enter(screen, "uploading", 0), screen)
    BY <1>1, <2>2, EnterCarries
  <2>3. ASSUME screen.status = "players-error"
        PROVE  Carries(Enter(screen, "waiting-for-players", 0), screen)
    BY <1>1, <2>3, EnterCarries
  <2>4. Carries(RetryResultRecovery(screen), screen)
    BY <1>1, EnterCarries, SameCarries DEF RetryResultRecovery
  <2>5. Carries(RetryVisualization(screen), screen)
    BY <1>1, EnterCarries, SameCarries DEF RetryVisualization
  <2>6. ASSUME screen.status = "players-error" => screen.sample
        PROVE  Carries(RetryAnalysisPrepare(screen), screen)
    BY <1>1, <2>6, PrepareAgainCarries
  <2>7. PICK t : Carries(t, screen) /\ screen' = t
    BY <1>15, <2>1, <2>2, <2>3, <2>4, <2>5, <2>6 DEF Retry, Show
  <2> QED
    BY <1>2, <1>15, <2>7 DEF Retry
<1>16. CASE ReturnHome
  BY <1>2, <1>3, <1>16, ChooseCarries DEF ReturnHome, Show
<1>17. CASE ReturnToPlayers
  BY <1>1, <1>2, <1>3, <1>17, ReturnCarries DEF ReturnToPlayers, Show
<1> QED
  BY <1>5, <1>6, <1>7, <1>8, <1>9, <1>10, <1>11, <1>12, <1>13, <1>14, <1>15, <1>16, <1>17

LEMMA NextShown == FlowInv /\ ShownInv /\ [Next]_vars => ShownInv'
<1> SUFFICES ASSUME FlowInv, ShownInv, [Next]_vars PROVE ShownInv'
  OBVIOUS
<1>1. CASE UNCHANGED vars
  BY <1>1 DEF vars, page, backend, ShownInv, ShownOK, UploadsPreparedOnce, KeptResults, Made
<1>2. CASE Next
  BY <1>2, BackendShown, PreparationShown, AnswerShown, RecoveryShown, PageShown DEF Next
<1> QED
  BY <1>1, <1>2

-----------------------------------------------------------------------------
(* The theorem.                                                            *)

\* The strengthened invariant holds in every reachable state.
THEOREM ShownInvariant == Spec => [](FlowInv /\ ShownInv)
<1>1. Init => FlowInv /\ ShownInv
  BY InitFlow, InitShown
<1>2. FlowInv /\ ShownInv /\ [Next]_vars => (FlowInv /\ ShownInv)'
  BY NextFlow, NextShown
<1> QED
  BY <1>1, <1>2, PTL DEF Spec

\* What is shown of an upload was made for the analysis and the player on the
\* screen, by the request's answer, by recovery or from the viewer kept for
\* browser Forward (analysis-flow.ts resultMatchesSelection).
THEOREM ShownRunMatches == Spec => []ShownRunIsOfTheSelection
<1>1. FlowInv /\ ShownInv => ShownRunIsOfTheSelection
  <2> SUFFICES ASSUME FlowInv, ShownInv, screen.result # None, screen.replay # Sample
               PROVE  owner[screen.result.run] = Owner(screen)
    BY DEF ShownRunIsOfTheSelection
  <2> DEFINE o == owner[screen.result.run]
  <2>1. /\ o # None /\ o.player = screen.player
        /\ replayOf[o.analysis] = screen.replay /\ screen.status \in Showing
    BY DEF ShownInv, ShownOK, Made
  <2>2. o \in [analysis : Analyses, player : Players]
    <3>1. screen.result.run \in RunIds
      BY DEF FlowInv, FlowTypeOK, Screen, CoachingResult
    <3> QED
      BY <2>1, <3>1 DEF FlowInv, FlowTypeOK
  <2>3. /\ screen.analysis \in Analyses /\ screen.replay # None
        /\ replayOf[screen.analysis] = screen.replay
    BY <2>1 DEF FlowInv, ScreenOK, PlaceOK, Screen, Showing, PlayerScreens, Prepared, Uploaded
  <2> HIDE DEF o
  <2>4. o.analysis = screen.analysis
    BY <2>1, <2>2, <2>3 DEF ShownInv, UploadsPreparedOnce
  <2> QED
    BY <2>1, <2>2, <2>4 DEF Owner, o
<1> QED
  BY <1>1, ShownInvariant, PTL

-----------------------------------------------------------------------------
(***************************************************************************)
(* Recovery asks for the status of the job, not of the player's run.  When *)
(* the analysis has one player the two agree where it matters: a failed    *)
(* job has no run that is running or complete.                             *)
(***************************************************************************)

\* Neither a failed job nor one in preparation has a run to wait for.
FailuresAreOfTheRun ==
    \A a \in Analyses, p \in Players :
        jobs[a] # None /\ jobs[a].status \in {"processing", "failed"} =>
            jobs[a].runs[p].status \notin {"running", "complete"}

\* A job that comes, or that replaces another, keeps it.
LEMMA FailureStep ==
    ASSUME FlowInv, FailuresAreOfTheRun, NEW a \in Analyses, NEW j \in Job,
           jobs' = [jobs EXCEPT ![a] = j],
           j.status \in {"processing", "failed"} =>
               \A p \in Players : j.runs[p].status \notin {"running", "complete"}
    PROVE  FailuresAreOfTheRun'
BY DEF FlowInv, FlowTypeOK, FailuresAreOfTheRun

\* Every step of the page and of the backend keeps it.
LEMMA NextFailures ==
    ASSUME NEW p, Players = {p}, FlowInv, FailuresAreOfTheRun, [Next]_vars
    PROVE  FailuresAreOfTheRun'
<1>1. CASE jobs' = jobs
  BY <1>1 DEF FailuresAreOfTheRun
<1>2. ASSUME NEW a \in Analyses, NEW replay, NewAnalysis(a, replay)
      PROVE  FailuresAreOfTheRun'
  <2>1. jobs' = [jobs EXCEPT ![a] = NewJob]
    BY <1>2 DEF NewAnalysis
  <2>2. \A q \in Players : NewJob.runs[q].status = "not_started"
    BY DEF NewJob, NoRun
  <2> QED
    BY <2>1, <2>2, NewJobType, FailureStep
<1>3. ASSUME NEW a \in Analyses, PreparationEnds(a) PROVE FailuresAreOfTheRun'
  <2>1. /\ jobs[a] \in Job /\ jobs[a] # None /\ jobs[a].status = "processing"
        /\ \/ jobs' = [jobs EXCEPT ![a].status = "ready", ![a].prepared = TRUE]
           \/ jobs' = [jobs EXCEPT ![a].status = "failed"]
    BY <1>3 DEF PreparationEnds, FlowInv, FlowTypeOK
  <2>2. /\ [jobs[a] EXCEPT !.status = "ready", !.prepared = TRUE] \in Job
        /\ [jobs[a] EXCEPT !.status = "failed"] \in Job
        /\ [jobs[a] EXCEPT !.status = "ready", !.prepared = TRUE].status = "ready"
        /\ [jobs[a] EXCEPT !.status = "failed"].runs = jobs[a].runs
    BY <2>1 DEF Job, JobStatus
  <2>3. PICK j \in Job : /\ jobs' = [jobs EXCEPT ![a] = j]
                         /\ j.status = "ready" \/ j.runs = jobs[a].runs
    BY <2>1, <2>2
  <2>4. j.status \in {"processing", "failed"} =>
            \A q \in Players : j.runs[q].status \notin {"running", "complete"}
    BY <2>1, <2>3 DEF FailuresAreOfTheRun
  <2> QED
    BY <2>3, <2>4, FailureStep
<1>4. ASSUME NEW q \in requests
      PROVE  /\ q.analysis \in Analyses /\ q.player \in Players /\ q.player = p
             /\ jobs[q.analysis] \in Job /\ q.run \in RunIds \cup {None}
  BY DEF FlowInv, FlowTypeOK, RequestsOK, Request
<1>5. ASSUME NEW q \in requests, Receive(q), jobs' # jobs PROVE FailuresAreOfTheRun'
  <2>1. PICK r \in RunIds :
            jobs' = [jobs EXCEPT ![q.analysis] = Started(@, q.player, r)]
    BY <1>5 DEF Receive
  <2>2. /\ Started(jobs[q.analysis], q.player, r) \in Job
        /\ Started(jobs[q.analysis], q.player, r).status = "coaching"
    BY <1>4, StartedJob
  <2> QED
    BY <1>4, <2>1, <2>2, FailureStep
<1>6. ASSUME NEW q \in requests, RunEnds(q) PROVE FailuresAreOfTheRun'
  <2>1. q.run \in RunIds
    BY <1>4, <1>6 DEF RunEnds, FlowInv, RequestsOK
  <2>2. /\ Succeeded(jobs[q.analysis], q) \in Job
        /\ Succeeded(jobs[q.analysis], q).status = "complete"
        /\ Failed(jobs[q.analysis], q) \in Job
        /\ Failed(jobs[q.analysis], q).runs[p].status = "failed"
    <3>1. jobs[q.analysis] \in Job /\ q.player \in Players /\ q.player = p
      BY <1>4
    <3>2. /\ Failed(jobs[q.analysis], q) \in Job
          /\ Failed(jobs[q.analysis], q).runs[q.player] =
                 [id |-> q.run, status |-> "failed", result |-> None]
      BY <2>1, <3>1, FailedRun
    <3>3. /\ Succeeded(jobs[q.analysis], q) \in Job
          /\ Succeeded(jobs[q.analysis], q).status = "complete"
      BY <2>1, <3>1, SucceededRun
    <3> QED
      BY <3>1, <3>2, <3>3
  <2>3. PICK j \in {Succeeded(jobs[q.analysis], q), Failed(jobs[q.analysis], q)} :
            jobs' = [jobs EXCEPT ![q.analysis] = j]
    BY <1>6 DEF RunEnds
  <2>4. /\ j \in Job
        /\ j.status \in {"processing", "failed"} =>
               \A x \in Players : j.runs[x].status \notin {"running", "complete"}
    BY <2>2, <2>3
  <2> QED
    BY <1>4, <2>3, <2>4, FailureStep
<1> QED
  BY <1>1, <1>2, <1>3, <1>5, <1>6
     DEF Next, vars, backend, page, Unlock, CoachingAnswered, SamplesAnswered, CallFails,
         SampleAnswered, UploadAnswered, PrepareAnswered, PlayersPolled, CoachingTimesOut,
         RecoveryPolled, VisualizationPolled, Deadline, Back, Forward, OpenLandingView,
         SelectReplayFile, ChooseSample, ChoosePlayer, RepeatCoaching, Retry, ReturnHome,
         ReturnToPlayers

\* Only the poll of the recovering screen leads from it to the coaching error.
LEMMA OnlyThePollGivesUp ==
    ASSUME FlowInv, [Next]_vars, screen.status = "recovering-result",
           screen'.status = "coaching-error"
    PROVE  RecoveryPolled
<1>1. screen \in Screen /\ screen' # screen
  BY DEF FlowInv, FlowTypeOK
<1>2. ASSUME NEW view PROVE Reached(view).status # "coaching-error"
  BY <1>1 DEF Reached, ReturnToPlayerSelection, RestoreViewer, OpenSamples, Choose,
              Enter, Screen, PlayerScreens
<1>3. ASSUME NEW n, GoTo(n) PROVE FALSE
  BY <1>2, <1>3 DEF GoTo, Show
<1>4. ReturnToPlayerSelection(screen).status # "coaching-error"
  BY <1>1 DEF ReturnToPlayerSelection, Enter, Screen, PlayerScreens
<1>5. ~ReturnToPlayers /\ ~Back /\ ~Forward
  BY <1>3, <1>4 DEF ReturnToPlayers, Back, Forward, Show
<1>6. \A q \in requests : ~CoachingAnswered(q)
  BY <1>1 DEF CoachingAnswered, CoachingSucceeded, CoachingRequestUncertain,
              CoachingFailed, Expects, Show
<1>7. ~Retry
  BY <1>1 DEF Retry, Show, RetryAnalysisPrepare, RetryVisualization,
              RetryResultRecovery, OpenSamples
<1> QED
  BY <1>1, <1>5, <1>6, <1>7
     DEF Next, vars, page, PreparationEnds, Receive, RunEnds, Unlock, SamplesAnswered,
         SampleAnswered, UploadAnswered, PrepareAnswered, PlayersPolled,
         CoachingTimesOut, VisualizationPolled, Deadline, OpenLandingView,
         SelectReplayFile, ChooseSample, ChoosePlayer, RepeatCoaching, ReturnHome

\* In an analysis of one player recovery permits a rerun only when the run of
\* the player on the screen is neither running nor complete, and its answer is
\* always about the selection (analysis-flow.ts resultRecoveryDisposition,
\* DecisionFlow.tsx recovering-result effect).  With several players the job
\* may have failed for another one, and the statement is false.
THEOREM RecoveryAsksAboutTheRun ==
    ASSUME NEW p, Players = {p} PROVE Spec => RecoveryIsAboutTheRun
<1> DEFINE Agrees ==
        screen.status = "recovering-result" /\ screen'.status = "coaching-error" =>
            /\ screen'.error = "retryable"
            /\ jobs[screen.analysis].runs[screen.player].status
                   \notin {"running", "complete"}
<1>1. ASSUME FlowInv, ShownInv, FailuresAreOfTheRun, [Next]_vars PROVE Agrees
  <2> SUFFICES ASSUME screen.status = "recovering-result",
                      screen'.status = "coaching-error"
               PROVE  /\ screen'.error = "retryable"
                      /\ jobs[screen.analysis].runs[screen.player].status
                             \notin {"running", "complete"}
    OBVIOUS
  <2> DEFINE job == jobs[screen.analysis]
             answer == ResultOfJob(job)
  <2>1. RecoveryPolled
    BY <1>1, OnlyThePollGivesUp
  <2>2. /\ screen \in Screen /\ screen.analysis \in Analyses /\ screen.player = p
        /\ replayOf[screen.analysis] = screen.replay /\ screen.replay # None
    BY <1>1 DEF FlowInv, FlowTypeOK, ScreenOK, PlaceOK, Screen, PlayerScreens, Prepared,
                Uploaded
  <2>3. job # None /\ job \in Job
    BY <1>1, <2>2 DEF FlowInv, FlowTypeOK
  <2>4. ASSUME answer \in RunIds
        PROVE  screen' # ResultRecovered(screen, ResultOf(screen.analysis, answer))
    <3>1. answer = job.result /\ job.result # None
      BY <2>4, RunIdAssumption DEF ResultOfJob, NoResult
    <3>2. owner[answer] # None
      BY <1>1, <2>2, <2>3, <3>1 DEF ShownInv, KeptResults
    <3>3. owner[answer].player = p
      BY <1>1, <2>4, <3>2 DEF FlowInv, FlowTypeOK
    <3> HIDE DEF answer
    <3>4. ResultMatchesSelection(ResultOf(screen.analysis, answer), screen)
      BY <2>2, <3>3 DEF ResultMatchesSelection, ResultOf
    <3>5. ResultRecovered(screen, ResultOf(screen.analysis, answer)).status
              = "loading-visualization"
      BY <2>2, <3>4 DEF ResultRecovered, FinishCoaching, Enter, Screen
    <3> QED
      BY <3>5
  <2>5. ResultRecoveryDisposition(job.status, effect.late) = "retry-coaching"
            /\ screen' = Fail(screen, "coaching-error", "retryable")
    <3>1. Fail(screen, "result-recovery-error", "retryable").status # "coaching-error"
      BY <2>2 DEF Fail, Screen
    <3> HIDE DEF answer
    <3> QED
      BY <2>1, <2>4, <3>1 DEF RecoveryPolled, Show, answer
  <2>6. job.status = "failed"
    BY <2>5 DEF ResultRecoveryDisposition
  <2>7. screen'.error = "retryable"
    BY <2>2, <2>5 DEF Fail, Screen
  <2> QED
    BY <1>1, <2>2, <2>3, <2>6, <2>7 DEF FailuresAreOfTheRun
<1>2. Init => FailuresAreOfTheRun
  BY DEF Init, FailuresAreOfTheRun
<1>3. FlowInv /\ FailuresAreOfTheRun /\ [Next]_vars => FailuresAreOfTheRun'
  BY NextFailures
<1> HIDE DEF Agrees
<1>4. FlowInv /\ ShownInv /\ FailuresAreOfTheRun /\ [Next]_vars => Agrees
  BY <1>1
<1>5. Spec => [][Agrees]_vars
  BY <1>2, <1>3, <1>4, ShownInvariant, PTL DEF Spec
<1> QED
  BY <1>5 DEF RecoveryIsAboutTheRun, Agrees
=============================================================================
