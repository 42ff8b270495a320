---------------------------- MODULE AnalysisEvents ----------------------------
(***************************************************************************)
(* The progress stream of an analysis job: the updates the service logs    *)
(* (AnalysisService._write_log), the generator that sends them             *)
(* (GET .../events, backend/app/main.py) and the page that follows it with *)
(* an EventSource, which connects again whenever the stream ends           *)
(* (subscribeToAnalysisProgress and DecisionFlow.tsx).  The stream looks   *)
(* at the updates and at the status one after the other, while runs go on. *)
(***************************************************************************)
EXTENDS Naturals, Sequences, FiniteSets

CONSTANTS
    MaxSelections,   \* bounds the runs of the job
    MaxLosses        \* bounds how often a connection is lost or the process stops

ASSUME EventsAssumption == MaxSelections \in Nat /\ MaxLosses \in Nat

VARIABLES
    updates,    \* job.updates
    status,     \* job.status
    running,    \* runs in progress
    selections, \* how many runs were started
    stream,     \* the generator of the page's connection
    source,     \* the page's EventSource and what its connection delivered
    asked,      \* how often the page renewed its subscription
    seen,       \* the runs whose end the page was told of
    losses

eventVars == <<updates, status, running, selections, stream, source, asked, seen, losses>>

RunNumbers == 1..MaxSelections
Update     == [stage : {"received", "prepared", "player_selected", "calling_pi", "complete", "error"},
               run : 0..MaxSelections]
Terminal   == {"complete", "error"}

\* Where the generator is: at the top of its loop, sending what it read,
\* about to read the status, or returned.
Positions == {"updates", "send", "status", "ended"}

\* A new request of the stream, and a new EventSource.
NewStream == [at |-> "updates", length |-> 0, index |-> 0]
NewSource == [open |-> TRUE, terminal |-> FALSE, got |-> <<>>]

\* A job whose preparation succeeded or failed.  Nobody can follow it earlier:
\* its identifier is in the answer of the request that prepares it.
EventsInit ==
    /\ \/ /\ status = "ready"
          /\ updates = <<[stage |-> "received", run |-> 0], [stage |-> "prepared", run |-> 0]>>
       \/ /\ status = "failed"
          /\ updates = <<[stage |-> "received", run |-> 0], [stage |-> "error", run |-> 0]>>
    /\ running = {} /\ selections = 0
    /\ stream = NewStream /\ source = NewSource
    /\ asked = 0 /\ seen = {} /\ losses = 0

-----------------------------------------------------------------------------
(* The runs.                                                                *)

\* select_player: both updates are logged under the job's lock.  The run may be
\* one the page asked for or somebody else's.
StartRun ==
    /\ status # "failed" \/ selections > 0
    /\ selections < MaxSelections
    /\ selections' = selections + 1
    /\ running' = running \cup {selections'}
    /\ status' = "coaching"
    /\ updates' = updates \o <<[stage |-> "player_selected", run |-> selections'],
                               [stage |-> "calling_pi", run |-> selections']>>
    /\ UNCHANGED <<stream, source, asked, seen, losses>>

\* The end of a run sets the status and logs its outcome, again under the lock.
EndRun(r) ==
    /\ r \in running
    /\ running' = running \ {r}
    /\ \E ended \in {[status |-> "complete", stage |-> "complete"],
                     [status |-> "failed", stage |-> "error"]} :
          /\ status' = ended.status
          /\ updates' = Append(updates, [stage |-> ended.stage, run |-> r])
    /\ UNCHANGED <<selections, stream, source, asked, seen, losses>>

\* The process stops and restores the job: the updates were only in memory.
Restart ==
    /\ losses < MaxLosses /\ losses' = losses + 1
    /\ updates' = <<>> /\ running' = {}
    /\ status' = IF status = "coaching" THEN "ready" ELSE status
    /\ stream' = [stream EXCEPT !.at = "ended"]
    /\ UNCHANGED <<selections, source, asked, seen>>

-----------------------------------------------------------------------------
(* The stream.                                                              *)

Following == source.open

\* analysis.updates(...): a copy, taken under the lock.
ReadUpdates ==
    /\ Following /\ stream.at = "updates"
    /\ stream' = [stream EXCEPT !.at = "send", !.length = Len(updates)]
    /\ UNCHANGED <<updates, status, running, selections, source, asked, seen, losses>>

\* Mutant: only the latest update is sent.
LatestIndex == stream.length

NextIndex == stream.index + 1

\* One update of the copy that was not sent yet.  The page receives it.
Send ==
    /\ Following /\ stream.at = "send"
    /\ IF stream.index < stream.length
       THEN LET update == updates[NextIndex] IN
               /\ stream' = [stream EXCEPT !.index = NextIndex]
               /\ source' = [source EXCEPT !.got = Append(@, update),
                                           !.terminal = @ \/ update.stage \in Terminal]
               /\ seen' = IF update.stage \in Terminal THEN seen \cup {update.run} ELSE seen
       ELSE /\ stream' = [stream EXCEPT !.at = "status"]
            /\ UNCHANGED <<source, seen>>
    /\ UNCHANGED <<updates, status, running, selections, asked, losses>>

\* The status is read later than the updates.
ReadStatus ==
    /\ Following /\ stream.at = "status"
    /\ stream' = [stream EXCEPT !.at = IF status \in {"ready", "complete", "failed"}
                                        THEN "ended" ELSE "updates"]
    /\ UNCHANGED <<updates, status, running, selections, source, asked, seen, losses>>

LoseConnection ==
    /\ losses < MaxLosses /\ losses' = losses + 1
    /\ Following /\ stream.at # "ended"
    /\ stream' = [stream EXCEPT !.at = "ended"]
    /\ UNCHANGED <<updates, status, running, selections, source, asked, seen>>

-----------------------------------------------------------------------------
(* The page.                                                                *)

\* Mutant: the page gives up at the first error.
GivesUpAtOnce == TRUE

\* onerror: the source is closed once a terminal event was received.
GivesUp == source.terminal

\* Every ended stream is an error to the EventSource, which connects again.
Reconnect ==
    /\ Following /\ stream.at = "ended"
    /\ IF GivesUp
       THEN source' = [source EXCEPT !.open = FALSE] /\ UNCHANGED stream
       ELSE source' = [source EXCEPT !.got = <<>>] /\ stream' = NewStream
    /\ UNCHANGED <<updates, status, running, selections, asked, seen, losses>>

\* The subscription's key changes as the page asks for a run and as it is
\* answered: the effect closes the source and opens another.
Resubscribe ==
    /\ asked < 2 * MaxSelections /\ asked' = asked + 1
    /\ source' = NewSource /\ stream' = NewStream
    /\ UNCHANGED <<updates, status, running, selections, seen, losses>>

EventsNext ==
    \/ StartRun \/ (\E r \in RunNumbers : EndRun(r)) \/ Restart
    \/ ReadUpdates \/ Send \/ ReadStatus \/ LoseConnection
    \/ Reconnect \/ Resubscribe

\* The generator is driven by the server, the EventSource by the browser.
EventsFairness ==
    /\ WF_eventVars(ReadUpdates) /\ WF_eventVars(Send) /\ WF_eventVars(ReadStatus)
    /\ WF_eventVars(Reconnect)

EventsSpec == EventsInit /\ [][EventsNext]_eventVars /\ EventsFairness

-----------------------------------------------------------------------------
(* Properties.                                                              *)

EventsTypeOK ==
    /\ updates \in Seq(Update)
    /\ status \in {"ready", "coaching", "complete", "failed"}
    /\ running \subseteq RunNumbers /\ selections \in 0..MaxSelections
    /\ stream \in [at : Positions, length : Nat, index : Nat]
    /\ source.open \in BOOLEAN /\ source.terminal \in BOOLEAN /\ source.got \in Seq(Update)
    /\ asked \in Nat /\ seen \subseteq 0..MaxSelections /\ losses \in 0..MaxLosses

\* What a connection has delivered is the beginning of the job's log: nothing is
\* skipped, repeated or out of order, however the runs go on meanwhile; and the
\* page stops following only after a run's end was reported to it.
ProgressIsTheLog ==
    /\ stream.at # "ended" =>
          /\ stream.index = Len(source.got) /\ stream.index <= Len(updates)
          /\ source.got = SubSeq(updates, 1, stream.index)
    /\ ~source.open => \E k \in DOMAIN source.got : source.got[k].stage \in Terminal

\* The updates since the job was received are still there.
Whole == updates # <<>> /\ updates[1].stage = "received"

\* The run whose end is the first the job reports; 0 is the preparation.
FirstEnded(r) ==
    \E k \in DOMAIN updates :
        /\ updates[k].stage \in Terminal /\ updates[k].run = r
        /\ \A j \in 1..(k - 1) : updates[j].stage \notin Terminal

FirstEndIsPending == Whole /\ \E r \in 0..MaxSelections : FirstEnded(r) /\ r \notin seen

\* The page learns that the first run has ended, although the stream may read
\* the updates before the end and the status after it and so stop without
\* having sent it; only a restart, which forgets the updates, keeps it from it.
FirstEndIsReported == FirstEndIsPending ~> ~FirstEndIsPending
==============================================================================
