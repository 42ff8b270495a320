----------------------------- MODULE DatasetFiles -----------------------------
(***************************************************************************)
(* The training data on disk (replay_engine/training/download_dataset.py   *)
(* and stream_sidecars.py): sidecars are downloaded within a budget, their *)
(* directory is locked by a manifest of checksums and restored from it     *)
(* elsewhere, or they are streamed into one file of snapshots.  The server *)
(* may fail, close the connection early, which reading in chunks does not  *)
(* notice, or serve another revision; the process may stop anywhere.       *)
(* One command runs at a time.                                             *)
(***************************************************************************)
EXTENDS Naturals, Sequences, FiniteSets

CONSTANTS
    NumFiles,   \* the selected files, in the order they are downloaded
    Budget,     \* max_bytes, in chunks
    MaxRuns     \* bounds the commands

ASSUME DatasetAssumption == NumFiles \in Nat \ {0} /\ Budget \in Nat \ {0} /\ MaxRuns \in Nat

VARIABLES
    onDisk,     \* [Files -> what is at the final name, or "missing"]
    manifest,   \* [locked files -> what the checksum is of]
    settled,    \* a locked download of this manifest was completed
    fetch,      \* the command in progress
    snapshots,  \* output of stream_sidecars: what it was made from, or <<>>
    runs

datasetVars == <<onDisk, manifest, settled, fetch, snapshots, runs>>

Files    == 1..NumFiles
Contents == {"full", "cut", "changed", "grown"}
Chunks(content) == IF content = "cut" THEN 1 ELSE IF content = "grown" THEN 3 ELSE 2
Commands == {"sidecars", "locked", "stream"}
NoFetch  == [command |-> "none", at |-> 0, spent |-> 0, response |-> "missing", got |-> 0, made |-> <<>>]

Present == {f \in Files : onDisk[f] # "missing"}

\* A manifest may come with the code.
DatasetInit ==
    /\ onDisk = [f \in Files |-> "missing"]
    /\ manifest \in {[f \in locked |-> "full"] : locked \in SUBSET Files} /\ settled = FALSE
    /\ fetch = NoFetch /\ snapshots = <<>> /\ runs = 0

-----------------------------------------------------------------------------
(* Commands.                                                                *)

\* main: one of the commands that download.  A manifest lists a file at least.
StartCommand(command) ==
    /\ fetch.command = "none" /\ runs < MaxRuns /\ runs' = runs + 1
    /\ command = "locked" => DOMAIN manifest # {}
    /\ fetch' = [NoFetch EXCEPT !.command = command, !.at = 1]
    /\ UNCHANGED <<onDisk, manifest, settled, snapshots>>

\* create_manifest: the checksums of whatever is there, .part files left out.
Lock ==
    /\ fetch.command = "none" /\ Present # {}
    /\ manifest' = [f \in Present |-> onDisk[f]]
    /\ settled' = FALSE
    /\ UNCHANGED <<onDisk, fetch, snapshots, runs>>

\* verify_manifest, of the files the manifest lists.
Intact == \A f \in DOMAIN manifest : onDisk[f] = manifest[f]

\* A directory that has lost files, as it is before it is restored elsewhere.
LoseFiles(lost) ==
    /\ fetch.command = "none" /\ lost # {} /\ lost \subseteq Present
    /\ onDisk' = [f \in Files |-> IF f \in lost THEN "missing" ELSE onDisk[f]]
    /\ settled' = FALSE
    /\ UNCHANGED <<manifest, fetch, snapshots, runs>>

-----------------------------------------------------------------------------
(* One file after the other.                                                *)

At == fetch.at
Waiting(commands) == fetch.command \in commands /\ At \in Files /\ fetch.response = "missing"

\* Mutant: a file of the right size is taken for the locked one.
VerifiedBySize(f) == onDisk[f] # "missing" /\ Chunks(onDisk[f]) = Chunks(manifest[f])

\* download_manifest: the size and the checksum are the manifest's.
Verified(f) == onDisk[f] # "missing" /\ onDisk[f] = manifest[f]

\* What a command does not ask the server for.
Skips(f) ==
    CASE fetch.command = "sidecars" -> onDisk[f] # "missing"
      [] fetch.command = "locked"   -> f \in DOMAIN manifest => Verified(f)
      [] fetch.command = "stream"   -> FALSE

SkipFile ==
    /\ Waiting(Commands) /\ Skips(At)
    /\ fetch' = [fetch EXCEPT !.at = @ + 1]
    /\ UNCHANGED <<onDisk, manifest, settled, snapshots, runs>>

\* Content-Length: a connection that closes early announced the whole file.
Announced(content) == IF content = "cut" THEN Chunks("full") ELSE Chunks(content)

\* download_file and iter_remote_file_chunks: the announced length, if there is
\* one, has to fit.
OpenResponse(content, announced) ==
    /\ Waiting(Commands) /\ ~Skips(At)
    /\ announced => fetch.spent + Announced(content) <= Budget
    /\ fetch' = [fetch EXCEPT !.response = content]
    /\ UNCHANGED <<onDisk, manifest, settled, snapshots, runs>>

Copying == fetch.response # "missing"

\* _copy_response, one chunk: the budget is looked at before it is written.
CopyChunk ==
    /\ Copying /\ fetch.got < Chunks(fetch.response)
    /\ fetch.spent + fetch.got + 1 <= Budget
    /\ fetch' = [fetch EXCEPT !.got = @ + 1]
    /\ UNCHANGED <<onDisk, manifest, settled, snapshots, runs>>

\* Every exception ends the command and removes its .part file: the server
\* cannot be reached, or the file does not fit, announced or not.
Fail ==
    /\ \/ Waiting(Commands) /\ ~Skips(At)
       \/ Copying /\ fetch.got < Chunks(fetch.response) /\ fetch.spent + fetch.got + 1 > Budget
    /\ fetch' = NoFetch
    /\ UNCHANGED <<onDisk, manifest, settled, snapshots, runs>>

\* os.replace, and the checks that follow it.  The file stays where it is when
\* its checksum is not the locked one.
FinishFile ==
    /\ Copying /\ fetch.got = Chunks(fetch.response) /\ fetch.command # "stream"
    /\ onDisk' = [onDisk EXCEPT ![At] = fetch.response]
    /\ fetch' = IF fetch.command = "locked" /\ fetch.response # manifest[At] THEN NoFetch
                ELSE [fetch EXCEPT !.at = @ + 1, !.spent = @ + fetch.got,
                                   !.response = "missing", !.got = 0]
    /\ UNCHANGED <<manifest, settled, snapshots, runs>>

\* stream_sidecars_to_snapshots: half a document is no JSON and ends the
\* command; the rows of a whole one are added to the .part file of the output.
StreamFile ==
    /\ Copying /\ fetch.got = Chunks(fetch.response) /\ fetch.command = "stream"
    /\ fetch' = IF fetch.response = "cut" THEN NoFetch
                ELSE [fetch EXCEPT !.at = @ + 1, !.spent = @ + fetch.got, !.response = "missing",
                                   !.got = 0, !.made = Append(@, fetch.response)]
    /\ UNCHANGED <<onDisk, manifest, settled, snapshots, runs>>

\* The last file: a download is complete, the output of a stream gets its name.
Complete ==
    /\ fetch.command # "none" /\ At = NumFiles + 1
    /\ settled' = (settled \/ fetch.command = "locked")
    /\ snapshots' = IF fetch.command = "stream" THEN fetch.made ELSE snapshots
    /\ fetch' = NoFetch
    /\ UNCHANGED <<onDisk, manifest, runs>>

\* The process is killed.  A .part file it leaves behind is nobody's input.
Stop ==
    /\ fetch.command # "none"
    /\ fetch' = NoFetch
    /\ UNCHANGED <<onDisk, manifest, settled, snapshots, runs>>

DatasetNext ==
    \/ \E command \in Commands : StartCommand(command)
    \/ Lock \/ (\E lost \in SUBSET Files : LoseFiles(lost))
    \/ SkipFile \/ (\E content \in Contents, announced \in BOOLEAN : OpenResponse(content, announced))
    \/ CopyChunk \/ Fail \/ FinishFile \/ StreamFile \/ Complete \/ Stop

DatasetSpec == DatasetInit /\ [][DatasetNext]_datasetVars

-----------------------------------------------------------------------------
(* Properties.                                                              *)

DatasetTypeOK ==
    /\ onDisk \in [Files -> Contents \cup {"missing"}]
    /\ DOMAIN manifest \subseteq Files /\ \A f \in DOMAIN manifest : manifest[f] \in Contents
    /\ settled \in BOOLEAN /\ runs \in 0..MaxRuns
    /\ fetch.command \in Commands \cup {"none"} /\ fetch.at \in 0..(NumFiles + 1)
    /\ fetch.spent \in Nat /\ fetch.response \in Contents \cup {"missing"} /\ fetch.got \in Nat

\* Data that was completely restored from a manifest stays what was locked,
\* whatever failed downloads left there before and whatever later ones find or
\* fetch; the output of a stream has every selected document, each a whole
\* one; and no command takes more than its budget.
DatasetIsWhole ==
    /\ settled => Intact
    /\ snapshots # <<>> => Len(snapshots) = NumFiles /\ \A k \in Files : snapshots[k] # "cut"
    /\ fetch.spent + fetch.got <= Budget
==============================================================================
