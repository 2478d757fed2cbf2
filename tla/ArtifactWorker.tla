--------------------------- MODULE ArtifactWorker ---------------------------
(***************************************************************************)
(* artifact/worker.rs and artifact/output.rs: an artifact command claims its *)
(* destination, runs its analysis in a worker process under a deadline, and  *)
(* writes the worker's report to the destination.  The worker takes the      *)
(* database lease, parses what may hang or crash it, and commits its rows    *)
(* before anyone sees a report.                                              *)
(*                                                                           *)
(* Several commands run at once on one database and one destination.  A file *)
(* is an inode: the one that was there before anyone came, or the one a       *)
(* claim created.                                                            *)
(***************************************************************************)
EXTENDS FiniteSets

CONSTANTS
    Commands,   \* artifact commands running at once
    None,       \* no file, nobody
    Old,        \* the file that was there before
    MayForce    \* bound: commands may be given --force

ASSUME WorkerAssumption ==
    None \notin Commands /\ Old \notin Commands /\ None # Old /\ MayForce \in BOOLEAN

VARIABLES
    path,       \* the destination: the inode it names, or None
    content,    \* content[i]: what inode i holds
    parent,     \* parent[c]: where the command is
    force,      \* force[c]: --force was given
    claim,      \* claim[c]: the inode its reservation holds open, or None
    worker,     \* worker[c]: where its worker process is
    lease,      \* who holds the database lease
    recorded    \* commands whose analysis is in the database

artifactVars == <<path, content, parent, force, claim, worker, lease, recorded>>
fileVars == <<path, content>>
workerVars == <<worker, lease, recorded>>

Inodes == Commands \cup {Old}
Running == {"starting", "parsing", "recorded", "reported"}
Exited == {"succeeded", "failed", "killed"}
Ended == {"success", "error", "refused", "gone"}

ArtifactTypeOK ==
    /\ path \in Inodes \cup {None}
    /\ content \in [Inodes -> {"nothing", "before", "part", "report"}]
    /\ parent \in [Commands -> {"idle", "claimed", "watching", "killing", "draining", "reading",
                                "truncating", "writing", "dropping"} \cup Ended]
    /\ force \in [Commands -> BOOLEAN]
    /\ claim \in [Commands -> Inodes \cup {None}]
    /\ worker \in [Commands -> {"none", "reaped"} \cup Running \cup Exited]
    /\ lease \in Commands \cup {None} /\ recorded \in SUBSET Commands
    /\ \A c \in Commands : claim[c] = None <=> parent[c] \in {"idle", "refused"}

Goes(c, step) == parent' = [parent EXCEPT ![c] = step]

(***************************************************************************)
(* The command.                                                            *)
(***************************************************************************)

\* OutputReservation::claim: create_new, or open what --force may replace.
Claim(c) ==
    /\ parent[c] = "idle"
    /\ force' \in {[force EXCEPT ![c] = f] : f \in {FALSE, MayForce}}
    /\ IF path # None /\ ~force'[c]
       THEN Goes(c, "refused") /\ UNCHANGED <<fileVars, claim>>
       ELSE /\ IF path = None
               THEN path' = c /\ content' = [content EXCEPT ![c] = "nothing"]
               ELSE UNCHANGED fileVars
            /\ claim' = [claim EXCEPT ![c] = path'] /\ Goes(c, "claimed")
    /\ UNCHANGED workerVars

\* The worker is started, or cannot be.
Spawn(c) ==
    /\ parent[c] = "claimed"
    /\ \/ Goes(c, "watching") /\ worker' = [worker EXCEPT ![c] = "starting"]
       \/ Goes(c, "dropping") /\ UNCHANGED worker
    /\ UNCHANGED <<fileVars, force, claim, lease, recorded>>

\* watch_worker: the worker is found to have exited.
SeesExit(c) ==
    /\ parent[c] = "watching" /\ worker[c] \in Exited
    /\ Goes(c, IF worker[c] = "succeeded" THEN "reading" ELSE "dropping")
    /\ worker' = [worker EXCEPT ![c] = "reaped"]
    /\ UNCHANGED <<fileVars, force, claim, lease, recorded>>

\* Mutant: the deadline is reported and the worker left to itself.
DeadlineLeavingWorker(c) ==
    /\ parent[c] = "watching" /\ worker[c] \in Running
    /\ Goes(c, "dropping")
    /\ UNCHANGED <<fileVars, force, claim, workerVars>>

\* The worker had not exited, and the deadline has passed or the wait failed.
Deadline(c) ==
    /\ parent[c] = "watching" /\ worker[c] \in Running
    /\ Goes(c, "killing")
    /\ UNCHANGED <<fileVars, force, claim, workerVars>>

Dies(c, how) ==
    /\ worker' = [worker EXCEPT ![c] = how]
    /\ lease' = IF lease = c THEN None ELSE lease

\* terminate_worker: the signal, and then the wait.
Kill(c) ==
    /\ parent[c] = "killing" /\ Goes(c, "draining")
    /\ IF worker[c] \in Running THEN Dies(c, "killed") ELSE UNCHANGED <<worker, lease>>
    /\ UNCHANGED <<fileVars, force, claim, recorded>>

Reap(c) ==
    /\ parent[c] = "draining" /\ worker[c] \in Exited /\ Goes(c, "dropping")
    /\ worker' = [worker EXCEPT ![c] = "reaped"]
    /\ UNCHANGED <<fileVars, force, claim, lease, recorded>>

\* The worker's report is read, or cannot be.
ReadReport(c) ==
    /\ parent[c] = "reading"
    /\ Goes(c, "truncating") \/ Goes(c, "dropping")
    /\ UNCHANGED <<fileVars, force, claim, workerVars>>

\* OutputReservation::replace_contents.
Truncate(c) ==
    /\ parent[c] = "truncating" /\ Goes(c, "writing")
    /\ content' = [content EXCEPT ![claim[c]] = "nothing"]
    /\ UNCHANGED <<path, force, claim, workerVars>>

Write(c) ==
    /\ parent[c] = "writing"
    /\ \/ Goes(c, "success") /\ content' = [content EXCEPT ![claim[c]] = "report"]
       \/ Goes(c, "dropping") /\ content' = [content EXCEPT ![claim[c]] = "part"]
    /\ UNCHANGED <<path, force, claim, workerVars>>

\* Drop for OutputReservation: by name, and only what the claim created.
Drop(c) ==
    /\ parent[c] = "dropping" /\ Goes(c, "error")
    /\ path' = IF claim[c] = c THEN None ELSE path
    /\ UNCHANGED <<content, force, claim, workerVars>>

\* The command itself is killed; its worker is not.
Disappear(c) ==
    /\ parent[c] \notin {"idle"} \cup Ended /\ Goes(c, "gone")
    /\ UNCHANGED <<fileVars, force, claim, workerVars>>

Command(c) ==
    \/ Spawn(c) \/ SeesExit(c) \/ Deadline(c) \/ Kill(c) \/ Reap(c)
    \/ ReadReport(c) \/ Truncate(c) \/ Write(c) \/ Drop(c)

(***************************************************************************)
(* The worker (run_direct, compare_direct).                                *)
(***************************************************************************)

WorkerGoes(c, step) == worker' = [worker EXCEPT ![c] = step]

\* The lease is taken before anything is parsed; a lease that is held refuses.
StartWorker(c) ==
    /\ worker[c] = "starting"
    /\ IF lease = None THEN lease' = c /\ WorkerGoes(c, "parsing")
       ELSE lease' = lease /\ WorkerGoes(c, "failed")
    /\ UNCHANGED <<fileVars, parent, force, claim, recorded>>

\* The analysis is committed, or is too large to be saved and only reported.
RecordAnalysis(c) ==
    /\ worker[c] = "parsing" /\ WorkerGoes(c, "recorded")
    /\ recorded' \in {recorded, recorded \cup {c}}
    /\ UNCHANGED <<fileVars, parent, force, claim, lease>>

\* The private report is rendered and written.
Render(c) ==
    /\ worker[c] = "recorded" /\ WorkerGoes(c, "reported")
    /\ UNCHANGED <<fileVars, parent, force, claim, lease, recorded>>

Finish(c) ==
    /\ worker[c] = "reported" /\ Dies(c, "succeeded")
    /\ UNCHANGED <<fileVars, parent, force, claim, recorded>>

\* An error, or the parser's crash.
WorkerFails(c) ==
    /\ worker[c] \in Running /\ Dies(c, "failed")
    /\ UNCHANGED <<fileVars, parent, force, claim, recorded>>

Worker(c) == StartWorker(c) \/ RecordAnalysis(c) \/ Render(c) \/ Finish(c) \/ WorkerFails(c)

ArtifactInit ==
    /\ path \in {None, Old}
    /\ content = [i \in Inodes |-> IF i = Old THEN "before" ELSE "nothing"]
    /\ parent = [c \in Commands |-> "idle"] /\ force = [c \in Commands |-> FALSE]
    /\ claim = [c \in Commands |-> None] /\ worker = [c \in Commands |-> "none"]
    /\ lease = None /\ recorded = {}

ArtifactNext == \E c \in Commands : Claim(c) \/ Command(c) \/ Disappear(c) \/ Worker(c)

ArtifactSpec == ArtifactInit /\ [][ArtifactNext]_artifactVars
\* A command runs and polls; nothing makes a worker run.
ArtifactFairSpec == ArtifactSpec /\ \A c \in Commands : WF_artifactVars(Command(c))

(***************************************************************************)
(* Properties.                                                             *)
(***************************************************************************)

\* A command that has returned left no worker behind, so it holds up no other
\* command through the database lease (wait_for_worker).
WorkersEndWithCommands ==
    \A c \in Commands : parent[c] \in {"success", "error", "refused"} =>
        worker[c] \in {"none", "reaped"} /\ lease # c

\* Whether a command may write its report is decided before it records
\* anything: one refused for an existing file has recorded nothing (claim).
RefusedBeforeRecording ==
    \A c \in Commands : parent[c] = "refused" => c \notin recorded /\ worker[c] = "none"

\* Without --force, a file that holds something is never changed or replaced.
NothingIsOverwritten ==
    [][\A i \in Inodes :
        content[i] \in {"before", "report"} /\ (\A c \in Commands : ~force[c] /\ ~force'[c]) =>
            content'[i] = content[i] /\ (path = i => path' = i)]_artifactVars

\* One analysis at a time: a worker that parses or commits holds the lease.
AnalysesAreLeased ==
    \A c \in Commands : worker[c] \in {"parsing", "recorded", "reported"} => lease = c

\* When every command has returned and none was killed, a destination that was
\* free names a report somebody was told of, or is free for the retry.
DestinationIsSettled ==
    (\A c \in Commands : parent[c] \in {"success", "error", "refused"} /\ ~force[c])
        /\ path \in Commands => content[path] = "report" /\ parent[path] = "success"

\* Commands that share a database and a destination, killed, timed out and
\* failing at any step, hold no lease and no worker past their return, settle
\* their destination before they record, and spare what was there
\* (artifact/worker.rs, artifact/output.rs).
CommandsAreSound ==
    /\ [](/\ ArtifactTypeOK
          /\ WorkersEndWithCommands
          /\ RefusedBeforeRecording
          /\ AnalysesAreLeased
          /\ DestinationIsSettled)
    /\ NothingIsOverwritten
=============================================================================
