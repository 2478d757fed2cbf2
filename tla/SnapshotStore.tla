--------------------------- MODULE SnapshotStore ---------------------------
(***************************************************************************)
(* The audit database of codehelion as its writers see it: the scan_run,   *)
(* suppression and fingerprint tables, the process-local LIVE_RUNS map and  *)
(* the opaque tokens (StagedSnapshotPart) a writer holds.  One operator per *)
(* transaction of codehelion-store/src/snapshot/write.rs and lifecycle.rs;  *)
(* a transaction is one step, because SQLite makes it one.                  *)
(*                                                                         *)
(* Here the caller is arbitrary: it may issue any call with any token, in   *)
(* any order, and may die between two calls.  ScanInvocation restricts the  *)
(* caller to what the scan driver does.                                     *)
(***************************************************************************)
EXTENDS Integers, FiniteSets

CONSTANTS
    Variants,   \* build variants; the root and the analysis mode are fixed
    Trees,      \* what decides a run's rows: files, detectors, baseline digest
    Rules,      \* suppression rules, by (scope, pattern)
    Spellings,  \* the rules of scope "baseline": one file under several paths
    Policies,   \* the rule sets a partition may be recorded with
    MaxRun,     \* bound on scan_run row ids
    MaxTime,    \* bound on the clock
    MaxScan,    \* bound on the time from a scan's start to a call, likewise
    Grace       \* ABANDONED_RUN_GRACE_SECONDS, in clock units

ASSUME SnapshotAssumption ==
    /\ MaxRun \in Nat /\ MaxTime \in Nat /\ MaxScan \in Nat /\ Grace \in Nat
    /\ Spellings \subseteq Rules
    /\ Policies \subseteq SUBSET Rules

VARIABLES
    run,          \* scan_run with the rows a run owns, by row id
    lastId,       \* sqlite_sequence of scan_run: AUTOINCREMENT never reuses
    suppression,  \* the suppression table: absent, inactive or active
    fingerprint,  \* the content identities present in the fingerprint table
    live,         \* LIVE_RUNS of the writing process
    token,        \* the StagedSnapshotPart values the writing process holds
    now           \* the wall clock

storeVars == <<run, lastId, suppression, fingerprint, live, token, now>>

RunId == 1 .. MaxRun
Time == 0 .. MaxTime

\* Option::None of a run id.
None == 0

(***************************************************************************)
(* Rows and tokens.                                                        *)
(***************************************************************************)

\* What write_snapshot is given: the rules the partition was recorded with,
\* and those of them that a recorded finding references.
Snapshot == [variant : Variants, tree : Trees, rules : SUBSET Rules,
             hides : SUBSET Rules, started : Time, finished : Time]

Row == [status : {"running", "completed"}, snap : Snapshot]
NoRow == [status |-> "none"]

Token == [rules : SUBSET Rules, created : SUBSET Rules,
          predecessor : RunId \cup {None}, started : Time, finished : Time,
          reused : RunId \cup {None}]
NoToken == [rules |-> {}, held |-> FALSE]

Recorded(rn) == {r \in RunId : rn[r].status # "none"}
Running == {r \in RunId : run[r].status = "running"}
Completed == {r \in RunId : run[r].status = "completed"}
Held == {r \in RunId : token[r] # NoToken}

StoreTypeOK ==
    /\ run \in [RunId -> Row \cup {NoRow}]
    /\ lastId \in 0 .. MaxRun
    /\ suppression \in [Rules -> {"absent", "inactive", "active"}]
    /\ fingerprint \subseteq Trees
    /\ live \subseteq RunId
    /\ token \in [RunId -> Token \cup {NoToken}]
    /\ now \in Time

StoreInit ==
    /\ run = [r \in RunId |-> NoRow]
    /\ lastId = 0
    /\ suppression = [s \in Rules |-> "absent"]
    /\ fingerprint = {}
    /\ live = {}
    /\ token = [r \in RunId |-> NoToken]
    /\ now = 0

(***************************************************************************)
(* Helpers shared by the transactions.                                     *)
(***************************************************************************)

WithoutRuns(gone) == [r \in RunId |-> IF r \in gone THEN NoRow ELSE run[r]]

\* Mutant: the last id is forgotten with its row, as INTEGER PRIMARY KEY does.
NewRunRecycled == 1 + Cardinality(Recorded(run))
NewRun == lastId + 1

\* Deleting a run cascades to its units and fragments; the shared content
\* identities they referenced must be removed by hand.
Contents(rn) == {rn[r].snap.tree : r \in Recorded(rn)}
\* Mutant: the cleanup trusts the foreign keys to remove the identities.
FingerprintsLeftBehind(gone, rn) == fingerprint
RemoveOrphanedFingerprints(gone, rn) ==
    IF gone = {} THEN fingerprint ELSE fingerprint \cap Contents(rn)

\* Rules already known keep their row; with activate, exactly `rules` is active.
WriteSuppressions(rules, activate) ==
    [s \in Rules |->
        IF s \in rules
        THEN IF activate THEN "active"
             ELSE IF suppression[s] = "absent" THEN "inactive" ELSE suppression[s]
        ELSE IF activate /\ suppression[s] = "active" THEN "inactive"
             ELSE suppression[s]]

\* Mutant: a rule is removed without asking what references it.
CleanupUnchecked(parts, rn) ==
    [s \in Rules |->
        IF (\E r \in parts : s \in token[r].created) /\ suppression[s] = "inactive"
        THEN "absent" ELSE suppression[s]]
\* The rows staging created, once nothing makes them part of the policy and
\* no finding of the remaining runs rn references them.
CleanupStagedSuppressions(parts, rn) ==
    [s \in Rules |->
        IF /\ \E r \in parts : s \in token[r].created
           /\ suppression[s] = "inactive"
           /\ \A r \in Recorded(rn) : s \notin rn[r].snap.hides
        THEN "absent"
        ELSE suppression[s]]

\* Mutant: the reused run keeps its own times.
NotRefreshed(row, t) == row
\* A reused run takes the times of the partition it stands in for.
Refreshed(row, t) ==
    [row EXCEPT !.snap = [@ EXCEPT !.started = t.started, !.finished = t.finished]]

\* ensure_completed_run and ensure_comparable_runs_tx, for a run of `variant`.
PredecessorOk(pred, variant) ==
    \/ pred = None
    \/ pred \in Completed /\ run[pred].snap.variant = variant

(***************************************************************************)
(* Opening the database for writing, and the clock.                        *)
(***************************************************************************)

Tick ==
    /\ now < MaxTime
    /\ now' = now + 1
    /\ UNCHANGED <<run, lastId, suppression, fingerprint, live, token>>

\* Mutant: age alone decides.
ExpiredByAge == {r \in Running : run[r].snap.finished + Grace <= now}
\* Age alone does not decide: a partition a live invocation owns is kept.
Expired == {r \in Running : run[r].snap.finished + Grace <= now /\ r \notin live}

\* Store::open, whose last step reaps what an earlier process abandoned.
OpenStore ==
    /\ run' = WithoutRuns(Expired)
    /\ fingerprint' = RemoveOrphanedFingerprints(Expired, run')
    /\ UNCHANGED <<lastId, suppression, live, token, now>>

(***************************************************************************)
(* The transactions of snapshot/write.rs.                                  *)
(***************************************************************************)

\* INSERT INTO runs gives the row the next id.
TakesId == lastId < MaxRun /\ lastId' = lastId + 1

\* write_snapshot: the row, the rules and the content identities of one run.
WriteSnapshot(snap, status, activate) ==
    /\ TakesId
    /\ run' = [run EXCEPT ![NewRun] = [status |-> status, snap |-> snap]]
    /\ suppression' = WriteSuppressions(snap.rules, activate)
    /\ fingerprint' = fingerprint \cup {snap.tree}

RecordSnapshotWithPredecessor(snap, pred) ==
    /\ PredecessorOk(pred, snap.variant)
    /\ WriteSnapshot(snap, "completed", TRUE)
    /\ UNCHANGED <<live, token, now>>

\* Staging leaves the active policy alone and hands the caller a token.
RecordSnapshotPartStaged(snap, pred) ==
    /\ WriteSnapshot(snap, "running", FALSE)
    /\ live' = live \cup {NewRun}
    /\ token' = [token EXCEPT ![NewRun] =
           [rules |-> snap.rules,
            created |-> {s \in snap.rules : suppression[s] = "absent"},
            predecessor |-> pred, started |-> snap.started,
            finished |-> snap.finished, reused |-> None]]
    /\ UNCHANGED now

ConfirmReusedRun(r, rules, started, finished) ==
    /\ r \in Completed
    /\ run' = [run EXCEPT ![r] = Refreshed(@, [started |-> started, finished |-> finished])]
    /\ suppression' = WriteSuppressions(rules, TRUE)
    /\ UNCHANGED <<lastId, fingerprint, live, token, now>>

\* Mutant: the status of the row is not asked.
DiscardAnyRun(r, reuse) ==
    /\ r \in Recorded(run)
    /\ run' = WithoutRuns({r})
    /\ fingerprint' = RemoveOrphanedFingerprints({r}, run')
    /\ live' = live \ {r}
    /\ token' = [token EXCEPT ![r] =
           IF @ = NoToken \/ reuse = None THEN @ ELSE [@ EXCEPT !.reused = reuse]]
    /\ UNCHANGED <<lastId, suppression, now>>
\* discard_run; with a run to reuse, the caller marks its token (reusing).
DiscardRun(r, reuse) ==
    /\ r \in Running
    /\ run' = WithoutRuns({r})
    /\ fingerprint' = RemoveOrphanedFingerprints({r}, run')
    /\ live' = live \ {r}
    /\ token' = [token EXCEPT ![r] =
           IF @ = NoToken \/ reuse = None THEN @ ELSE [@ EXCEPT !.reused = reuse]]
    /\ UNCHANGED <<lastId, suppression, now>>

\* Mutant: the staged rows are not looked up before they are promoted.
CanFinalizeUnasked(parts, retired) ==
    /\ parts \cup retired # {}
    /\ parts \cap retired = {}
    /\ \A r \in parts : token[r].predecessor = None
    /\ \A r \in retired : token[r].reused \in Completed \cup {None}
\* validate_snapshot_parts, validate_suppression_union and refresh_reused_run.
\* Disagreeing reasons, comparisons and lineage evidence are abstracted: they
\* can only refuse, and FinalizeFail may be taken at any time.
CanFinalize(parts, retired) ==
    /\ parts \cup retired # {}
    /\ parts \cap retired = {}
    /\ parts \subseteq Running
    /\ retired \cap Recorded(run) = {}
    /\ \A r \in parts : /\ token[r].predecessor \notin parts \cup retired
                        /\ PredecessorOk(token[r].predecessor, run[r].snap.variant)
    /\ \A r \in parts \cup retired : \A s \in token[r].rules : suppression[s] # "absent"
    /\ \A r \in retired : token[r].reused \in Completed \cup {None}

FinalizeSnapshotParts(parts, retired) ==
    LET reused == {token[r].reused : r \in retired} \ {None}
    IN  /\ CanFinalize(parts, retired)
        \* Of two tokens reusing one run, the later in the caller's list wins.
        /\ \E by \in [reused -> retired] :
            /\ \A q \in reused : token[by[q]].reused = q
            /\ run' = [r \in RunId |->
                  IF r \in parts THEN [run[r] EXCEPT !.status = "completed"]
                  ELSE IF r \in reused THEN Refreshed(run[r], token[by[r]])
                  ELSE run[r]]
        /\ suppression' =
              WriteSuppressions(UNION {token[r].rules : r \in parts \cup retired}, TRUE)
        /\ live' = live \ (parts \cup retired)
        /\ UNCHANGED <<lastId, fingerprint, token, now>>

\* cleanup_snapshot_parts_tx, over the rows of parts that are still running.
CleanupSnapshotParts(parts, retired) ==
    LET gone == parts \cap Running
    IN  /\ run' = WithoutRuns(gone)
        /\ suppression' = CleanupStagedSuppressions(parts \cup retired, run')
        /\ fingerprint' = RemoveOrphanedFingerprints(gone, run')

\* A failed finalization forgets the partitions whatever becomes of the rows:
\* they are removed, or the cleanup fails too and the next reaper meets them.
FinalizeFail(parts, retired) ==
    /\ CleanupSnapshotParts(parts, retired)
    /\ live' = live \ (parts \cup retired)
    /\ UNCHANGED <<lastId, token, now>>

FinalizeFailUnclean(parts, retired) ==
    /\ live' = live \ (parts \cup retired)
    /\ UNCHANGED <<run, lastId, suppression, fingerprint, token, now>>

AbortSnapshotParts(parts) ==
    /\ parts \cap Completed = {}
    /\ CleanupSnapshotParts(parts, {})
    /\ live' = live \ parts
    /\ UNCHANGED <<lastId, token, now>>

(***************************************************************************)
(* Retention, and the end of the writing process.                          *)
(***************************************************************************)

\* Store::prune as it touches runs; cache prune holds the exclusive lease, so
\* no scan is alive.
Prune ==
    /\ live = {}
    /\ run' = WithoutRuns(Running)
    /\ fingerprint' = RemoveOrphanedFingerprints(Running, run')
    /\ UNCHANGED <<lastId, suppression, live, token, now>>

\* Exit or crash: LIVE_RUNS and every token were process memory.
ProcessExit ==
    /\ live' = {}
    /\ token' = [r \in RunId |-> NoToken]
    /\ UNCHANGED <<run, lastId, suppression, fingerprint, now>>

-----------------------------------------------------------------------------

\* The start times a call made now can carry.
Started == {t \in 0 .. now : now <= t + MaxScan}

\* The snapshots a caller can hand over at this moment.
Offered ==
    [variant : Variants, tree : Trees, rules : Policies, hides : SUBSET Rules,
     started : Started, finished : {now}]

StoreNext ==
    \/ Tick
    \/ OpenStore
    \/ TakesId /\ \E snap \in Offered, pred \in RunId \cup {None} :
        /\ snap.hides \subseteq snap.rules
        /\ \/ RecordSnapshotWithPredecessor(snap, pred)
           \/ RecordSnapshotPartStaged(snap, pred)
    \/ \E r \in RunId, R \in Policies, st \in Started : ConfirmReusedRun(r, R, st, now)
    \/ \E r \in RunId, q \in RunId \cup {None} : DiscardRun(r, q)
    \/ \E parts, retired \in SUBSET Held :
        \/ FinalizeSnapshotParts(parts, retired)
        \/ FinalizeFail(parts, retired)
        \/ FinalizeFailUnclean(parts, retired)
    \/ \E parts \in SUBSET Held : AbortSnapshotParts(parts)
    \/ Prune
    \/ ProcessExit

StoreSpec == StoreInit /\ [][StoreNext]_storeVars

(***************************************************************************)
(* What must hold whatever a caller does.                                  *)
(***************************************************************************)

\* The fingerprint table holds exactly the content identities some recorded
\* run references: a row deleted anywhere leaves no orphan behind
\* (remove_orphaned_fingerprints), and never takes a shared identity along.
NoOrphanFingerprint == fingerprint = Contents(run)

\* A rule some recorded finding references is in the suppression table, so
\* cleaning up after one staged scan never leaves another run's finding
\* pointing at nothing (cleanup_staged_suppressions).
NoDanglingRule ==
    \A r \in Recorded(run) : \A s \in run[r].snap.hides : suppression[s] # "absent"

\* A token outlives its row (retired partitions keep theirs), so the row id it
\* carries must never come to name a run recorded later: finalizing or
\* aborting it would then reach somebody else's run.
TokenNamesItsOwnRun ==
    \A r \in Held \cap Recorded(run) : run[r].snap.rules = token[r].rules

\* Row ids above the last one given out name nothing, and no token carries one.
FreshIds == \A r \in RunId : r > lastId => run[r] = NoRow /\ token[r] = NoToken

\* The inductive invariant: without FreshIds a new run could take the place of
\* a recorded one, and with it the last reference to a content identity.
StoreInv ==
    /\ StoreTypeOK
    /\ FreshIds
    /\ NoOrphanFingerprint
    /\ NoDanglingRule
    /\ TokenNamesItsOwnRun

\* What a run recorded, its times apart.
Substance(row) == <<row.snap.variant, row.snap.tree, row.snap.rules, row.snap.hides>>

\* Completed runs are history: no call, failed or not, removes one, reopens it
\* or changes what it recorded; reuse changes its times only.
CompletedIsHistory ==
    [][\A r \in Completed :
          run'[r].status = "completed" /\ Substance(run'[r]) = Substance(run[r])]_storeVars

\* A staged partition of a live invocation disappears only in a call that
\* releases it: the reaper of a later open and a prune leave it alone, however
\* old it is.
LiveRunVanishesOnlyWhenReleased ==
    [][\A r \in live \cap Running :
          run'[r].status = "none" => r \notin live']_storeVars

=============================================================================
