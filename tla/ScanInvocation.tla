--------------------------- MODULE ScanInvocation ---------------------------
(***************************************************************************)
(* The scan driver of codehelion-cli (scan.rs, scan/structural.rs and the   *)
(* two store.rs files) over the store of SnapshotStore: several scan         *)
(* processes of one root, the exclusive database lease, the partition loop,  *)
(* reuse of an unchanged partition, finalization, cleanup, and a crash       *)
(* between any two of its calls.  The driver opens the store again for every *)
(* call, and each opening runs the reaper: opening is a step of its own.     *)
(***************************************************************************)
EXTENDS SnapshotStore

CONSTANTS
    Procs,      \* scan processes
    Matches,    \* <<tree, rule>>: the rule hides a finding of that tree
    WholeTree,  \* the variants of trees no compilation database splits
    Plans       \* the scans considered: variants to a [tree, rules] record

Nobody == "nobody"
NoPlan == <<>>

ASSUME ScanAssumption ==
    /\ Nobody \notin Procs
    /\ MaxTime <= MaxScan   \* a scan takes as long as it takes
    /\ Matches \subseteq Trees \X Rules
    /\ \A pl \in Plans :
        /\ pl # NoPlan
        /\ DOMAIN pl \subseteq Variants
        /\ DOMAIN pl \cap WholeTree # {} => \E v \in WholeTree : DOMAIN pl = {v}
        /\ \A v \in DOMAIN pl : pl[v].tree \in Trees /\ pl[v].rules \in Policies
    \* Spellings of one baseline hide the same findings.
    /\ \A t \in Trees, a, b \in Spellings : <<t, a>> \in Matches <=> <<t, b>> \in Matches

VARIABLES
    stamp,      \* started_at of each process, 0 outside a scan
    lease,      \* who holds the database lease
    step,       \* where the holder is in run_with
    scan,       \* the holder's scan: its plan, and how it was asked for
    todo,       \* programs the loop has not reached
    parts,      \* staged_parts, by row id
    retired,    \* retired_parts, by row id
    pending,    \* the staged partition about to be reused, and by what
    failed,     \* recording_error is set
    before,     \* ghost: rules and run rows when the holder took the lease
    cohort      \* ghost: the runs published together with each run

driverVars == <<stamp, lease, step, scan, todo, parts, retired, pending, failed>>
ghostVars == <<before, cohort>>
vars == <<storeVars, driverVars, ghostVars>>

Step == {"idle", "record", "write", "discard_open", "discard", "finalize_open",
         "finalize", "cleanup_open", "cleanup", "tidy_open", "tidy", "done", "unclean"}

NoScan == [plan |-> NoPlan, whole |-> FALSE, reuse |-> FALSE]
NoPending == [part |-> None, by |-> None]

Tables == [rules |-> suppression, runs |-> Recorded(run)]

TypeOK ==
    /\ StoreTypeOK
    /\ stamp \in [Procs -> Time]
    /\ lease \in Procs \cup {Nobody}
    /\ step \in Step
    /\ scan \in [plan : Plans \cup {NoPlan}, whole : BOOLEAN, reuse : BOOLEAN]
    /\ todo \subseteq Variants
    /\ parts \subseteq Held /\ retired \subseteq Held
    /\ pending \in [part : RunId \cup {None}, by : RunId \cup {None}]
    /\ failed \in BOOLEAN
    /\ before \in [rules : [Rules -> {"absent", "inactive", "active"}], runs : SUBSET RunId]
    /\ cohort \in [RunId -> SUBSET RunId]

Init ==
    /\ StoreInit
    /\ stamp = [p \in Procs |-> 0]
    /\ lease = Nobody
    /\ step = "idle"
    /\ scan = NoScan
    /\ todo = {} /\ parts = {} /\ retired = {}
    /\ pending = NoPending
    /\ failed = FALSE
    /\ before = Tables
    /\ cohort = [r \in RunId |-> {}]

(***************************************************************************)
(* Selecting the run a partition is recorded against.                      *)
(***************************************************************************)

\* reuse_config_hash: every rule counts, a baseline without its path.
Config(rules) == <<rules \ Spellings, rules \cap Spellings # {}>>

\* SCAN_RUN_RECENCY: the start time, then the row id.
Newer(r, q) ==
    \/ run[r].snap.started > run[q].snap.started
    \/ run[r].snap.started = run[q].snap.started /\ r > q
Newest(S) == CHOOSE r \in S : \A q \in S \ {r} : Newer(r, q)

Compatible(v, part) ==
    {r \in Completed : /\ run[r].snap.variant = v
                       /\ Config(run[r].snap.rules) = Config(part.rules)}

\* latest_compatible_run.
Predecessor(v, part) ==
    IF Compatible(v, part) = {} THEN None ELSE Newest(Compatible(v, part))

\* Mutant: the candidate's tree is not compared.
ReusableUnread(v, part) == Predecessor(v, part)
\* reusable_run: the predecessor, when it would hold exactly the same rows.
Reusable(v, part) ==
    LET pred == Predecessor(v, part)
    IN  IF pred # None /\ run[pred].snap.tree = part.tree THEN pred ELSE None

\* Mutant: findings are hidden by every rule known, not the partition's own.
SnapshotOfAnyRule(v, part) ==
    [variant |-> v, tree |-> part.tree, rules |-> part.rules,
     hides |-> {s \in Rules : <<part.tree, s>> \in Matches},
     started |-> stamp[lease], finished |-> now]
SnapshotOf(v, part) ==
    [variant |-> v, tree |-> part.tree, rules |-> part.rules,
     hides |-> {s \in part.rules : <<part.tree, s>> \in Matches},
     started |-> stamp[lease], finished |-> now]

Published(runs) == [r \in RunId |-> IF r \in runs THEN runs ELSE cohort[r]]

(***************************************************************************)
(* Starting, and the lease.                                                *)
(***************************************************************************)

\* The start time is read before the lease is asked for.  Its resolution is a
\* microsecond: two scans never read the same one.
Start(p) ==
    /\ stamp[p] = 0
    /\ Tick
    /\ stamp' = [stamp EXCEPT ![p] = now']
    /\ UNCHANGED <<lease, step, scan, todo, parts, retired, pending, failed, ghostVars>>

\* A tree no compilation database splits is recorded whole.
Acquire(p) ==
    /\ stamp[p] # 0 /\ lease = Nobody
    /\ lease' = p
    /\ step' = "record"
    /\ \E pl \in Plans, reuse \in BOOLEAN :
        /\ scan' = [plan |-> pl, whole |-> DOMAIN pl \subseteq WholeTree, reuse |-> reuse]
        /\ todo' = DOMAIN pl
    /\ before' = Tables
    /\ UNCHANGED <<storeVars, stamp, parts, retired, pending, failed, cohort>>

\* The lease is never waited for: a second scan is refused and ends.
Refused(p) ==
    /\ stamp[p] # 0 /\ lease \notin {Nobody, p}
    /\ stamp' = [stamp EXCEPT ![p] = 0]
    /\ UNCHANGED <<storeVars, lease, step, scan, todo, parts, retired, pending,
                   failed, ghostVars>>

\* The process ends, from the last step or by dying anywhere.
End(p) ==
    /\ ProcessExit
    /\ lease' = Nobody
    /\ stamp' = [stamp EXCEPT ![p] = 0]
    /\ step' = "idle" /\ scan' = NoScan
    /\ todo' = {} /\ parts' = {} /\ retired' = {}
    /\ pending' = NoPending /\ failed' = FALSE
    /\ UNCHANGED ghostVars

Finish == step \in {"done", "unclean"} /\ End(lease)
Crash == lease # Nobody /\ step \notin {"done", "unclean"} /\ End(lease)

(***************************************************************************)
(* The partition loop.                                                     *)
(***************************************************************************)

Goto(s) == step' = s
Unmoved == UNCHANGED <<stamp, lease, scan, before>>
NoCall == UNCHANGED storeVars

\* run_program fails before it records anything: the scan is over.
AnalysisFails ==
    /\ step = "record" /\ todo # {}
    /\ Goto("cleanup_open")
    /\ NoCall /\ Unmoved
    /\ UNCHANGED <<todo, parts, retired, pending, failed, cohort>>

\* record opens the store.
RecordOpen ==
    /\ step = "record" /\ todo # {}
    /\ OpenStore
    /\ Goto("write")
    /\ Unmoved /\ UNCHANGED <<todo, parts, retired, pending, failed, cohort>>

\* Mutant: a partition that could not be recorded is tried again.
RecordRetries ==
    /\ step \in {"record", "write"} /\ todo # {}
    /\ failed' = TRUE
    /\ Goto("record")
    /\ NoCall /\ Unmoved /\ UNCHANGED <<todo, parts, retired, pending, cohort>>
\* The store cannot be opened or written: the loop goes on, unrecorded.
RecordFails ==
    /\ step \in {"record", "write"} /\ todo # {}
    /\ \E v \in todo : todo' = todo \ {v}
    /\ failed' = TRUE
    /\ Goto("record")
    /\ NoCall /\ Unmoved /\ UNCHANGED <<parts, retired, pending, cohort>>

\* A whole tree identical to its predecessor: the predecessor stands in.
ReuseWhole ==
    /\ step = "write" /\ scan.whole /\ scan.reuse
    /\ \E v \in todo :
        LET part == scan.plan[v]
            by == Reusable(v, part)
        IN  /\ by # None
            /\ ConfirmReusedRun(by, part.rules, stamp[lease], now)
            /\ cohort' = Published({by})
    /\ todo' = {}
    /\ scan' = [scan EXCEPT !.plan = NoPlan]
    /\ Goto("record")
    /\ UNCHANGED <<stamp, lease, parts, retired, pending, failed, before>>

WriteWhole ==
    /\ step = "write" /\ scan.whole
    /\ \E v \in todo :
        LET part == scan.plan[v]
        IN  /\ ~ (scan.reuse /\ Reusable(v, part) # None)
            /\ RecordSnapshotWithPredecessor(SnapshotOf(v, part), Predecessor(v, part))
    /\ cohort' = Published({NewRun})
    /\ todo' = {}
    /\ scan' = [scan EXCEPT !.plan = NoPlan]
    /\ Goto("record")
    /\ UNCHANGED <<stamp, lease, parts, retired, pending, failed, before>>

\* One partition of several is staged; if a completed run may stand in for it,
\* and nothing failed so far, its own row is about to be discarded again.
Stage ==
    /\ step = "write" /\ ~ scan.whole
    /\ \E v \in todo :
        LET part == scan.plan[v]
            by == Reusable(v, part)
        IN  /\ RecordSnapshotPartStaged(SnapshotOf(v, part), Predecessor(v, part))
            /\ todo' = todo \ {v}
            /\ IF by # None /\ scan.reuse /\ ~ failed
               THEN /\ pending' = [part |-> NewRun, by |-> by]
                    /\ parts' = parts
                    /\ Goto("discard_open")
               ELSE /\ parts' = parts \cup {NewRun}
                    /\ pending' = NoPending
                    /\ Goto("record")
    /\ Unmoved /\ UNCHANGED <<retired, failed, cohort>>

\* reuse_semantic_partition.
DiscardOpen ==
    /\ step = "discard_open"
    /\ OpenStore
    /\ Goto("discard")
    /\ Unmoved /\ UNCHANGED <<todo, parts, retired, pending, failed, cohort>>

Discard ==
    /\ step = "discard"
    /\ DiscardRun(pending.part, pending.by)
    /\ retired' = retired \cup {pending.part}
    /\ pending' = NoPending
    /\ Goto("record")
    /\ Unmoved /\ UNCHANGED <<todo, parts, failed, cohort>>

\* Mutant: the pending partition is forgotten before it is kept.
DiscardFailsSwapped ==
    /\ step \in {"discard_open", "discard"}
    /\ failed' = TRUE
    /\ pending' = NoPending
    /\ parts' = parts \cup {pending'.part}
    /\ Goto("record")
    /\ NoCall /\ Unmoved /\ UNCHANGED <<todo, retired, cohort>>
\* Opening or discarding fails: the partition stays staged, to be cleaned up.
DiscardFails ==
    /\ step \in {"discard_open", "discard"}
    /\ failed' = TRUE
    /\ parts' = parts \cup {pending.part}
    /\ pending' = NoPending
    /\ Goto("record")
    /\ NoCall /\ Unmoved /\ UNCHANGED <<todo, retired, cohort>>

(***************************************************************************)
(* After the loop.                                                         *)
(***************************************************************************)

LoopDone ==
    /\ step = "record" /\ todo = {}
    /\ Goto(IF failed THEN "cleanup_open"
            ELSE IF parts \cup retired = {} THEN "done" ELSE "finalize_open")
    /\ NoCall /\ Unmoved /\ UNCHANGED <<todo, parts, retired, pending, failed, cohort>>

FinalizeOpen ==
    /\ step = "finalize_open"
    /\ OpenStore
    /\ Goto("finalize")
    /\ Unmoved /\ UNCHANGED <<todo, parts, retired, pending, failed, cohort>>

Finalize ==
    /\ step = "finalize"
    /\ FinalizeSnapshotParts(parts, retired)
    /\ cohort' = Published(parts \cup {token[r].reused : r \in retired})
    /\ scan' = [scan EXCEPT !.plan = NoPlan]
    /\ Goto(IF retired = {} THEN "done" ELSE "tidy_open")
    /\ UNCHANGED <<stamp, lease, todo, parts, retired, pending, failed, before>>

\* Opening fails, a comparison cannot be prepared, or the call is refused.
FinalizeFails ==
    /\ \/ step = "finalize_open" /\ NoCall
       \/ step = "finalize" /\ \/ FinalizeFail(parts, retired)
                               \/ FinalizeFailUnclean(parts, retired)
    /\ failed' = TRUE
    /\ Goto("cleanup_open")
    /\ Unmoved /\ UNCHANGED <<todo, parts, retired, pending, cohort>>

\* Whatever was staged is aborted; that this may fail too is ignored.
CleanupOpen ==
    /\ step = "cleanup_open"
    /\ OpenStore
    /\ Goto("cleanup")
    /\ Unmoved /\ UNCHANGED <<todo, parts, retired, pending, failed, cohort>>

\* Mutant: only the partitions that still have a row are handed over.
CleanupLiveParts ==
    /\ step = "cleanup"
    /\ AbortSnapshotParts(parts)
    /\ Goto("done")
    /\ Unmoved /\ UNCHANGED <<todo, parts, retired, pending, failed, cohort>>
Cleanup ==
    /\ step = "cleanup"
    /\ AbortSnapshotParts(parts \cup retired)
    /\ Goto("done")
    /\ Unmoved /\ UNCHANGED <<todo, parts, retired, pending, failed, cohort>>

\* The tokens of reused partitions own the rules their staging created.
TidyOpen ==
    /\ step = "tidy_open"
    /\ OpenStore
    /\ Goto("tidy")
    /\ Unmoved /\ UNCHANGED <<todo, parts, retired, pending, failed, cohort>>

Tidy ==
    /\ step = "tidy"
    /\ AbortSnapshotParts(retired)
    /\ Goto("done")
    /\ Unmoved /\ UNCHANGED <<todo, parts, retired, pending, failed, cohort>>

LastCallFails ==
    /\ step \in {"cleanup_open", "cleanup", "tidy_open", "tidy"}
    /\ Goto("unclean")
    /\ NoCall /\ Unmoved /\ UNCHANGED <<todo, parts, retired, pending, failed, cohort>>

-----------------------------------------------------------------------------

Driver ==
    \/ AnalysisFails \/ RecordOpen \/ RecordFails \/ ReuseWhole \/ WriteWhole \/ Stage
    \/ DiscardOpen \/ Discard \/ DiscardFails \/ LoopDone
    \/ FinalizeOpen \/ Finalize \/ FinalizeFails
    \/ CleanupOpen \/ Cleanup \/ TidyOpen \/ Tidy \/ LastCallFails
    \/ Finish

\* Time passes; cache prune takes the lease, prunes and gives it back.
TimePasses == Tick /\ UNCHANGED <<driverVars, ghostVars>>
CachePrune == lease = Nobody /\ Prune /\ UNCHANGED <<driverVars, ghostVars>>

Next ==
    \/ \E p \in Procs : Start(p) \/ Acquire(p) \/ Refused(p)
    \/ Driver
    \/ Crash
    \/ TimePasses
    \/ CachePrune

Spec == Init /\ [][Next]_vars

\* A live process goes on; nothing makes it crash, prune or scan again.
FairSpec == Spec /\ WF_vars(Driver)

(***************************************************************************)
(* What the driver must keep.                                              *)
(***************************************************************************)

\* Each of the driver's openings runs the reaper, and a scan may outlast the
\* grace period: the partitions a scan has staged are all still there when it
\* comes to finalize them (LIVE_RUNS).
OwnPartitionsSurvive ==
    step \in {"record", "write", "discard_open", "discard", "finalize_open", "finalize"}
        => parts \cup ({pending.part} \ {None}) \subseteq Running

LatestInvocation ==
    {r \in Completed : run[r].snap.started = run[Newest(Completed)].snap.started}

\* latest_completed_invocation returns every partition of the scan that
\* published the newest run, the reused ones included: a report or a baseline
\* taken from it never covers a part of that scan only.
LatestInvocationWhole ==
    Completed # {} => LatestInvocation = cohort[Newest(Completed)]

\* A scan that fails and whose cleanup goes through leaves the suppression
\* table as it was and no run row of its own, whichever call failed, whether or
\* not finalization already cleaned up, and whatever was reused in between.
FailedScanLeavesNoTrace ==
    step = "done" /\ scan.plan # NoPlan
        => suppression = before.rules /\ Recorded(run) \subseteq before.runs

\* Readers see a scan's partitions and its policy appear together or not at
\* all, however the driver's calls fail and wherever it dies.
History == INSTANCE AuditHistory WITH
    RunIds <- RunId, Times <- Time, NoRow <- NoRow,
    visible <- [r \in RunId |-> IF r \in Completed THEN run[r].snap ELSE NoRow],
    policy <- {s \in Rules : suppression[s] = "active"},
    plan <- scan.plan
AllOrNothing == History!Spec

\* The driver only ever calls the store the way SnapshotStore lets a caller, so
\* what is proved there of every caller holds of a scan.
DriverIsACaller == StoreSpec

\* A scan that is not interrupted gives the lease back, whatever fails in it.
LeaseReleased == \A p \in Procs : lease = p ~> lease # p

=============================================================================
