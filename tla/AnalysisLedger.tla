--------------------------- MODULE AnalysisLedger ---------------------------
(***************************************************************************)
(* store/artifact.rs, store/lifecycle.rs, cli/artifact.rs: the saved          *)
(* artifact analyses, the measurements that evaluate their estimates, and     *)
(* the retention pass that bounds the first and must keep the second.         *)
(*                                                                           *)
(* Commands that write hold the database lease from before their first read   *)
(* to their exit; report and calibration read without it, one statement at a  *)
(* time.  All estimates are of one completed source run; a group is a clone   *)
(* group of it, an artifact a content and build variant.                      *)
(***************************************************************************)
EXTENDS Naturals, FiniteSets

CONSTANTS
    Commands,       \* processes that write: analyze, compare, cache prune, scan
    Readers,        \* processes that read: artifact report, artifact calibration
    Artifacts,
    Groups,
    Times,          \* what the wall clock may say; it may be set back
    Keeps,          \* values of --keep-artifacts and --keep-comparisons
    MaxSerial,      \* analyses and comparisons recorded in a behaviour
    Nothing

ASSUME LedgerAssumption ==
    /\ Times \subseteq Nat /\ Keeps \subseteq Nat /\ MaxSerial \in Nat
    /\ Nothing \notin Nat /\ Nothing \notin Commands

VARIABLES
    analyses,       \* artifact_analysis and the rows it owns
    calibrations,   \* artifact_analysis_savings_calibration, keyed as it is
    comparisons,    \* cross-variant and cross-language comparisons
    running,        \* partitions of scans that died; shared: so are their contents
    serial,         \* analyses and comparisons ever recorded: tells rows of one id apart
    lease,          \* the command that holds the database
    at,             \* what each command does
    picked,         \* the analysis a compare selected
    reader,         \* what each reader has read
    pruned          \* the report of the last prune, and what it took

ledger == <<analyses, calibrations, comparisons, running, serial>>
vars == <<analyses, calibrations, comparisons, running, serial, lease, at, picked, reader, pruned>>

Kinds == {"cross_variant", "cross_language"}
Analysis == [id : Nat, started : Times, artifact : Artifacts, serial : Nat,
             correlated : BOOLEAN, groups : SUBSET Groups]
Calibration == [analysis : Nat, group : Groups, after : Artifacts]

-----------------------------------------------------------------------------
(* Recency *)

\* ARTIFACT_ANALYSIS_RECENCY, and the order of comparisons.
Newer(a, b) == a.started > b.started \/ (a.started = b.started /\ a.id > b.id)
Newest(rows) == {a \in rows : \A b \in rows \ {a} : Newer(a, b)}

\* ORDER BY .. LIMIT keep
Limited(rows, keep) == {a \in rows : Cardinality({b \in rows : Newer(b, a)}) < keep}

\* The row id SQLite gives: no AUTOINCREMENT, so one past the largest there is.
FreshId(rows) == CHOOSE n \in 1..(Cardinality(rows) + MaxSerial + 1) :
    (\A r \in rows : r.id < n) /\ (n = 1 \/ \E r \in rows : r.id = n - 1)

-----------------------------------------------------------------------------
(* Commands that write *)

\* Mutant: a compare takes no lease.
AcquireToWrite(c, work) == lease = Nothing \/ work = "comparing"

Acquire(c, work) == lease = Nothing

Begin(c, work) ==
    /\ at[c] = "idle" /\ Acquire(c, work)
    /\ lease' = c
    /\ at' = [at EXCEPT ![c] = work]
    /\ UNCHANGED <<ledger, picked, reader, pruned>>

Ends(c) ==
    /\ at' = [at EXCEPT ![c] = "idle"]
    /\ lease' = IF lease = c THEN Nothing ELSE lease
    /\ picked' = [picked EXCEPT ![c] = Nothing]

\* A refused argument, a parser's error or the process killed: the lease is
\* the lock file's, so it ends with the process.
Fail(c) == at[c] # "idle" /\ Ends(c) /\ UNCHANGED <<ledger, reader, pruned>>

\* record_artifact_analysis: one transaction.  Without a source run there is
\* no correlation and no estimate.
Analyze(c) ==
    /\ at[c] = "analyzing" /\ serial < MaxSerial
    /\ \E started \in Times, artifact \in Artifacts, correlated \in BOOLEAN, groups \in SUBSET Groups :
        /\ correlated \/ groups = {}
        /\ analyses' = analyses \cup {[id |-> FreshId(analyses), started |-> started,
              artifact |-> artifact, serial |-> serial, correlated |-> correlated, groups |-> groups]}
    /\ serial' = serial + 1
    /\ Ends(c)
    /\ UNCHANGED <<calibrations, comparisons, running, reader, pruned>>

\* select_clone_group_estimate: the newest analysis of the artifact that
\* estimates the group.
Matching(artifact, group) == {a \in analyses : a.artifact = artifact /\ group \in a.groups}

Select(c) ==
    /\ at[c] = "comparing"
    /\ \E before \in Artifacts, after \in Artifacts, group \in Groups, a \in analyses :
        /\ a \in Newest(Matching(before, group))
        /\ picked' = [picked EXCEPT ![c] = [analysis |-> a.id, group |-> group, after |-> after]]
    /\ at' = [at EXCEPT ![c] = "measuring"]
    /\ UNCHANGED <<ledger, lease, reader, pruned>>

\* record_artifact_savings_calibration: a row of the same identity is updated;
\* an analysis the database does not hold is an error.
Measure(c) ==
    /\ at[c] = "measuring"
    /\ calibrations' = calibrations \cup
          {m \in {picked[c]} : \E a \in analyses : a.id = m.analysis}
    /\ Ends(c)
    /\ UNCHANGED <<analyses, comparisons, running, serial, reader, pruned>>

\* A scan records its comparisons, or dies and leaves a partition behind.
Scan(c) ==
    /\ at[c] = "scanning" /\ serial < MaxSerial
    /\ \/ \E kind \in Kinds, started \in Times :
            comparisons' = comparisons \cup
              {[kind |-> kind, started |-> started,
                id |-> FreshId({r \in comparisons : r.kind = kind})]}
          /\ UNCHANGED running
       \/ \E shared \in BOOLEAN : running' = running \cup {[id |-> serial, shared |-> shared]}
          /\ UNCHANGED comparisons
    /\ serial' = serial + 1
    /\ Ends(c)
    /\ UNCHANGED <<analyses, calibrations, reader, pruned>>

-----------------------------------------------------------------------------
(* prune *)

OfKind(rows, kind) == {r \in rows : r.kind = kind}

\* The analyses a prune keeps: what was measured does not age out.
Kept(keep) ==
    Limited(analyses, keep) \cup {a \in analyses : \E m \in calibrations : m.analysis = a.id}

KeptComparisons(keep) == UNION {Limited(OfKind(comparisons, kind), keep) : kind \in Kinds}

\* The foreign keys of schema.rs: the tables each table references.  Tables
\* that have the parents of one listed here are left out.
References ==
    [t \in {"scanned_file", "source_unit", "fragment", "clone_group", "clone_group_similarity",
            "artifact_analysis_correlation", "artifact_analysis_clone_group_savings",
            "artifact_analysis_savings_calibration", "cross_variant_clone_group",
            "cross_variant_clone_member", "cross_language_semantic_group",
            "cross_language_semantic_member"} |->
        CASE t = "scanned_file" -> {"scan_run"}
          [] t = "source_unit" -> {"scan_run", "fingerprint"}
          [] t = "fragment" -> {"scan_run", "source_unit", "fingerprint"}
          [] t = "clone_group" -> {"scan_run", "fingerprint"}
          [] t = "clone_group_similarity" -> {"clone_group"}
          [] t \in {"artifact_analysis_correlation", "artifact_analysis_clone_group_savings",
                    "artifact_analysis_savings_calibration"} -> {"artifact_analysis", "scan_run"}
          [] t = "cross_variant_clone_group" -> {"cross_variant_comparison"}
          [] t = "cross_variant_clone_member" -> {"cross_variant_clone_group"}
          [] t = "cross_language_semantic_group" -> {"cross_language_comparison"}
          [] t = "cross_language_semantic_member" -> {"cross_language_semantic_group"}]

History == {"scanned_file", "source_unit", "fragment", "clone_group", "clone_group_similarity"}
Direct == {"scan_run", "artifact_analysis", "cross_variant_comparison",
           "cross_language_comparison", "fingerprint"}
Tables == Direct \cup DOMAIN References

Children(reached) == {t \in DOMAIN References : References[t] \cap reached # {}}

\* Mutant: one round of the loop, as deep as an analysis's own rows.
OneRound(reached) == reached \cup Children(reached)

\* while grew: as many rounds as there are tables are enough.
Closure(reached) ==
    LET after[n \in 0..Cardinality(Tables)] ==
            IF n = 0 THEN reached
            ELSE LET before == after[n - 1] IN before \cup Children(before)
    IN after[Cardinality(Tables)]

Starts(keepAnalyses, keepComparisons) ==
    {"fingerprint"}
    \cup {t \in {"scan_run"} : running # {}}
    \cup {t \in {"artifact_analysis"} : Cardinality(analyses) > keepAnalyses}
    \cup {t \in {"cross_variant_comparison"} :
            Cardinality(OfKind(comparisons, "cross_variant")) > keepComparisons}
    \cup {t \in {"cross_language_comparison"} :
            Cardinality(OfKind(comparisons, "cross_language")) > keepComparisons}

\* tables_a_prune_can_reach
Observed(keepAnalyses, keepComparisons) == Closure(Starts(keepAnalyses, keepComparisons))

\* The rows a pass takes from a table, given what remains of the others.  A
\* partition has one row of each table of the history; a comparison, one group
\* of one member.
Taken(t, gone, goneComparisons) ==
    CASE t \in {"scan_run"} \cup History -> Cardinality(running)
      [] t = "fingerprint" -> Cardinality({p \in running : ~p.shared})
      [] t = "artifact_analysis" -> Cardinality(gone)
      [] t = "artifact_analysis_correlation" -> Cardinality({a \in gone : a.correlated})
      [] t = "artifact_analysis_clone_group_savings" ->
            Cardinality({x \in gone \X Groups : x[2] \in x[1].groups})
      [] t = "artifact_analysis_savings_calibration" ->
            Cardinality({m \in calibrations : \E a \in gone : a.id = m.analysis})
      [] t \in {"cross_variant_comparison", "cross_variant_clone_group", "cross_variant_clone_member"} ->
            Cardinality(OfKind(goneComparisons, "cross_variant"))
      [] OTHER -> Cardinality(OfKind(goneComparisons, "cross_language"))

\* The rows go in one transaction; a compaction that fails after it costs the
\* report.
Prune(c) ==
    /\ at[c] = "pruning"
    /\ \E keepAnalyses \in Keeps, keepComparisons \in Keeps :
        LET gone == analyses \ Kept(keepAnalyses)
            goneComparisons == comparisons \ KeptComparisons(keepComparisons)
            observed == Observed(keepAnalyses, keepComparisons)
            lost == [t \in Tables |-> Taken(t, gone, goneComparisons)] IN
        /\ analyses' = analyses \ gone
        /\ calibrations' = {m \in calibrations : \A a \in gone : a.id # m.analysis}
        /\ comparisons' = comparisons \ goneComparisons
        /\ \/ pruned' = [observed |-> observed, lost |-> lost,
                         told |-> [t \in Tables |-> IF t \in observed \cup Direct THEN lost[t] ELSE 0]]
           \/ pruned' = Nothing
    /\ running' = {}
    /\ Ends(c)
    /\ UNCHANGED <<serial, reader>>

-----------------------------------------------------------------------------
(* Commands that read *)

Reading(r, what, value) == reader' = [reader EXCEPT ![r] = [reads |-> what, has |-> value]]

\*\* artifact calibration: the measurements (group by group in the code; rows
\* listed are never lost, so that adds none), then the identity of each one's
\* analysis.
List(r) ==
    /\ reader[r].reads = "nothing"
    /\ Reading(r, "measurements", calibrations)
    /\ UNCHANGED <<ledger, lease, at, picked, pruned>>

\* Mutant: identities are read from the newest analysis only.
IdentifyNewest(r) ==
    /\ reader[r].reads = "measurements"
    /\ \/ \E m \in reader[r].has :
            IF \E a \in Newest(analyses) : a.id = m.analysis
            THEN Reading(r, "measurements", reader[r].has \ {m})
            ELSE Reading(r, "missing", m)
       \/ reader[r].has = {} /\ Reading(r, "nothing", Nothing)
    /\ UNCHANGED <<ledger, lease, at, picked, pruned>>

Identify(r) ==
    /\ reader[r].reads = "measurements"
    /\ \/ \E m \in reader[r].has :
            IF \E a \in analyses : a.id = m.analysis
            THEN Reading(r, "measurements", reader[r].has \ {m})
            ELSE Reading(r, "missing", m)
       \/ reader[r].has = {} /\ Reading(r, "nothing", Nothing)
    /\ UNCHANGED <<ledger, lease, at, picked, pruned>>

\* artifact report: the newest analysis, or one that is named; its document,
\* and then the rows it owns.
Find(r) ==
    /\ reader[r].reads = "nothing"
    /\ \E a \in analyses : Reading(r, "id", a.id)
    /\ UNCHANGED <<ledger, lease, at, picked, pruned>>

Load(r) ==
    /\ reader[r].reads = "id"
    /\ \/ \E a \in analyses : a.id = reader[r].has /\ Reading(r, "document", a)
       \/ /\ \A a \in analyses : a.id # reader[r].has
          /\ Reading(r, "nothing", Nothing)
    /\ UNCHANGED <<ledger, lease, at, picked, pruned>>

\* recorded_correlation: no summary row is no correlation.
Correlation(id) == {a.serial : a \in {a \in analyses : a.id = id /\ a.correlated}}

Render(r) ==
    /\ reader[r].reads = "document"
    /\ Reading(r, "report", [document |-> reader[r].has, correlation |-> Correlation(reader[r].has.id)])
    /\ UNCHANGED <<ledger, lease, at, picked, pruned>>

Leave(r) ==
    /\ reader[r].reads \in {"report", "missing"}
    /\ Reading(r, "nothing", Nothing)
    /\ UNCHANGED <<ledger, lease, at, picked, pruned>>

-----------------------------------------------------------------------------
Init ==
    /\ analyses = {} /\ calibrations = {} /\ comparisons = {} /\ running = {} /\ serial = 0
    /\ lease = Nothing
    /\ at = [c \in Commands |-> "idle"]
    /\ picked = [c \in Commands |-> Nothing]
    /\ reader = [r \in Readers |-> [reads |-> "nothing", has |-> Nothing]]
    /\ pruned = Nothing

Writing(c) ==
    \/ \E work \in {"analyzing", "comparing", "pruning", "scanning"} : Begin(c, work)
    \/ Fail(c) \/ Analyze(c) \/ Select(c) \/ Measure(c) \/ Scan(c) \/ Prune(c)

ReadingStep(r) == List(r) \/ Identify(r) \/ Find(r) \/ Load(r) \/ Render(r) \/ Leave(r)

Next == (\E c \in Commands : Writing(c)) \/ (\E r \in Readers : ReadingStep(r))

Spec == Init /\ [][Next]_vars

-----------------------------------------------------------------------------
(* Properties *)

\* The rows have their types and a command its work.
TypeOK ==
    /\ analyses \subseteq Analysis /\ calibrations \subseteq Calibration
    /\ serial \in 0..MaxSerial
    /\ lease \in Commands \cup {Nothing}
    /\ at \in [Commands -> {"idle", "analyzing", "comparing", "measuring", "pruning", "scanning"}]
    /\ \A c \in Commands : picked[c] \in Calibration \cup {Nothing}
    /\ \A r \in Readers : reader[r].reads \in
          {"nothing", "measurements", "missing", "id", "document", "report"}

\* "artifact calibration" reads without the lease, and between its two reads a
\* prune may run: the analysis of a measurement it listed is there all the same
\* (cli/artifact/calibration.rs, "calibration refers to a missing artifact
\* analysis").
SummariesComplete == \A r \in Readers : reader[r].reads # "missing"

\* The calibration ledger is history: no command loses a measurement
\* (Store::prune).
LedgerEndures == [][calibrations \subseteq calibrations']_vars

\* What a compare records evaluates the newest matching estimate at that
\* moment, not one that was the newest when it looked
\* (select_clone_group_estimate, the lease of compare_direct).
MeasuresTheNewest ==
    [][\A c \in Commands : at[c] = "measuring" /\ calibrations' # calibrations =>
          \E a \in analyses :
             /\ a.id = picked[c].analysis
             /\ a \in Newest(Matching(a.artifact, picked[c].group))]_vars

\* A retention pass that keeps anything keeps the analysis a report reads by
\* default (latest_artifact_analysis_id).
LatestIsKept ==
    [][analyses' \subseteq analyses /\ 0 \notin Keeps => Newest(analyses') = Newest(analyses)]_vars

\* A prune tells of every row it removed, also of those that a foreign key
\* took two tables away (PruneReport).
EveryDeletionIsTold == pruned # Nothing => pruned.told = pruned.lost

\* Measurements are history, and each was made against the newest estimate
\* (Store::prune, select_clone_group_estimate).
LedgerIsKept == LedgerEndures /\ MeasuresTheNewest

\* A prune tells of all it took and takes nothing a default report reads.
PruneIsHonest == [](TypeOK /\ EveryDeletionIsTold) /\ LatestIsKept
=============================================================================
