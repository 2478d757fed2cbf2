----------------------------- MODULE MCRecords -----------------------------
(***************************************************************************)
(* What the database remembers beyond one scan: the ledger of artifact        *)
(* analyses and measurements under retention, and the lineage of clone groups. *)
(* They share no rows, so a behaviour is of one of them, its subject.        *)
(***************************************************************************)
EXTENDS AnalysisLedger, LineageHistory, TLC

VARIABLE subject

ThreeFingerprints == 1 .. 3
Renamings == Permutations(Commands) \cup Permutations(Contents)

\* Readers meet two records and a pass that keeps one; the ledger alone meets
\* more.
ReadLedger == INSTANCE AnalysisLedger WITH Keeps <- {1}, MaxSerial <- 2

RecordsInit == subject \in {"ledger", "read", "lineage"} /\ Init /\ LineageInit

RecordsNext ==
    \/ /\ subject = "ledger" /\ \E c \in Commands : Writing(c)
       /\ UNCHANGED <<subject, run>>
    \/ subject = "read" /\ ReadLedger!Next /\ UNCHANGED <<subject, run>>
    \/ subject = "lineage" /\ LineageNext /\ UNCHANGED <<subject, vars>>

RecordsSpec == RecordsInit /\ [][RecordsNext]_<<subject, run, vars>>
=============================================================================
