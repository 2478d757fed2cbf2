------------------------ MODULE SnapshotStore_proofs ------------------------
(***************************************************************************)
(* Proofs about SnapshotStore, for every number of rows, trees, rules and   *)
(* clock steps and for every caller.                                        *)
(***************************************************************************)
EXTENDS SnapshotStore, TLAPS

-----------------------------------------------------------------------------
(* Facts about the helpers.                                                *)

\* Removing rows leaves a table of rows and removes no other row.
LEMMA WithoutRunsType ==
    ASSUME StoreTypeOK, NEW gone
    PROVE  WithoutRuns(gone) \in [RunId -> Row \cup {NoRow}]
  BY DEF StoreTypeOK, WithoutRuns

\* Reaping and discarding never add an identity.
LEMMA FingerprintType ==
    ASSUME StoreTypeOK, NEW gone, NEW rn
    PROVE  RemoveOrphanedFingerprints(gone, rn) \subseteq Trees
  BY DEF StoreTypeOK, RemoveOrphanedFingerprints

\* Both ways of writing the suppression table keep a state per rule.
LEMMA SuppressionType ==
    ASSUME StoreTypeOK, NEW rules, NEW activate \in BOOLEAN, NEW parts, NEW rn
    PROVE  /\ WriteSuppressions(rules, activate)
                 \in [Rules -> {"absent", "inactive", "active"}]
           /\ CleanupStagedSuppressions(parts, rn)
                 \in [Rules -> {"absent", "inactive", "active"}]
<1>1. \A s \in Rules : suppression[s] \in {"absent", "inactive", "active"}
  BY DEF StoreTypeOK
<1>2. WriteSuppressions(rules, activate) \in [Rules -> {"absent", "inactive", "active"}]
  BY <1>1 DEF WriteSuppressions
<1>3. CleanupStagedSuppressions(parts, rn) \in [Rules -> {"absent", "inactive", "active"}]
  BY <1>1 DEF CleanupStagedSuppressions
<1> QED BY <1>2, <1>3

\* Standing in for a partition keeps a completed row a row of the same run.
LEMMA RefreshedType ==
    ASSUME NEW row \in Row, NEW t, t.started \in Time, t.finished \in Time
    PROVE  /\ Refreshed(row, t) \in Row
           /\ Refreshed(row, t).status = row.status
           /\ Refreshed(row, t).snap.variant = row.snap.variant
           /\ Refreshed(row, t).snap.tree = row.snap.tree
           /\ Refreshed(row, t).snap.rules = row.snap.rules
           /\ Refreshed(row, t).snap.hides = row.snap.hides
  BY DEF Refreshed, Row, Snapshot

\* What a caller can hand over is a snapshot.
LEMMA OfferedType ==
    ASSUME StoreTypeOK
    PROVE  Offered \subseteq Snapshot
<1>1. now \in Time /\ 0 .. now \subseteq Time
  BY SnapshotAssumption DEF StoreTypeOK, Started, Time
<1>2. \A R \in Policies : R \in SUBSET Rules
  BY SnapshotAssumption
<1> QED BY <1>1, <1>2 DEF Offered, Started, Snapshot

\* A row that is running or completed is a row with a snapshot.
LEMMA RecordedRow ==
    ASSUME StoreTypeOK, NEW r \in RunId
    PROVE  /\ r \in Running => run[r] \in Row
           /\ r \in Completed => run[r] \in Row
           /\ r \in Recorded(run) <=> r \in Running \cup Completed
           /\ r \notin Recorded(run) => run[r] = NoRow
  BY DEF StoreTypeOK, Running, Completed, Recorded, Row, NoRow

-----------------------------------------------------------------------------
(* Type correctness, one lemma for the calls that write rows and one step   *)
(* per action.                                                              *)

\* Writing a snapshot, whole or staged, keeps the tables typed.
LEMMA WriteSnapshotType ==
    ASSUME StoreTypeOK, NEW snap \in Snapshot, NEW status \in {"running", "completed"},
           NEW activate \in BOOLEAN, WriteSnapshot(snap, status, activate)
    PROVE  /\ NewRun \in RunId
           /\ run' \in [RunId -> Row \cup {NoRow}]
           /\ lastId' \in 0 .. MaxRun
           /\ suppression' \in [Rules -> {"absent", "inactive", "active"}]
           /\ fingerprint' \subseteq Trees
<1>1. NewRun \in RunId /\ lastId' \in 0 .. MaxRun
  BY SnapshotAssumption DEF StoreTypeOK, WriteSnapshot, TakesId, NewRun, RunId
<1>2. [status |-> status, snap |-> snap] \in Row
  BY DEF Row
<1>3. run' \in [RunId -> Row \cup {NoRow}]
  BY <1>2 DEF StoreTypeOK, WriteSnapshot, TakesId
<1>4. suppression' \in [Rules -> {"absent", "inactive", "active"}]
  BY SuppressionType DEF WriteSnapshot, TakesId
<1>5. snap.tree \in Trees
  BY DEF Snapshot
<1> QED BY <1>1, <1>3, <1>4, <1>5 DEF StoreTypeOK, WriteSnapshot, TakesId

\* Cleaning up partitions keeps the tables typed.
LEMMA CleanupType ==
    ASSUME StoreTypeOK, NEW parts, NEW retired, CleanupSnapshotParts(parts, retired)
    PROVE  /\ run' \in [RunId -> Row \cup {NoRow}]
           /\ suppression' \in [Rules -> {"absent", "inactive", "active"}]
           /\ fingerprint' \subseteq Trees
  BY WithoutRunsType, SuppressionType, FingerprintType DEF CleanupSnapshotParts

\* A held token is a token.
LEMMA HeldToken ==
    ASSUME StoreTypeOK, NEW r \in Held
    PROVE  token[r] \in Token
  BY DEF StoreTypeOK, Held

\* Finalizing promotes rows and refreshes reused ones: rows stay rows.
LEMMA FinalizeType ==
    ASSUME StoreTypeOK, NEW parts \in SUBSET Held, NEW retired \in SUBSET Held,
           FinalizeSnapshotParts(parts, retired)
    PROVE  StoreTypeOK'
<1> DEFINE reused == {token[r].reused : r \in retired} \ {None}
<1>1. PICK by \in [reused -> retired] :
        run' = [r \in RunId |->
                  IF r \in parts THEN [run[r] EXCEPT !.status = "completed"]
                  ELSE IF r \in reused THEN Refreshed(run[r], token[by[r]])
                  ELSE run[r]]
  BY DEF FinalizeSnapshotParts
<1>2. CanFinalize(parts, retired)
  BY DEF FinalizeSnapshotParts
<1>3. ASSUME NEW r \in RunId, r \in parts
      PROVE  [run[r] EXCEPT !.status = "completed"] \in Row
  <2>1. run[r] \in Row
    BY <1>2, <1>3, RecordedRow DEF CanFinalize
  <2> QED BY <2>1 DEF Row
<1>4. ASSUME NEW r \in RunId, r \in reused
      PROVE  Refreshed(run[r], token[by[r]]) \in Row
  <2>1. r \in Completed
    BY <1>2, <1>4 DEF CanFinalize
  <2>2. run[r] \in Row
    BY <2>1, RecordedRow
  <2>3. by[r] \in Held
    BY <1>1, <1>4
  <2>4. token[by[r]] \in Token
    BY <2>3, HeldToken
  <2>5. token[by[r]].started \in Time /\ token[by[r]].finished \in Time
    BY <2>4 DEF Token
  <2> QED BY <2>2, <2>5, RefreshedType
<1>5. run' \in [RunId -> Row \cup {NoRow}]
  <2> SUFFICES ASSUME NEW r \in RunId
               PROVE  (IF r \in parts THEN [run[r] EXCEPT !.status = "completed"]
                       ELSE IF r \in reused THEN Refreshed(run[r], token[by[r]])
                       ELSE run[r]) \in Row \cup {NoRow}
    BY <1>1
  <2>1. run[r] \in Row \cup {NoRow}
    BY DEF StoreTypeOK
  <2> QED BY <2>1, <1>3, <1>4
<1>6. suppression' \in [Rules -> {"absent", "inactive", "active"}]
  BY SuppressionType DEF FinalizeSnapshotParts
<1> QED BY <1>5, <1>6 DEF StoreTypeOK, FinalizeSnapshotParts

\* Every call keeps the tables, the live set and the tokens typed.
LEMMA TypeStep ==
    StoreTypeOK /\ [StoreNext]_storeVars => StoreTypeOK'
<1> SUFFICES ASSUME StoreTypeOK, [StoreNext]_storeVars
             PROVE  StoreTypeOK'
  OBVIOUS
<1>1. CASE Tick
  BY <1>1, SnapshotAssumption DEF Tick, StoreTypeOK, Time
<1>2. CASE OpenStore
  BY <1>2, WithoutRunsType, FingerprintType DEF OpenStore, StoreTypeOK
<1>3. ASSUME NEW snap \in Offered, NEW pred \in RunId \cup {None},
             RecordSnapshotWithPredecessor(snap, pred)
      PROVE  StoreTypeOK'
  <2>1. snap \in Snapshot
    BY OfferedType
  <2> QED BY <1>3, <2>1, WriteSnapshotType
      DEF RecordSnapshotWithPredecessor, StoreTypeOK
<1>4. ASSUME NEW snap \in Offered, NEW pred \in RunId \cup {None},
             RecordSnapshotPartStaged(snap, pred)
      PROVE  StoreTypeOK'
  <2>1. snap \in Snapshot
    BY OfferedType
  <2>2. WriteSnapshot(snap, "running", FALSE)
    BY <1>4 DEF RecordSnapshotPartStaged
  <2>3. NewRun \in RunId
    BY <2>1, <2>2, WriteSnapshotType
  <2>4. [rules |-> snap.rules,
         created |-> {s \in snap.rules : suppression[s] = "absent"},
         predecessor |-> pred, started |-> snap.started,
         finished |-> snap.finished, reused |-> None] \in Token
    BY <2>1 DEF Token, Snapshot
  <2>5. token' \in [RunId -> Token \cup {NoToken}]
    BY <1>4, <2>4 DEF RecordSnapshotPartStaged, StoreTypeOK
  <2>6. live' \subseteq RunId
    BY <1>4, <2>3 DEF RecordSnapshotPartStaged, StoreTypeOK
  <2> QED BY <1>4, <2>1, <2>2, <2>5, <2>6, WriteSnapshotType
      DEF RecordSnapshotPartStaged, StoreTypeOK
<1>5. ASSUME NEW r \in RunId, NEW R \in Policies, NEW st \in Started,
             ConfirmReusedRun(r, R, st, now)
      PROVE  StoreTypeOK'
  <2>1. run[r] \in Row
    BY <1>5, RecordedRow DEF ConfirmReusedRun
  <2>2. st \in Time /\ now \in Time
    BY SnapshotAssumption DEF StoreTypeOK, Started, Time
  <2>3. Refreshed(run[r], [started |-> st, finished |-> now]) \in Row
    BY <2>1, <2>2, RefreshedType
  <2>4. run' \in [RunId -> Row \cup {NoRow}]
    BY <1>5, <2>3 DEF ConfirmReusedRun, StoreTypeOK
  <2> QED BY <1>5, <2>4, SuppressionType DEF ConfirmReusedRun, StoreTypeOK
<1>6. ASSUME NEW r \in RunId, NEW q \in RunId \cup {None}, DiscardRun(r, q)
      PROVE  StoreTypeOK'
  <2>1. run' \in [RunId -> Row \cup {NoRow}] /\ fingerprint' \subseteq Trees
    BY <1>6, WithoutRunsType, FingerprintType DEF DiscardRun
  <2>2. ASSUME token[r] # NoToken
        PROVE  [token[r] EXCEPT !.reused = q] \in Token
    <3>1. token[r] \in Token
      BY <2>2 DEF StoreTypeOK
    <3> QED BY <3>1 DEF Token
  <2>3. token' \in [RunId -> Token \cup {NoToken}]
    BY <1>6, <2>2 DEF DiscardRun, StoreTypeOK
  <2> QED BY <1>6, <2>1, <2>3 DEF DiscardRun, StoreTypeOK
<1>7. ASSUME NEW parts \in SUBSET Held, NEW retired \in SUBSET Held,
             FinalizeSnapshotParts(parts, retired)
      PROVE  StoreTypeOK'
  BY <1>7, FinalizeType
<1>8. ASSUME NEW parts \in SUBSET Held, NEW retired \in SUBSET Held,
             \/ FinalizeFail(parts, retired)
             \/ FinalizeFailUnclean(parts, retired)
             \/ AbortSnapshotParts(parts)
      PROVE  StoreTypeOK'
  <2>1. CASE FinalizeFail(parts, retired)
    BY <2>1, CleanupType DEF FinalizeFail, StoreTypeOK
  <2>2. CASE FinalizeFailUnclean(parts, retired)
    BY <2>2 DEF FinalizeFailUnclean, StoreTypeOK
  <2>3. CASE AbortSnapshotParts(parts)
    BY <2>3, CleanupType DEF AbortSnapshotParts, StoreTypeOK
  <2> QED BY <1>8, <2>1, <2>2, <2>3
<1>9. CASE Prune
  BY <1>9, WithoutRunsType, FingerprintType DEF Prune, StoreTypeOK
<1>10. CASE ProcessExit
  BY <1>10 DEF ProcessExit, StoreTypeOK
<1>11. CASE UNCHANGED storeVars
  BY <1>11 DEF storeVars, StoreTypeOK
<1> QED
  BY <1>1, <1>2, <1>3, <1>4, <1>5, <1>6, <1>7, <1>8, <1>9, <1>10, <1>11 DEF StoreNext

\* The initial tables are typed.
LEMMA TypeInit == StoreInit => StoreTypeOK
  BY SnapshotAssumption DEF StoreInit, StoreTypeOK, Time

\* Type correctness of the store, for every caller.
THEOREM StoreTypeCorrect == StoreSpec => []StoreTypeOK
  BY TypeInit, TypeStep, PTL DEF StoreSpec

-----------------------------------------------------------------------------
(* Referential integrity.  A call changes the run table in one of four ways; *)
(* there is one lemma for each, and StoreInvStep says which call is which.   *)

\* Row r of rn records what row r of the table records now.
SameRecord(rn, r) ==
    /\ rn[r].status # "none" /\ run[r].status # "none"
    /\ rn[r].snap.tree = run[r].snap.tree
    /\ rn[r].snap.rules = run[r].snap.rules
    /\ rn[r].snap.hides = run[r].snap.hides

\* A row that is kept or removed disturbs neither the unused ids nor what the
\* tokens name, as long as no token is added.
LEMMA KeptRows ==
    ASSUME StoreInv, lastId' = lastId,
           \A r \in RunId : run'[r] = NoRow \/ SameRecord(run', r),
           \A r \in RunId : token'[r] = token[r] \/ token'[r] = NoToken
                            \/ (run'[r] = NoRow /\ token[r] # NoToken)
    PROVE  FreshIds' /\ TokenNamesItsOwnRun'
<1>1. ASSUME NEW r \in RunId, r > lastId
      PROVE  run'[r] = NoRow /\ token'[r] = NoToken
  <2>1. run[r] = NoRow /\ token[r] = NoToken
    BY <1>1 DEF StoreInv, FreshIds
  <2>2. ~ SameRecord(run', r)
    BY <2>1 DEF SameRecord, NoRow
  <2> QED BY <2>1, <2>2
<1>2. ASSUME NEW r \in RunId, token'[r] # NoToken, run'[r].status # "none"
      PROVE  run'[r].snap.rules = token'[r].rules
  <2>1. run'[r] # NoRow
    BY <1>2 DEF NoRow
  <2>2. SameRecord(run', r) /\ token'[r] = token[r]
    BY <1>2, <2>1
  <2>3. run[r].snap.rules = token[r].rules
    BY <1>2, <2>2 DEF StoreInv, TokenNamesItsOwnRun, Held, Recorded, SameRecord
  <2> QED BY <2>2, <2>3 DEF SameRecord
<1>3. FreshIds'
  BY <1>1 DEF FreshIds, RunId
<1>4. TokenNamesItsOwnRun'
  BY <1>2 DEF TokenNamesItsOwnRun, Held, Recorded, RunId
<1> QED BY <1>3, <1>4

\* Removing rows and the identities they leave orphaned.
LEMMA RemovalKeeps ==
    ASSUME StoreInv, NEW gone \in SUBSET RunId,
           run' = WithoutRuns(gone),
           fingerprint' = RemoveOrphanedFingerprints(gone, run')
    PROVE  /\ NoOrphanFingerprint'
           /\ \A r \in RunId : run'[r] = NoRow \/ SameRecord(run', r)
           /\ \A r \in RunId : r \in gone => run'[r] = NoRow
           /\ \A r \in RunId : r \notin gone => run'[r] = run[r]
           /\ Recorded(run') = Recorded(run) \ gone
<1>1. \A r \in RunId : run'[r] = IF r \in gone THEN NoRow ELSE run[r]
  BY DEF WithoutRuns
<1>2. Recorded(run') = Recorded(run) \ gone
  BY <1>1 DEF Recorded, NoRow
<1>3. Contents(run') = {run[r].snap.tree : r \in Recorded(run) \ gone}
  BY <1>1, <1>2 DEF Contents, Recorded
<1>4. Contents(run') \subseteq Contents(run)
  BY <1>3 DEF Contents
<1>5. NoOrphanFingerprint'
  <2>1. fingerprint = Contents(run)
    BY DEF StoreInv, NoOrphanFingerprint
  <2>2. CASE gone = {}
    <3>1. Contents(run') = Contents(run)
      BY <1>3, <2>2 DEF Contents
    <3> QED BY <2>1, <2>2, <3>1 DEF RemoveOrphanedFingerprints, NoOrphanFingerprint
  <2>3. CASE gone # {}
    <3>1. fingerprint' = fingerprint \cap Contents(run')
      BY <2>3 DEF RemoveOrphanedFingerprints
    <3> QED BY <1>4, <2>1, <3>1 DEF NoOrphanFingerprint
  <2> QED BY <2>2, <2>3
<1>6. \A r \in RunId : run'[r] = NoRow \/ SameRecord(run', r)
  <2> SUFFICES ASSUME NEW r \in RunId
               PROVE  run'[r] = NoRow \/ SameRecord(run', r)
    OBVIOUS
  <2>1. run[r] = NoRow \/ run[r].status # "none"
    BY RecordedRow DEF StoreInv, Recorded
  <2> QED BY <1>1, <2>1 DEF SameRecord
<1> QED BY <1>1, <1>2, <1>5, <1>6

\* A policy is written without losing a rule.
LEMMA PolicyKeepsRules ==
    ASSUME StoreInv, NEW rules, NEW activate \in BOOLEAN, NEW s \in Rules,
           suppression' = WriteSuppressions(rules, activate),
           s \in rules \/ suppression[s] # "absent"
    PROVE  suppression'[s] # "absent"
  BY DEF WriteSuppressions, StoreInv, StoreTypeOK

\* Rows that keep what they record keep the references from and to them.
LEMMA RefreshKeeps ==
    ASSUME StoreInv, NEW rules,
           run' \in [RunId -> Row \cup {NoRow}],
           \A r \in RunId : run'[r] = run[r] \/ SameRecord(run', r),
           suppression' = WriteSuppressions(rules, TRUE),
           fingerprint' = fingerprint
    PROVE  NoOrphanFingerprint' /\ NoDanglingRule'
<1>1. Recorded(run') = Recorded(run)
  BY DEF Recorded, SameRecord
<1>2. \A r \in Recorded(run) : /\ run'[r].snap.tree = run[r].snap.tree
                               /\ run'[r].snap.hides = run[r].snap.hides
  BY DEF Recorded, SameRecord
<1>3. Contents(run') = Contents(run)
  BY <1>1, <1>2 DEF Contents
<1>4. NoOrphanFingerprint'
  BY <1>3 DEF StoreInv, NoOrphanFingerprint
<1>5. ASSUME NEW r \in Recorded(run), NEW s \in run[r].snap.hides
      PROVE  suppression'[s] # "absent"
  <2>1. run[r] \in Row
    BY RecordedRow DEF StoreInv, Recorded
  <2>2. s \in Rules
    BY <1>5, <2>1 DEF Row, Snapshot
  <2>3. suppression[s] # "absent"
    BY <1>5 DEF StoreInv, NoDanglingRule
  <2> QED BY <2>2, <2>3, PolicyKeepsRules
<1>6. NoDanglingRule'
  BY <1>1, <1>2, <1>5 DEF NoDanglingRule, Recorded, RunId
<1> QED BY <1>4, <1>6

\* A new row takes an id nothing names, and brings its rules and identities.
LEMMA WriteKeeps ==
    ASSUME StoreInv, NEW snap \in Snapshot, snap.hides \subseteq snap.rules,
           NEW status \in {"running", "completed"},
           NEW activate \in BOOLEAN, WriteSnapshot(snap, status, activate)
    PROVE  /\ NoOrphanFingerprint' /\ NoDanglingRule'
           /\ run[NewRun] = NoRow /\ token[NewRun] = NoToken
           /\ \A r \in RunId \ {NewRun} : run'[r] = run[r]
           /\ run'[NewRun] = [status |-> status, snap |-> snap]
<1>1. NewRun \in RunId /\ NewRun > lastId
  BY SnapshotAssumption DEF StoreInv, StoreTypeOK, WriteSnapshot, TakesId, NewRun, RunId
<1>2. run[NewRun] = NoRow /\ token[NewRun] = NoToken
  BY <1>1 DEF StoreInv, FreshIds
<1>3. /\ run'[NewRun] = [status |-> status, snap |-> snap]
      /\ \A r \in RunId \ {NewRun} : run'[r] = run[r]
  BY <1>1 DEF StoreInv, StoreTypeOK, WriteSnapshot, TakesId
<1>4. NewRun \notin Recorded(run) /\ Recorded(run') = Recorded(run) \cup {NewRun}
  BY <1>1, <1>2, <1>3 DEF Recorded, NoRow
<1>5. Contents(run') = Contents(run) \cup {snap.tree}
  <2>1. \A r \in Recorded(run) : run'[r].snap.tree = run[r].snap.tree
    BY <1>3, <1>4 DEF Recorded
  <2>2. run'[NewRun].snap.tree = snap.tree
    BY <1>3
  <2> QED BY <1>4, <2>1, <2>2 DEF Contents
<1>6. NoOrphanFingerprint'
  BY <1>5 DEF StoreInv, NoOrphanFingerprint, WriteSnapshot, TakesId
<1>7. ASSUME NEW r \in Recorded(run'), NEW s \in run'[r].snap.hides
      PROVE  suppression'[s] # "absent"
  <2>1. suppression' = WriteSuppressions(snap.rules, activate)
    BY DEF WriteSnapshot, TakesId
  <2>2. CASE r = NewRun
    <3>1. s \in snap.rules
      BY <1>3, <1>7, <2>2
    <3>2. s \in Rules
      BY <3>1 DEF Snapshot
    <3> QED BY <2>1, <3>1, <3>2, PolicyKeepsRules
  <2>3. CASE r # NewRun
    <3>1. r \in Recorded(run) /\ run'[r] = run[r]
      BY <1>3, <1>4, <2>3 DEF Recorded
    <3>2. run[r] \in Row
      BY <3>1, RecordedRow DEF StoreInv, Recorded
    <3>3. s \in Rules
      BY <1>7, <3>1, <3>2 DEF Row, Snapshot
    <3>4. suppression[s] # "absent"
      BY <1>7, <3>1 DEF StoreInv, NoDanglingRule
    <3> QED BY <2>1, <3>3, <3>4, PolicyKeepsRules
  <2> QED BY <2>2, <2>3
<1>8. NoDanglingRule'
  BY <1>7 DEF NoDanglingRule
<1> QED BY <1>2, <1>3, <1>6, <1>8

\* Removing rows alone leaves the rules of the others referenced.
LEMMA RemovalKeepsRules ==
    ASSUME StoreInv, NEW gone \in SUBSET RunId,
           run' = WithoutRuns(gone),
           fingerprint' = RemoveOrphanedFingerprints(gone, run'),
           suppression' = suppression
    PROVE  NoDanglingRule'
<1>1. \A r \in Recorded(run') : r \in Recorded(run) /\ run'[r] = run[r]
  BY RemovalKeeps DEF Recorded
<1> QED BY <1>1 DEF StoreInv, NoDanglingRule

\* Cleaning up removes a rule only when no remaining finding references it.
LEMMA CleanupKeeps ==
    ASSUME StoreInv, NEW parts, NEW retired, CleanupSnapshotParts(parts, retired)
    PROVE  /\ NoOrphanFingerprint' /\ NoDanglingRule'
           /\ \A r \in RunId : run'[r] = NoRow \/ SameRecord(run', r)
           /\ \A r \in RunId : run'[r] = run[r] \/ r \in parts \cap Running
           /\ \A r \in parts \cap Running : run'[r] = NoRow
<1> DEFINE gone == parts \cap Running
<1>1. gone \in SUBSET RunId
  BY DEF Running
<1>2. /\ run' = WithoutRuns(gone)
      /\ fingerprint' = RemoveOrphanedFingerprints(gone, run')
      /\ suppression' = CleanupStagedSuppressions(parts \cup retired, run')
  BY DEF CleanupSnapshotParts
<1>3. /\ NoOrphanFingerprint'
      /\ \A r \in RunId : run'[r] = NoRow \/ SameRecord(run', r)
      /\ \A r \in RunId : r \in gone => run'[r] = NoRow
      /\ \A r \in RunId : r \notin gone => run'[r] = run[r]
      /\ Recorded(run') = Recorded(run) \ gone
  BY <1>1, <1>2, RemovalKeeps
<1>4. ASSUME NEW r \in Recorded(run'), NEW s \in run'[r].snap.hides
      PROVE  suppression'[s] # "absent"
  <2>1. r \in Recorded(run) /\ run'[r] = run[r]
    BY <1>3 DEF Recorded
  <2>2. run[r] \in Row
    BY <2>1, RecordedRow DEF StoreInv, Recorded
  <2>3. s \in Rules
    BY <1>4, <2>1, <2>2 DEF Row, Snapshot
  <2>4. suppression[s] # "absent"
    BY <1>4, <2>1 DEF StoreInv, NoDanglingRule
  <2>5. suppression'[s] = suppression[s]
    BY <1>2, <1>4, <2>3 DEF CleanupStagedSuppressions
  <2> QED BY <2>4, <2>5
<1>5. NoDanglingRule'
  BY <1>4 DEF NoDanglingRule
<1>6. \A r \in RunId : run'[r] = run[r] \/ r \in parts \cap Running
  BY <1>3
<1>7. \A r \in parts \cap Running : run'[r] = NoRow
  BY <1>1, <1>3
<1> QED BY <1>3, <1>5, <1>6, <1>7

\* Finalizing changes the status of some rows and the times of others.
LEMMA FinalizeRows ==
    ASSUME StoreInv, NEW parts \in SUBSET Held, NEW retired \in SUBSET Held,
           FinalizeSnapshotParts(parts, retired), NEW r \in RunId
    PROVE  /\ run'[r] = run[r] \/ SameRecord(run', r)
           /\ r \in Recorded(run) => /\ r \in Recorded(run')
                                     /\ run'[r].snap.variant = run[r].snap.variant
           /\ r \in Completed => run'[r].status = "completed"
<1> DEFINE reused == {token[q].reused : q \in retired} \ {None}
<1>1. PICK by \in [reused -> retired] :
        run' = [q \in RunId |->
                  IF q \in parts THEN [run[q] EXCEPT !.status = "completed"]
                  ELSE IF q \in reused THEN Refreshed(run[q], token[by[q]])
                  ELSE run[q]]
  BY DEF FinalizeSnapshotParts
<1>2. CanFinalize(parts, retired)
  BY DEF FinalizeSnapshotParts
<1>3. CASE r \in parts
  <2>1. r \in Running /\ run[r] \in Row
    BY <1>2, <1>3, RecordedRow DEF CanFinalize, StoreInv
  <2>2. run'[r] = [run[r] EXCEPT !.status = "completed"]
    BY <1>1, <1>3
  <2> QED BY <2>1, <2>2 DEF Row, SameRecord, Recorded, Running, Completed
<1>4. CASE r \notin parts /\ r \in reused
  <2>1. r \in Completed /\ run[r] \in Row
    BY <1>2, <1>4, RecordedRow DEF CanFinalize, StoreInv
  <2>2. by[r] \in Held
    BY <1>1, <1>4
  <2>3. token[by[r]] \in Token
    BY <2>2, HeldToken DEF StoreInv
  <2>4. run'[r] = Refreshed(run[r], token[by[r]])
    BY <1>1, <1>4
  <2>5. token[by[r]].started \in Time /\ token[by[r]].finished \in Time
    BY <2>3 DEF Token
  <2> QED BY <2>1, <2>4, <2>5, RefreshedType DEF SameRecord, Recorded, Completed
<1>5. CASE r \notin parts /\ r \notin reused
  BY <1>1, <1>5 DEF Recorded, Completed
<1> QED BY <1>3, <1>4, <1>5

\* Confirming a reused run changes its times and nothing else of it.
LEMMA ConfirmRows ==
    ASSUME StoreInv, NEW q \in RunId, NEW R, NEW st \in Time, NEW fin \in Time,
           ConfirmReusedRun(q, R, st, fin), NEW r \in RunId
    PROVE  /\ run'[r] = run[r] \/ SameRecord(run', r)
           /\ r \in Recorded(run) => /\ r \in Recorded(run')
                                     /\ run'[r].snap.variant = run[r].snap.variant
           /\ r \in Completed => run'[r].status = "completed"
<1>1. q \in Completed /\ run[q] \in Row
  BY RecordedRow DEF ConfirmReusedRun, StoreInv
<1>2. run' = [run EXCEPT ![q] = Refreshed(run[q], [started |-> st, finished |-> fin])]
  BY DEF ConfirmReusedRun
<1>3. CASE r = q
  <2>1. run'[r] = Refreshed(run[r], [started |-> st, finished |-> fin])
    BY <1>2, <1>3 DEF StoreInv, StoreTypeOK
  <2> QED BY <1>1, <1>3, <2>1, RefreshedType DEF SameRecord, Recorded, Completed
<1>4. CASE r # q
  BY <1>2, <1>4 DEF StoreInv, StoreTypeOK, Recorded, Completed
<1> QED BY <1>3, <1>4

\* A row is either no row or a record of itself.
LEMMA RowsThemselves ==
    ASSUME StoreTypeOK, NEW r \in RunId
    PROVE  run[r] = NoRow \/ SameRecord(run, r)
  BY RecordedRow DEF SameRecord, Recorded

\* The same, across a step that leaves the row as it was or records the same.
LEMMA RowsKept ==
    ASSUME StoreTypeOK, NEW r \in RunId, run'[r] = run[r] \/ SameRecord(run', r)
    PROVE  run'[r] = NoRow \/ SameRecord(run', r)
  BY RowsThemselves DEF SameRecord

\* Every call keeps the inductive invariant.
LEMMA StoreInvStep ==
    StoreInv /\ [StoreNext]_storeVars => StoreInv'
<1> SUFFICES ASSUME StoreInv, [StoreNext]_storeVars
             PROVE  StoreInv'
  OBVIOUS
<1>t. StoreTypeOK'
  BY TypeStep DEF StoreInv
<1> SUFFICES FreshIds' /\ TokenNamesItsOwnRun' /\ NoOrphanFingerprint' /\ NoDanglingRule'
  BY <1>t DEF StoreInv
<1>1. CASE run' = run /\ lastId' = lastId /\ suppression' = suppression
           /\ fingerprint' = fingerprint
           /\ (token' = token \/ token' = [r \in RunId |-> NoToken])
  <2>1. \A r \in RunId : run'[r] = NoRow \/ SameRecord(run', r)
    BY <1>1, RowsThemselves DEF StoreInv, SameRecord
  <2>2. \A r \in RunId : token'[r] = token[r] \/ token'[r] = NoToken
    BY <1>1
  <2>3. FreshIds' /\ TokenNamesItsOwnRun'
    BY <1>1, <2>1, <2>2, KeptRows
  <2>4. NoOrphanFingerprint' /\ NoDanglingRule'
    BY <1>1 DEF StoreInv, NoOrphanFingerprint, NoDanglingRule, Contents, Recorded
  <2> QED BY <2>3, <2>4
<1>2. ASSUME NEW gone \in SUBSET RunId,
             run' = WithoutRuns(gone),
             fingerprint' = RemoveOrphanedFingerprints(gone, run'),
             lastId' = lastId, suppression' = suppression, token' = token
      PROVE  FreshIds' /\ TokenNamesItsOwnRun' /\ NoOrphanFingerprint' /\ NoDanglingRule'
  <2>1. NoOrphanFingerprint' /\ \A r \in RunId : run'[r] = NoRow \/ SameRecord(run', r)
    BY <1>2, RemovalKeeps
  <2>2. NoDanglingRule'
    BY <1>2, RemovalKeepsRules
  <2>3. FreshIds' /\ TokenNamesItsOwnRun'
    BY <1>2, <2>1, KeptRows
  <2> QED BY <2>1, <2>2, <2>3
<1>3. CASE Tick
  BY <1>1, <1>3 DEF Tick
<1>4. CASE OpenStore
  <2>1. Expired \in SUBSET RunId
    BY DEF Expired, Running
  <2> QED BY <1>2, <1>4, <2>1 DEF OpenStore
<1>5. ASSUME NEW snap \in Offered, snap.hides \subseteq snap.rules,
             NEW pred \in RunId \cup {None}, NEW status \in {"running", "completed"},
             NEW activate \in BOOLEAN, WriteSnapshot(snap, status, activate),
             \A r \in RunId \ {NewRun} : token'[r] = token[r],
             token'[NewRun] = token[NewRun] \/ token'[NewRun].rules = snap.rules
      PROVE  FreshIds' /\ TokenNamesItsOwnRun' /\ NoOrphanFingerprint' /\ NoDanglingRule'
  <2>1. snap \in Snapshot
    BY OfferedType DEF StoreInv
  <2>2. /\ NoOrphanFingerprint' /\ NoDanglingRule'
        /\ run[NewRun] = NoRow /\ token[NewRun] = NoToken
        /\ \A r \in RunId \ {NewRun} : run'[r] = run[r]
        /\ run'[NewRun] = [status |-> status, snap |-> snap]
    BY <1>5, <2>1, WriteKeeps
  <2>3. lastId' = lastId + 1 /\ NewRun = lastId + 1 /\ lastId \in Nat
    BY <1>5, SnapshotAssumption DEF WriteSnapshot, TakesId, NewRun, StoreInv, StoreTypeOK
  <2>4. ASSUME NEW r \in RunId, r > lastId'
        PROVE  run'[r] = NoRow /\ token'[r] = NoToken
    <3>1. r \in RunId \ {NewRun} /\ r > lastId
      BY <2>3, <2>4 DEF RunId
    <3> QED BY <1>5, <2>2, <3>1 DEF StoreInv, FreshIds
  <2>5. FreshIds'
    BY <2>4 DEF FreshIds, RunId
  <2>6. ASSUME NEW r \in RunId, token'[r] # NoToken, run'[r].status # "none"
        PROVE  run'[r].snap.rules = token'[r].rules
    <3>1. CASE r = NewRun
      BY <1>5, <2>2, <2>6, <3>1
    <3>2. CASE r # NewRun
      BY <1>5, <2>2, <2>6, <3>2 DEF StoreInv, TokenNamesItsOwnRun, Held, Recorded
    <3> QED BY <3>1, <3>2
  <2>7. TokenNamesItsOwnRun'
    BY <2>6 DEF TokenNamesItsOwnRun, Held, Recorded, RunId
  <2> QED BY <2>2, <2>5, <2>7
<1>6. ASSUME NEW snap \in Offered, snap.hides \subseteq snap.rules,
             NEW pred \in RunId \cup {None},
             \/ RecordSnapshotWithPredecessor(snap, pred)
             \/ RecordSnapshotPartStaged(snap, pred)
      PROVE  FreshIds' /\ TokenNamesItsOwnRun' /\ NoOrphanFingerprint' /\ NoDanglingRule'
  <2>1. CASE RecordSnapshotWithPredecessor(snap, pred)
    BY <1>5, <1>6, <2>1 DEF RecordSnapshotWithPredecessor
  <2>2. CASE RecordSnapshotPartStaged(snap, pred)
    <3>1. WriteSnapshot(snap, "running", FALSE)
      BY <2>2 DEF RecordSnapshotPartStaged
    <3>2. NewRun \in RunId
      BY <3>1, SnapshotAssumption DEF WriteSnapshot, TakesId, NewRun, RunId, StoreInv, StoreTypeOK
    <3>3. /\ token'[NewRun].rules = snap.rules
          /\ \A r \in RunId \ {NewRun} : token'[r] = token[r]
      BY <2>2, <3>2 DEF RecordSnapshotPartStaged, StoreInv, StoreTypeOK
    <3> QED BY <1>5, <1>6, <3>1, <3>3
  <2> QED BY <1>6, <2>1, <2>2
<1>7. ASSUME NEW q \in RunId, NEW R \in Policies, NEW st \in Started,
             ConfirmReusedRun(q, R, st, now)
      PROVE  FreshIds' /\ TokenNamesItsOwnRun' /\ NoOrphanFingerprint' /\ NoDanglingRule'
  <2>1. st \in Time /\ now \in Time
    BY SnapshotAssumption DEF StoreInv, StoreTypeOK, Started, Time
  <2>2. \A r \in RunId : run'[r] = run[r] \/ SameRecord(run', r)
    BY <1>7, <2>1, ConfirmRows
  <2>3. NoOrphanFingerprint' /\ NoDanglingRule'
    BY <1>t, <1>7, <2>2, RefreshKeeps DEF ConfirmReusedRun, StoreTypeOK, RunId, Row,
       Snapshot, Time, NoRow
  <2>4. FreshIds' /\ TokenNamesItsOwnRun'
    BY <1>7, <2>2, RowsKept, KeptRows DEF ConfirmReusedRun, StoreInv
  <2> QED BY <2>3, <2>4
<1>8. ASSUME NEW q \in RunId, NEW by \in RunId \cup {None}, DiscardRun(q, by)
      PROVE  FreshIds' /\ TokenNamesItsOwnRun' /\ NoOrphanFingerprint' /\ NoDanglingRule'
  <2>1. /\ NoOrphanFingerprint' /\ NoDanglingRule'
        /\ \A r \in RunId : run'[r] = NoRow \/ SameRecord(run', r)
        /\ run'[q] = NoRow
    BY <1>8, RemovalKeeps, RemovalKeepsRules DEF DiscardRun
  <2>2. \A r \in RunId : token'[r] = token[r] \/ token'[r] = NoToken
                         \/ (run'[r] = NoRow /\ token[r] # NoToken)
    BY <1>8, <2>1 DEF DiscardRun, StoreInv, StoreTypeOK
  <2>3. FreshIds' /\ TokenNamesItsOwnRun'
    BY <1>8, <2>1, <2>2, KeptRows DEF DiscardRun
  <2> QED BY <2>1, <2>3
<1>9. ASSUME NEW parts \in SUBSET Held, NEW retired \in SUBSET Held,
             FinalizeSnapshotParts(parts, retired)
      PROVE  FreshIds' /\ TokenNamesItsOwnRun' /\ NoOrphanFingerprint' /\ NoDanglingRule'
  <2>1. \A r \in RunId : run'[r] = run[r] \/ SameRecord(run', r)
    BY <1>9, FinalizeRows
  <2>2. run' \in [RunId -> Row \cup {NoRow}]
    BY <1>t DEF StoreTypeOK, RunId, Row, Snapshot, Time, NoRow
  <2>3. NoOrphanFingerprint' /\ NoDanglingRule'
    BY <1>9, <2>1, <2>2, RefreshKeeps DEF FinalizeSnapshotParts
  <2>4. FreshIds' /\ TokenNamesItsOwnRun'
    BY <1>9, <2>1, RowsKept, KeptRows DEF FinalizeSnapshotParts, StoreInv
  <2> QED BY <2>3, <2>4
<1>10. ASSUME NEW parts, NEW retired, CleanupSnapshotParts(parts, retired),
              lastId' = lastId, token' = token
       PROVE  FreshIds' /\ TokenNamesItsOwnRun' /\ NoOrphanFingerprint' /\ NoDanglingRule'
  BY <1>10, CleanupKeeps, KeptRows
<1>11. ASSUME NEW parts \in SUBSET Held, NEW retired \in SUBSET Held,
              \/ FinalizeFail(parts, retired)
              \/ FinalizeFailUnclean(parts, retired)
              \/ AbortSnapshotParts(parts)
       PROVE  FreshIds' /\ TokenNamesItsOwnRun' /\ NoOrphanFingerprint' /\ NoDanglingRule'
  BY <1>1, <1>10, <1>11 DEF FinalizeFail, FinalizeFailUnclean, AbortSnapshotParts
<1>12. CASE Prune
  <2>1. Running \in SUBSET RunId
    BY DEF Running
  <2> QED BY <1>2, <1>12, <2>1 DEF Prune
<1>13. CASE ProcessExit
  BY <1>1, <1>13 DEF ProcessExit
<1>14. CASE UNCHANGED storeVars
  BY <1>1, <1>14 DEF storeVars
<1> QED
  BY <1>3, <1>4, <1>6, <1>7, <1>8, <1>9, <1>11, <1>12, <1>13, <1>14 DEF StoreNext

\* The empty database satisfies the inductive invariant.
LEMMA StoreInvInit == StoreInit => StoreInv
<1> SUFFICES ASSUME StoreInit PROVE StoreInv
  OBVIOUS
<1>1. StoreTypeOK
  BY TypeInit
<1>2. FreshIds /\ Recorded(run) = {} /\ Held = {}
  BY DEF StoreInit, FreshIds, Recorded, Held, NoRow
<1>3. NoOrphanFingerprint
  BY <1>2 DEF StoreInit, NoOrphanFingerprint, Contents
<1>4. NoDanglingRule /\ TokenNamesItsOwnRun
  BY <1>2 DEF NoDanglingRule, TokenNamesItsOwnRun
<1> QED BY <1>1, <1>2, <1>3, <1>4 DEF StoreInv

\* The inductive invariant holds throughout.
THEOREM StoreInvariant == StoreSpec => []StoreInv
  BY StoreInvInit, StoreInvStep, PTL DEF StoreSpec

\* No fingerprint without a referent, and none missing, for every caller.
THEOREM NoOrphans == StoreSpec => []NoOrphanFingerprint
<1>1. StoreInv => NoOrphanFingerprint
  BY DEF StoreInv
<1> QED BY <1>1, StoreInvariant, PTL

\* No recorded finding references a rule that is gone, for every caller.
THEOREM NoDanglingRules == StoreSpec => []NoDanglingRule
<1>1. StoreInv => NoDanglingRule
  BY DEF StoreInv
<1> QED BY <1>1, StoreInvariant, PTL

\* A token never comes to name a run recorded after its own.
THEOREM TokensNameTheirRuns == StoreSpec => []TokenNamesItsOwnRun
<1>1. StoreInv => TokenNamesItsOwnRun
  BY DEF StoreInv
<1> QED BY <1>1, StoreInvariant, PTL

-----------------------------------------------------------------------------
(* What no step may do.                                                    *)

\* No call touches what a completed run recorded.
LEMMA HistoryStep ==
    ASSUME StoreInv, [StoreNext]_storeVars, NEW r \in Completed
    PROVE  run'[r].status = "completed" /\ Substance(run'[r]) = Substance(run[r])
<1>r. r \in RunId /\ run[r].status = "completed" /\ r \notin Running
  BY DEF Completed, Running
<1>1. CASE run'[r] = run[r]
  BY <1>r, <1>1 DEF Substance
<1>2. ASSUME SameRecord(run', r), run'[r].status = "completed",
             run'[r].snap.variant = run[r].snap.variant
      PROVE  run'[r].status = "completed" /\ Substance(run'[r]) = Substance(run[r])
  BY <1>2 DEF Substance, SameRecord
<1>3. ASSUME NEW gone \in SUBSET RunId, run' = WithoutRuns(gone), r \notin gone
      PROVE  run'[r] = run[r]
  BY <1>r, <1>3 DEF WithoutRuns
<1>4. CASE Tick \/ ProcessExit \/ UNCHANGED storeVars
  BY <1>1, <1>4 DEF Tick, ProcessExit, storeVars
<1>5. CASE OpenStore
  <2>1. Expired \in SUBSET RunId /\ r \notin Expired
    BY <1>r DEF Expired, Running
  <2> QED BY <1>1, <1>3, <1>5, <2>1 DEF OpenStore
<1>6. ASSUME NEW snap \in Offered, snap.hides \subseteq snap.rules,
             NEW status \in {"running", "completed"},
             NEW activate \in BOOLEAN, WriteSnapshot(snap, status, activate)
      PROVE  run'[r] = run[r]
  <2>1. run[NewRun] = NoRow /\ \A q \in RunId \ {NewRun} : run'[q] = run[q]
    BY <1>6, OfferedType, WriteKeeps DEF StoreInv
  <2>2. r # NewRun
    BY <1>r, <2>1 DEF NoRow
  <2> QED BY <1>r, <2>1, <2>2
<1>7. ASSUME NEW snap \in Offered, NEW pred \in RunId \cup {None},
             snap.hides \subseteq snap.rules,
             \/ RecordSnapshotWithPredecessor(snap, pred)
             \/ RecordSnapshotPartStaged(snap, pred)
      PROVE  run'[r] = run[r]
  BY <1>6, <1>7 DEF RecordSnapshotWithPredecessor, RecordSnapshotPartStaged
<1>8. ASSUME NEW q \in RunId, NEW R \in Policies, NEW st \in Started,
             ConfirmReusedRun(q, R, st, now)
      PROVE  run'[r].status = "completed" /\ Substance(run'[r]) = Substance(run[r])
  <2>1. st \in Time /\ now \in Time
    BY SnapshotAssumption DEF StoreInv, StoreTypeOK, Started, Time
  <2>2. /\ run'[r] = run[r] \/ SameRecord(run', r)
        /\ r \in Recorded(run) => run'[r].snap.variant = run[r].snap.variant
        /\ run'[r].status = "completed"
    BY <1>r, <1>8, <2>1, ConfirmRows
  <2>3. r \in Recorded(run)
    BY <1>r DEF Recorded
  <2> QED BY <1>1, <1>2, <2>2, <2>3
<1>9. ASSUME NEW q \in RunId, NEW by \in RunId \cup {None}, DiscardRun(q, by)
      PROVE  run'[r] = run[r]
  <2>1. {q} \in SUBSET RunId /\ r \notin {q}
    BY <1>r, <1>9 DEF DiscardRun
  <2> QED BY <1>3, <1>9, <2>1 DEF DiscardRun
<1>10. ASSUME NEW parts \in SUBSET Held, NEW retired \in SUBSET Held,
              FinalizeSnapshotParts(parts, retired)
       PROVE  run'[r].status = "completed" /\ Substance(run'[r]) = Substance(run[r])
  <2>1. /\ run'[r] = run[r] \/ SameRecord(run', r)
        /\ r \in Recorded(run) => run'[r].snap.variant = run[r].snap.variant
        /\ run'[r].status = "completed"
    BY <1>r, <1>10, FinalizeRows
  <2>2. r \in Recorded(run)
    BY <1>r DEF Recorded
  <2> QED BY <1>1, <1>2, <2>1, <2>2
<1>11. ASSUME NEW parts \in SUBSET Held, NEW retired \in SUBSET Held,
              \/ FinalizeFail(parts, retired)
              \/ FinalizeFailUnclean(parts, retired)
              \/ AbortSnapshotParts(parts)
       PROVE  run'[r] = run[r]
  <2>1. CASE FinalizeFailUnclean(parts, retired)
    BY <2>1 DEF FinalizeFailUnclean
  <2>2. CASE FinalizeFail(parts, retired)
    BY <1>r, <2>2, CleanupKeeps DEF FinalizeFail
  <2>3. CASE AbortSnapshotParts(parts)
    BY <1>r, <2>3, CleanupKeeps DEF AbortSnapshotParts
  <2> QED BY <1>11, <2>1, <2>2, <2>3
<1>12. CASE Prune
  <2>1. Running \in SUBSET RunId
    BY DEF Running
  <2> QED BY <1>r, <1>1, <1>3, <1>12, <2>1 DEF Prune
<1> QED
  BY <1>1, <1>4, <1>5, <1>7, <1>8, <1>9, <1>10, <1>11, <1>12 DEF StoreNext

\* Completed runs are history, for every caller.
THEOREM HistoryIsKept == StoreSpec => CompletedIsHistory
<1>1. StoreInv /\ [StoreNext]_storeVars
        => [\A r \in Completed :
              run'[r].status = "completed" /\ Substance(run'[r]) = Substance(run[r])]_storeVars
  BY HistoryStep
<1> QED BY <1>1, StoreInvariant, PTL DEF StoreSpec, CompletedIsHistory

\* A live partition's row disappears only in a call that releases it.
LEMMA LiveStep ==
    ASSUME StoreInv, [StoreNext]_storeVars, NEW r \in live \cap Running,
           run'[r].status = "none"
    PROVE  r \notin live'
<1>r. r \in RunId /\ r \in live /\ r \in Running /\ run[r].status = "running"
  BY DEF Running
<1>1. run'[r] # run[r]
  BY <1>r
<1>2. ~ (Tick \/ ProcessExit \/ UNCHANGED storeVars \/ Prune) \/ r \notin live'
  BY <1>r, <1>1 DEF Tick, ProcessExit, storeVars, Prune
<1>3. ~ OpenStore
  BY <1>r, <1>1 DEF OpenStore, WithoutRuns, Expired
<1>4. ASSUME NEW snap \in Offered, NEW pred \in RunId \cup {None},
             snap.hides \subseteq snap.rules,
             \/ RecordSnapshotWithPredecessor(snap, pred)
             \/ RecordSnapshotPartStaged(snap, pred)
      PROVE  FALSE
  <2>1. PICK status \in {"running", "completed"}, activate \in BOOLEAN :
           WriteSnapshot(snap, status, activate)
    BY <1>4 DEF RecordSnapshotWithPredecessor, RecordSnapshotPartStaged
  <2>2. /\ run[NewRun] = NoRow
        /\ \A q \in RunId \ {NewRun} : run'[q] = run[q]
    BY <1>4, <2>1, OfferedType, WriteKeeps DEF StoreInv
  <2>3. r # NewRun
    BY <1>r, <2>2 DEF NoRow
  <2> QED BY <1>r, <1>1, <2>2, <2>3
<1>5. ASSUME NEW q \in RunId, NEW R \in Policies, NEW st \in Started,
             ConfirmReusedRun(q, R, st, now)
      PROVE  FALSE
  <2>1. q \in Completed /\ q # r
    BY <1>r, <1>5 DEF ConfirmReusedRun, Completed
  <2> QED BY <1>r, <1>1, <1>5, <2>1 DEF ConfirmReusedRun, StoreInv, StoreTypeOK
<1>6. ASSUME NEW q \in RunId, NEW by \in RunId \cup {None}, DiscardRun(q, by)
      PROVE  r \notin live'
  BY <1>r, <1>1, <1>6 DEF DiscardRun, WithoutRuns
<1>7. ASSUME NEW parts \in SUBSET Held, NEW retired \in SUBSET Held,
             FinalizeSnapshotParts(parts, retired)
      PROVE  FALSE
  <2>1. r \in Recorded(run)
    BY <1>r DEF Recorded
  <2>2. r \in Recorded(run')
    BY <1>r, <1>7, <2>1, FinalizeRows
  <2> QED BY <2>2 DEF Recorded
<1>8. ASSUME NEW parts \in SUBSET Held, NEW retired \in SUBSET Held,
             \/ FinalizeFail(parts, retired)
             \/ FinalizeFailUnclean(parts, retired)
             \/ AbortSnapshotParts(parts)
      PROVE  r \notin live'
  <2>1. ~ FinalizeFailUnclean(parts, retired)
    BY <1>1 DEF FinalizeFailUnclean
  <2>2. CASE FinalizeFail(parts, retired)
    BY <1>r, <1>1, <2>2, CleanupKeeps DEF FinalizeFail
  <2>3. CASE AbortSnapshotParts(parts)
    BY <1>r, <1>1, <2>3, CleanupKeeps DEF AbortSnapshotParts
  <2> QED BY <1>8, <2>1, <2>2, <2>3
<1> QED
  BY <1>2, <1>3, <1>4, <1>5, <1>6, <1>7, <1>8 DEF StoreNext

\* Neither the reaper nor a prune takes a partition from a live invocation.
THEOREM LiveRunsAreKept == StoreSpec => LiveRunVanishesOnlyWhenReleased
<1>1. StoreInv /\ [StoreNext]_storeVars
        => [\A r \in live \cap Running :
              run'[r].status = "none" => r \notin live']_storeVars
  BY LiveStep
<1> QED BY <1>1, StoreInvariant, PTL DEF StoreSpec, LiveRunVanishesOnlyWhenReleased

=============================================================================
