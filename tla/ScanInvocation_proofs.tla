------------------------ MODULE ScanInvocation_proofs ------------------------
(***************************************************************************)
(* Proofs about the scan driver, for any number of scan processes, variants  *)
(* and plans.  Its calls are shown to be calls SnapshotStore lets a caller   *)
(* make, so the invariant proved there of every caller is part of the one    *)
(* here.                                                                     *)
(***************************************************************************)
EXTENDS ScanInvocation, SnapshotStore_proofs, WellFoundedInduction

(***************************************************************************)
(* The inductive invariant.                                                *)
(***************************************************************************)

\* The rows a scan has staged and neither discarded nor published.
Mine == parts \cup ({pending.part} \ {None})

\* The steps at which they are still wanted.
Staging == {"record", "write", "discard_open", "discard", "finalize_open", "finalize"}

\* Outside a scan nothing is held; in one the holder has read its start time,
\* reuse is pending at two steps, the loop is over before finalization, and the
\* tokens of reused partitions are tidied up only once the scan has published.
DriverInPlace ==
    /\ lease = Nobody <=> step = "idle"
    /\ \A p \in Procs : stamp[p] <= now
    /\ step = "idle" =>
          /\ live = {} /\ Held = {} /\ parts = {} /\ retired = {}
          /\ scan = NoScan
    /\ pending.part # None <=> step \in {"discard_open", "discard"}
    /\ pending.part # None => pending.by # None
    /\ todo \subseteq DOMAIN scan.plan
    /\ scan.plan = NoPlan => todo = {}
    /\ step \in {"finalize_open", "finalize"} => todo = {}
    /\ step \in {"tidy_open", "tidy"} => scan.plan = NoPlan

\* Staged and retired partitions are distinct, and all their tokens are held; a
\* retired one has no row and stands for a run; a staged one has a live row.
PartsInPlace ==
    /\ Mine \cup retired \subseteq Held
    /\ Mine \cap retired = {} /\ pending.part \notin parts
    /\ retired \cap Recorded(run) = {}
    /\ \A r \in retired : token[r].reused # None
    /\ step \in Staging => Mine \subseteq live \cap Running

\* Until a scan publishes, the tables differ from what it found only by its own
\* rows and by inactive rules its own staging created, which no other run needs.
TracesAreOwn ==
    scan.plan # NoPlan =>
        /\ Recorded(run) \subseteq before.runs \cup Mine
        /\ \A r \in Mine \cup retired : \A s \in token[r].created : before.rules[s] = "absent"
        /\ \A s \in Rules :
              \/ suppression[s] = before.rules[s]
              \/ /\ suppression[s] = "inactive" /\ before.rules[s] = "absent"
                 /\ \E r \in Mine \cup retired : s \in token[r].created
        /\ \A r \in Recorded(run) \ Mine : \A s \in run[r].snap.hides :
              before.rules[s] # "absent"

\* The driver's and the ghost variables are typed.
DriverTyped ==
    /\ stamp \in [Procs -> Time]
    /\ lease \in Procs \cup {Nobody}
    /\ step \in Step
    /\ scan \in [plan : Plans \cup {NoPlan}, whole : BOOLEAN, reuse : BOOLEAN]
    /\ todo \subseteq Variants
    /\ parts \subseteq Held /\ retired \subseteq Held
    /\ pending \in [part : RunId \cup {None}, by : RunId \cup {None}]
    /\ failed \in BOOLEAN
    /\ before \in [rules : [Rules -> {"absent", "inactive", "active"}], runs : SUBSET RunId]
    /\ cohort \in [RunId -> SUBSET RunId]

DriverInv ==
    /\ DriverTyped
    /\ DriverInPlace
    /\ PartsInPlace
    /\ TracesAreOwn
    /\ FailedScanLeavesNoTrace

ScanInv == StoreInv /\ DriverInv

(***************************************************************************)
(* The newest run exists.                                                  *)
(***************************************************************************)

\* Numbers that are there have a least one among them.
LEMMA LeastOfNats ==
    ASSUME NEW T \in SUBSET Nat, T # {}
    PROVE  \E x \in T : \A y \in T : x <= y
<1> DEFINE Less == OpToRel(<, Nat)
<1>1. IsWellFoundedOn(Less, Nat)
  BY NatLessThanWellFounded, Zenon
<1> HIDE DEF Less
<1>2. PICK x \in T : \A y \in T : ~ (<<y, x>> \in Less)
  BY <1>1, WFMin, Zenon
<1>3. ASSUME NEW y \in T, y < x PROVE <<y, x>> \in Less
  <2>1. <<y, x>> \in Nat \X Nat /\ <<y, x>>[1] < <<y, x>>[2]
    BY <1>3
  <2> QED BY <2>1 DEF Less, OpToRel
<1>4. \A y \in T : ~ (y < x)
  BY <1>2, <1>3
<1>5. \A y \in T : x <= y
  BY <1>4
<1> QED BY <1>5

\* SCAN_RUN_RECENCY orders the runs: of any completed ones, one is the newest.
LEMMA NewestExists ==
    ASSUME StoreTypeOK, NEW S \in SUBSET Completed, S # {}
    PROVE  /\ Newest(S) \in S /\ Newest(S) \in RunId
           /\ \A q \in S \ {Newest(S)} : Newer(Newest(S), q)
<1> DEFINE start(r) == run[r].snap.started
           ages == {MaxTime - start(r) : r \in S}
<1>1. \A r \in S : r \in RunId /\ r \in Nat /\ r <= MaxRun /\ start(r) \in Nat /\ start(r) <= MaxTime
  BY RecordedRow, SnapshotAssumption DEF Completed, Row, Snapshot, Time, RunId
<1>2. MaxTime \in Nat /\ MaxRun \in Nat
  BY SnapshotAssumption
<1> HIDE DEF start
<1>3. \A r \in S : MaxTime - start(r) \in Nat
  BY <1>1, <1>2
<1>4. ages \in SUBSET Nat /\ ages # {}
  BY <1>3
<1>5. PICK a \in ages : \A b \in ages : a <= b
  BY <1>4, LeastOfNats
<1>6. PICK last \in S : a = MaxTime - start(last)
  BY <1>5
<1>7. \A q \in S : start(q) <= start(last)
  <2>1. \A q \in S : MaxTime - start(last) <= MaxTime - start(q)
    BY <1>5, <1>6
  <2>2. ASSUME NEW q \in S PROVE start(q) <= start(last)
    <3>1. /\ start(q) \in Nat /\ start(last) \in Nat /\ MaxTime \in Nat
          /\ MaxTime - start(last) <= MaxTime - start(q)
      BY <1>1, <1>2, <2>1
    <3> QED BY <3>1
  <2> QED BY <2>2
<1> DEFINE latest == {r \in S : start(r) = start(last)}
           backs == {MaxRun - r : r \in latest}
<1>8. backs \in SUBSET Nat /\ backs # {}
  BY <1>1, <1>2
<1>9. PICK c \in backs : \A d \in backs : c <= d
  BY <1>8, LeastOfNats
<1>10. PICK top \in latest : c = MaxRun - top
  BY <1>9
<1>11. \A q \in latest : q <= top
  <2>1. \A q \in latest : MaxRun - top <= MaxRun - q
    BY <1>9, <1>10
  <2>2. ASSUME NEW q \in latest PROVE q <= top
    <3>1. q \in Nat /\ top \in Nat /\ MaxRun \in Nat /\ MaxRun - top <= MaxRun - q
      BY <1>1, <1>2, <2>1
    <3> QED BY <3>1
  <2> QED BY <2>2
<1>12. ASSUME NEW q \in S \ {top} PROVE Newer(top, q)
  <2>t. top \in S /\ start(top) = start(last) /\ q \in S /\ q # top
    BY <1>10
  <2>n. /\ start(q) \in Nat /\ start(top) \in Nat /\ q \in Nat /\ top \in Nat
        /\ start(q) <= start(top)
    BY <1>1, <1>7, <2>t
  <2>q. start(q) = start(top) => q <= top
    BY <1>11, <2>t
  <2>1. start(top) > start(q) \/ (start(top) = start(q) /\ top > q)
    BY <2>t, <2>n, <2>q
  <2> QED BY <2>1 DEF Newer, start
<1>13. \E r \in S : \A q \in S \ {r} : Newer(r, q)
  BY <1>10, <1>12
<1>14. Newest(S) \in S /\ \A q \in S \ {Newest(S)} : Newer(Newest(S), q)
  BY <1>13, Zenon DEF Newest
<1> QED BY <1>1, <1>14

\* The predecessor of a partition, and a run that may stand in for it, are runs.
LEMMA PredecessorType ==
    ASSUME StoreTypeOK, NEW v, NEW part
    PROVE  /\ Predecessor(v, part) \in RunId \cup {None}
           /\ Reusable(v, part) \in RunId \cup {None}
<1>1. Compatible(v, part) \subseteq Completed
  BY DEF Compatible
<1>2. Predecessor(v, part) \in RunId \cup {None}
  BY <1>1, NewestExists DEF Predecessor
<1> QED BY <1>2 DEF Reusable

(***************************************************************************)
(* A scan is a caller SnapshotStore admits.                                *)
(***************************************************************************)

\* What a planned partition consists of.
LEMMA PlannedPart ==
    ASSUME TypeOK, DriverInPlace, NEW v \in todo
    PROVE  /\ scan.plan \in Plans /\ v \in DOMAIN scan.plan /\ v \in Variants
           /\ scan.plan[v].tree \in Trees
           /\ scan.plan[v].rules \in Policies /\ scan.plan[v].rules \in SUBSET Rules
<1>1. scan.plan \in Plans
  BY DEF DriverInPlace, TypeOK
<1> QED BY <1>1, ScanAssumption, SnapshotAssumption DEF DriverInPlace

\* Its snapshot carries the scan's start time and the rules that hide something.
LEMMA PlannedSnapshot ==
    ASSUME TypeOK, DriverInPlace, lease # Nobody, NEW v \in todo,
           NEW part, part = scan.plan[v]
    PROVE  /\ SnapshotOf(v, part) \in Offered
           /\ SnapshotOf(v, part).hides \subseteq SnapshotOf(v, part).rules
           /\ SnapshotOf(v, part).rules = part.rules /\ SnapshotOf(v, part).variant = v
           /\ SnapshotOf(v, part).tree = part.tree
           /\ stamp[lease] \in Started /\ part.rules \in Policies
<1>1. lease \in Procs /\ stamp[lease] \in 0 .. now /\ now \in Time
  BY DEF TypeOK, StoreTypeOK, DriverInPlace, Time
<1>2. stamp[lease] \in Started
  <2>1. now <= MaxTime /\ MaxTime <= MaxScan /\ now \in Nat /\ MaxTime \in Nat
        /\ MaxScan \in Nat /\ stamp[lease] \in Nat
    BY <1>1, ScanAssumption, SnapshotAssumption DEF Time
  <2>2. now <= stamp[lease] + MaxScan
    BY <2>1
  <2> QED BY <1>1, <2>2 DEF Started
<1>3. /\ v \in Variants /\ part.tree \in Trees
      /\ part.rules \in Policies /\ part.rules \in SUBSET Rules
  BY PlannedPart
<1>4. {x \in part.rules : <<part.tree, x>> \in Matches} \in SUBSET Rules
  BY <1>3
<1> QED BY <1>2, <1>3, <1>4 DEF SnapshotOf, Offered

\* Each step of the driver is a step of the store that any caller may ask for.
LEMMA CallerStep ==
    ASSUME TypeOK, DriverInPlace, PartsInPlace, [Next]_vars
    PROVE  [StoreNext]_storeVars
<1>1. CASE \E p \in Procs : Start(p) \/ Acquire(p) \/ Refused(p)
  BY <1>1 DEF Start, Acquire, Refused, StoreNext
<1>2. CASE Finish \/ Crash
  BY <1>2 DEF Finish, Crash, End, StoreNext
<1>3. CASE TimePasses \/ CachePrune
  BY <1>3 DEF TimePasses, CachePrune, StoreNext
<1>4. CASE \/ AnalysisFails \/ RecordFails \/ DiscardFails \/ LoopDone \/ LastCallFails
  BY <1>4 DEF AnalysisFails, RecordFails, DiscardFails, LoopDone, LastCallFails, NoCall
<1>5. CASE RecordOpen \/ DiscardOpen \/ FinalizeOpen \/ CleanupOpen \/ TidyOpen
  BY <1>5 DEF RecordOpen, DiscardOpen, FinalizeOpen, CleanupOpen, TidyOpen, StoreNext
<1>6. step # "idle" => lease # Nobody
  BY DEF DriverInPlace
<1>7. CASE ReuseWhole
  <2>1. PICK v \in todo :
          ConfirmReusedRun(Reusable(v, scan.plan[v]), scan.plan[v].rules, stamp[lease], now)
    BY <1>7 DEF ReuseWhole
  <2>2. stamp[lease] \in Started /\ scan.plan[v].rules \in Policies
    BY <1>6, <1>7, PlannedSnapshot DEF ReuseWhole
  <2>3. Reusable(v, scan.plan[v]) \in RunId
    BY <2>1 DEF ConfirmReusedRun, Completed
  <2> QED BY <2>1, <2>2, <2>3 DEF StoreNext
<1>8. CASE WriteWhole
  <2>1. PICK v \in todo :
          RecordSnapshotWithPredecessor(SnapshotOf(v, scan.plan[v]), Predecessor(v, scan.plan[v]))
    BY <1>8 DEF WriteWhole
  <2> DEFINE snap == SnapshotOf(v, scan.plan[v])
             pred == Predecessor(v, scan.plan[v])
  <2>2. snap \in Offered /\ snap.hides \subseteq snap.rules
    BY <1>6, <1>8, PlannedSnapshot DEF WriteWhole
  <2>3. pred \in RunId \cup {None}
    BY PredecessorType DEF TypeOK
  <2>4. TakesId
    BY <2>1 DEF RecordSnapshotWithPredecessor, WriteSnapshot
  <2> HIDE DEF snap, pred
  <2>5. RecordSnapshotWithPredecessor(snap, pred)
    BY <2>1 DEF snap, pred
  <2> QED BY <2>2, <2>3, <2>4, <2>5 DEF StoreNext
<1>9. CASE Stage
  <2>1. PICK v \in todo :
          RecordSnapshotPartStaged(SnapshotOf(v, scan.plan[v]), Predecessor(v, scan.plan[v]))
    BY <1>9 DEF Stage
  <2> DEFINE snap == SnapshotOf(v, scan.plan[v])
             pred == Predecessor(v, scan.plan[v])
  <2>2. snap \in Offered /\ snap.hides \subseteq snap.rules
    BY <1>6, <1>9, PlannedSnapshot DEF Stage
  <2>3. pred \in RunId \cup {None}
    BY PredecessorType DEF TypeOK
  <2>4. TakesId
    BY <2>1 DEF RecordSnapshotPartStaged, WriteSnapshot
  <2> HIDE DEF snap, pred
  <2>5. RecordSnapshotPartStaged(snap, pred)
    BY <2>1 DEF snap, pred
  <2> QED BY <2>2, <2>3, <2>4, <2>5 DEF StoreNext
<1>10. CASE Discard
  <2>1. DiscardRun(pending.part, pending.by)
    BY <1>10 DEF Discard
  <2>2. pending.part \in RunId /\ pending.by \in RunId \cup {None}
    BY <1>10, <2>1 DEF DiscardRun, Running, TypeOK
  <2> QED BY <2>1, <2>2 DEF StoreNext
<1>11. parts \in SUBSET Held /\ retired \in SUBSET Held /\ parts \cup retired \in SUBSET Held
  BY DEF PartsInPlace, Mine
<1>12. CASE Finalize
  BY <1>11, <1>12 DEF Finalize, StoreNext
<1>13. CASE FinalizeFails
  BY <1>11, <1>13 DEF FinalizeFails, NoCall, StoreNext
<1>14. CASE Cleanup
  BY <1>11, <1>14 DEF Cleanup, StoreNext
<1>15. CASE Tidy
  BY <1>11, <1>15 DEF Tidy, StoreNext
<1>16. CASE UNCHANGED vars
  BY <1>16 DEF vars
<1> QED
  BY <1>1, <1>2, <1>3, <1>4, <1>5, <1>7, <1>8, <1>9, <1>10, <1>12, <1>13, <1>14, <1>15, <1>16
     DEF Next, Driver

(***************************************************************************)
(* What the store's calls do to the rows, the tokens and the live set.     *)
(***************************************************************************)

\* A token is told from the absence of one.
LEMMA TokensAreThere ==
    ASSUME NEW t \in Token
    PROVE  t # NoToken
  BY DEF Token, NoToken

\* Opening the store reaps no partition that is still live.
LEMMA OpenEffect ==
    ASSUME StoreInv, OpenStore
    PROVE  /\ Recorded(run') \subseteq Recorded(run)
           /\ \A r \in Recorded(run') : run'[r] = run[r]
           /\ live \cap Running \subseteq Running'
           /\ suppression' = suppression /\ live' = live /\ token' = token /\ now' = now
           /\ Held' = Held
<1>1. Expired \in SUBSET RunId
  BY DEF Expired, Running
<1>2. /\ Recorded(run') = Recorded(run) \ Expired
      /\ \A r \in RunId : r \notin Expired => run'[r] = run[r]
  BY <1>1, RemovalKeeps DEF OpenStore
<1>3. live \cap Running \subseteq Running'
  BY <1>2 DEF Running, Expired, RunId
<1>4. \A r \in Recorded(run') : run'[r] = run[r]
  BY <1>2 DEF Recorded
<1> QED BY <1>2, <1>3, <1>4 DEF OpenStore, Held, RunId

\* Staging gives the new row, live and running, an id nothing names yet.
LEMMA StageEffect ==
    ASSUME StoreInv, NEW snap \in Snapshot, snap.hides \subseteq snap.rules,
           NEW pred \in RunId \cup {None}, RecordSnapshotPartStaged(snap, pred)
    PROVE  /\ NewRun \in RunId /\ NewRun # None
           /\ NewRun \notin Recorded(run) /\ NewRun \notin Held
           /\ Recorded(run') = Recorded(run) \cup {NewRun}
           /\ \A r \in Recorded(run) : run'[r] = run[r]
           /\ Running' = Running \cup {NewRun}
           /\ live' = live \cup {NewRun} /\ now' = now
           /\ Held' = Held \cup {NewRun}
           /\ \A r \in Held : token'[r] = token[r]
           /\ token'[NewRun].created = {x \in snap.rules : suppression[x] = "absent"}
           /\ token'[NewRun].rules = snap.rules /\ token'[NewRun].started = snap.started
           /\ run'[NewRun].snap = snap
           /\ suppression' = WriteSuppressions(snap.rules, FALSE)
<1>1. WriteSnapshot(snap, "running", FALSE)
  BY DEF RecordSnapshotPartStaged
<1>2. /\ run[NewRun] = NoRow /\ token[NewRun] = NoToken
      /\ \A r \in RunId \ {NewRun} : run'[r] = run[r]
      /\ run'[NewRun] = [status |-> "running", snap |-> snap]
  BY <1>1, WriteKeeps
<1>3. NewRun \in RunId /\ NewRun # None
  BY <1>1, SnapshotAssumption
     DEF WriteSnapshot, TakesId, NewRun, RunId, None, StoreInv, StoreTypeOK
<1>4. NewRun \notin Recorded(run) /\ NewRun \notin Held
  BY <1>2 DEF Recorded, Held, NoRow
<1>5. Recorded(run') = Recorded(run) \cup {NewRun}
  BY <1>2, <1>3 DEF Recorded
<1>6. Running' = Running \cup {NewRun}
  BY <1>2, <1>3 DEF Running, RunId, NoRow
<1> DEFINE tok == [rules |-> snap.rules,
                   created |-> {x \in snap.rules : suppression[x] = "absent"},
                   predecessor |-> pred, started |-> snap.started,
                   finished |-> snap.finished, reused |-> None]
<1>7. tok \in Token
  BY DEF Token, Snapshot
<1>8. token' = [token EXCEPT ![NewRun] = tok] /\ token \in [RunId -> Token \cup {NoToken}]
  BY DEF RecordSnapshotPartStaged, StoreInv, StoreTypeOK
<1>9. /\ tok # NoToken /\ tok.created = {x \in snap.rules : suppression[x] = "absent"}
      /\ tok.rules = snap.rules /\ tok.started = snap.started
  BY <1>7, TokensAreThere
<1> HIDE DEF tok
<1>10. token'[NewRun] = tok /\ \A r \in RunId \ {NewRun} : token'[r] = token[r]
  BY <1>3, <1>8
<1>11. Held' = Held \cup {NewRun}
  BY <1>3, <1>9, <1>10 DEF Held, RunId
<1>12. \A r \in Held : token'[r] = token[r]
  BY <1>4, <1>10 DEF Held
<1>13. \A r \in Recorded(run) : run'[r] = run[r]
  BY <1>2, <1>4 DEF Recorded
<1>14. suppression' = WriteSuppressions(snap.rules, FALSE)
  BY <1>1 DEF WriteSnapshot
<1>15. run'[NewRun].snap = snap
  BY <1>2
<1> QED BY <1>3, <1>4, <1>5, <1>6, <1>9, <1>10, <1>11, <1>12, <1>13, <1>14, <1>15
        DEF RecordSnapshotPartStaged

\* Discarding a partition for a run to reuse leaves its token, naming that run.
LEMMA DiscardEffect ==
    ASSUME StoreInv, NEW r \in Held, NEW by \in RunId, by # None, DiscardRun(r, by)
    PROVE  /\ Recorded(run') = Recorded(run) \ {r}
           /\ \A q \in Recorded(run') : run'[q] = run[q]
           /\ Running' = Running \ {r} /\ live' = live \ {r}
           /\ Held' = Held
           /\ token'[r].reused = by
           /\ \A q \in Held : /\ token'[q].created = token[q].created
                             /\ token'[q].rules = token[q].rules
                             /\ token'[q].started = token[q].started
           /\ \A q \in Held \ {r} : token'[q] = token[q]
           /\ suppression' = suppression /\ now' = now
<1>1. r \in RunId /\ token[r] # NoToken /\ token[r] \in Token
  BY HeldToken DEF Held, StoreInv
<1>2. /\ Recorded(run') = Recorded(run) \ {r}
      /\ \A q \in RunId : q # r => run'[q] = run[q]
      /\ run'[r] = NoRow
  BY <1>1, RemovalKeeps DEF DiscardRun
<1>3. Running' = Running \ {r}
  BY <1>2 DEF Running, RunId, NoRow
<1>4. \A q \in Recorded(run') : run'[q] = run[q]
  BY <1>2 DEF Recorded
<1>5. [token[r] EXCEPT !.reused = by] \in Token
  BY <1>1 DEF Token
<1>6. [token[r] EXCEPT !.reused = by] # NoToken
  BY <1>5, TokensAreThere
<1>7. /\ [token[r] EXCEPT !.reused = by].reused = by
      /\ [token[r] EXCEPT !.reused = by].created = token[r].created
      /\ [token[r] EXCEPT !.reused = by].rules = token[r].rules
      /\ [token[r] EXCEPT !.reused = by].started = token[r].started
  BY <1>1 DEF Token
<1>8. token \in [RunId -> Token \cup {NoToken}]
  BY DEF StoreInv, StoreTypeOK
<1>9. token' = [token EXCEPT ![r] = [token[r] EXCEPT !.reused = by]]
  BY <1>1 DEF DiscardRun
<1> DEFINE tok == [token[r] EXCEPT !.reused = by]
<1> HIDE DEF tok
<1>10. token'[r] = tok /\ \A q \in RunId \ {r} : token'[q] = token[q]
  BY <1>1, <1>8, <1>9 DEF tok
<1>11. /\ tok # NoToken /\ tok.reused = by /\ tok.created = token[r].created
       /\ tok.rules = token[r].rules /\ tok.started = token[r].started
  BY <1>6, <1>7 DEF tok
<1>12. Held' = Held
  BY <1>1, <1>10, <1>11 DEF Held, RunId
<1>13. \A q \in Held : /\ token'[q].created = token[q].created
                      /\ token'[q].rules = token[q].rules
                      /\ token'[q].started = token[q].started
  BY <1>10, <1>11 DEF Held
<1>14. \A q \in Held \ {r} : token'[q] = token[q]
  BY <1>10 DEF Held
<1> QED BY <1>2, <1>3, <1>4, <1>10, <1>11, <1>12, <1>13, <1>14 DEF DiscardRun

\* Cleaning up removes the running rows of the partitions and nothing else.
LEMMA CleanupEffect ==
    ASSUME StoreInv, NEW ps, NEW rs, CleanupSnapshotParts(ps, rs)
    PROVE  /\ Recorded(run') = Recorded(run) \ (ps \cap Running)
           /\ \A q \in Recorded(run') : run'[q] = run[q]
           /\ suppression' = CleanupStagedSuppressions(ps \cup rs, run')
<1>1. ps \cap Running \in SUBSET RunId
  BY DEF Running
<1>2. /\ Recorded(run') = Recorded(run) \ (ps \cap Running)
      /\ \A r \in RunId : r \notin ps \cap Running => run'[r] = run[r]
  BY <1>1, RemovalKeeps DEF CleanupSnapshotParts
<1>3. \A q \in Recorded(run') : run'[q] = run[q]
  BY <1>2 DEF Recorded
<1> QED BY <1>2, <1>3 DEF CleanupSnapshotParts

(***************************************************************************)
(* The driver's own invariant, one lemma for each kind of step.            *)
(***************************************************************************)

\* A step that adds no row, gives up no token and writes no rule leaves the
\* scan's traces its own.
LEMMA TracesKept ==
    ASSUME TracesAreOwn, scan'.plan = scan.plan, before' = before, suppression' = suppression,
           Mine' \cup retired' = Mine \cup retired,
           \A r \in Mine \cup retired : token'[r].created = token[r].created,
           Recorded(run') \ Mine' \subseteq Recorded(run) \ Mine,
           \A r \in Recorded(run') : run'[r] = run[r]
    PROVE  TracesAreOwn'
<1> SUFFICES ASSUME scan.plan # NoPlan
             PROVE  /\ Recorded(run') \subseteq before.runs \cup Mine'
                    /\ \A r \in Mine' \cup retired' : \A x \in token'[r].created :
                          before.rules[x] = "absent"
                    /\ \A x \in Rules :
                          \/ suppression[x] = before.rules[x]
                          \/ /\ suppression[x] = "inactive" /\ before.rules[x] = "absent"
                             /\ \E r \in Mine' \cup retired' : x \in token'[r].created
                    /\ \A r \in Recorded(run') \ Mine' : \A x \in run'[r].snap.hides :
                          before.rules[x] # "absent"
  BY DEF TracesAreOwn
<1>1. Recorded(run') \subseteq before.runs \cup Mine'
  BY DEF TracesAreOwn
<1>2. \A r \in Mine' \cup retired' : \A x \in token'[r].created : before.rules[x] = "absent"
  BY DEF TracesAreOwn
<1>3. \A x \in Rules :
          \/ suppression[x] = before.rules[x]
          \/ /\ suppression[x] = "inactive" /\ before.rules[x] = "absent"
             /\ \E r \in Mine' \cup retired' : x \in token'[r].created
  BY DEF TracesAreOwn
<1>4. \A r \in Recorded(run') \ Mine' : \A x \in run'[r].snap.hides : before.rules[x] # "absent"
  BY DEF TracesAreOwn
<1> QED BY <1>1, <1>2, <1>3, <1>4

\* Cleaning up takes rows and rules of the scan's own away, and no others.
LEMMA TracesCleaned ==
    ASSUME StoreInv, TracesAreOwn, CleanupSnapshotParts(parts, retired)
             \/ CleanupSnapshotParts(parts \cup retired, {}),
           pending.part = None, scan'.plan = scan.plan, before' = before, token' = token,
           parts' = parts, retired' = retired, pending' = pending
    PROVE  TracesAreOwn'
<1>1. Mine = parts /\ Mine' = parts
  BY DEF Mine
<1>2. /\ Recorded(run') \subseteq Recorded(run)
      /\ \A q \in Recorded(run') : run'[q] = run[q]
      /\ suppression' = CleanupStagedSuppressions(parts \cup retired, run')
  <2>1. CASE CleanupSnapshotParts(parts, retired)
    BY <2>1, CleanupEffect
  <2>2. CASE CleanupSnapshotParts(parts \cup retired, {})
    <3>1. parts \cup retired \cup {} = parts \cup retired
      OBVIOUS
    <3> QED BY <2>2, <3>1, CleanupEffect
  <2> QED BY <2>1, <2>2
<1> SUFFICES ASSUME scan.plan # NoPlan
             PROVE  /\ Recorded(run') \subseteq before.runs \cup parts
                    /\ \A r \in parts \cup retired : \A x \in token[r].created :
                          before.rules[x] = "absent"
                    /\ \A x \in Rules :
                          \/ suppression'[x] = before.rules[x]
                          \/ /\ suppression'[x] = "inactive" /\ before.rules[x] = "absent"
                             /\ \E r \in parts \cup retired : x \in token[r].created
                    /\ \A r \in Recorded(run') \ parts : \A x \in run'[r].snap.hides :
                          before.rules[x] # "absent"
  BY <1>1 DEF TracesAreOwn
<1>3. Recorded(run') \subseteq before.runs \cup parts
  BY <1>1, <1>2 DEF TracesAreOwn
<1>4. \A r \in parts \cup retired : \A x \in token[r].created : before.rules[x] = "absent"
  BY <1>1 DEF TracesAreOwn
<1>5. ASSUME NEW x \in Rules
      PROVE  \/ suppression'[x] = before.rules[x]
             \/ /\ suppression'[x] = "inactive" /\ before.rules[x] = "absent"
                /\ \E r \in parts \cup retired : x \in token[r].created
  <2>1. \/ suppression'[x] = suppression[x]
        \/ /\ \E r \in parts \cup retired : x \in token[r].created
           /\ suppression'[x] = "absent"
    BY <1>2 DEF CleanupStagedSuppressions
  <2>2. \/ suppression[x] = before.rules[x]
        \/ /\ suppression[x] = "inactive" /\ before.rules[x] = "absent"
           /\ \E r \in parts \cup retired : x \in token[r].created
    BY <1>1 DEF TracesAreOwn
  <2> QED BY <1>4, <2>1, <2>2
<1>6. \A r \in Recorded(run') \ parts : \A x \in run'[r].snap.hides : before.rules[x] # "absent"
  BY <1>1, <1>2 DEF TracesAreOwn
<1> QED BY <1>3, <1>4, <1>5, <1>6

\* No call is made, or one is refused, cannot be made or dies half way.
LEMMA QuietStep ==
    ASSUME ScanInv, NoCall,
           \/ AnalysisFails \/ RecordFails \/ DiscardFails \/ LoopDone \/ LastCallFails
           \/ FinalizeFails
    PROVE  DriverInv'
<1>1. UNCHANGED <<storeVars, stamp, lease, scan, before, cohort>>
  BY DEF AnalysisFails, RecordFails, DiscardFails, LoopDone, LastCallFails, FinalizeFails,
         NoCall, Unmoved
<1>2. Mine' = Mine /\ retired' = retired
  <2>1. CASE DiscardFails
    <3>1. /\ parts' = parts \cup {pending.part} /\ pending' = NoPending /\ retired' = retired
          /\ pending.part # None
      BY <2>1 DEF DiscardFails, ScanInv, DriverInv, DriverInPlace
    <3>2. pending'.part = None
      BY <3>1 DEF NoPending
    <3> QED BY <3>1, <3>2 DEF Mine
  <2>2. CASE AnalysisFails \/ RecordFails \/ LoopDone \/ LastCallFails \/ FinalizeFails
    BY <2>2 DEF AnalysisFails, RecordFails, LoopDone, LastCallFails, FinalizeFails, Mine
  <2> QED BY <2>1, <2>2
<1>3. /\ step \in Step \ {"idle", "done", "unclean"} /\ step' \in Step \ {"idle"}
      /\ step' \in Staging => step \in Staging
      /\ step' \notin {"tidy_open", "tidy", "discard_open", "discard"}
      /\ step' \in {"finalize_open", "finalize"} => todo' = {}
      /\ todo' \subseteq todo
  BY DEF AnalysisFails, RecordFails, DiscardFails, LoopDone, LastCallFails, FinalizeFails,
         Goto, Step, Staging
<1>4. pending' \in [part : RunId \cup {None}, by : RunId \cup {None}] /\ pending'.part = None
  <2>1. CASE DiscardFails
    BY <2>1 DEF DiscardFails, NoPending
  <2>2. CASE AnalysisFails \/ RecordFails \/ LoopDone \/ LastCallFails \/ FinalizeFails
    <3>1. step \notin {"discard_open", "discard"} /\ pending' = pending
      BY <2>2 DEF AnalysisFails, RecordFails, LoopDone, LastCallFails, FinalizeFails
    <3> QED BY <3>1 DEF ScanInv, DriverInv, DriverTyped, DriverInPlace
  <2> QED BY <2>1, <2>2
<1>5. failed' \in BOOLEAN
  BY DEF AnalysisFails, RecordFails, DiscardFails, LoopDone, LastCallFails, FinalizeFails,
         ScanInv, DriverInv, DriverTyped
<1>6. Held' = Held /\ Running' = Running
  BY <1>1 DEF storeVars, Held, Running
<1>7. PartsInPlace'
  <2>1. parts' \subseteq Mine \cup retired
    BY <1>2 DEF Mine
  <2>2. pending'.part \notin parts'
    BY <1>4, <2>1 DEF ScanInv, DriverInv, PartsInPlace, Held, RunId, None
  <2>3. Recorded(run') = Recorded(run) /\ token' = token /\ live' = live
    BY <1>1 DEF storeVars
  <2> QED BY <1>2, <1>3, <1>6, <2>2, <2>3 DEF ScanInv, DriverInv, PartsInPlace
<1>8. DriverTyped'
  BY <1>1, <1>2, <1>3, <1>4, <1>5, <1>6 DEF ScanInv, DriverInv, DriverTyped, PartsInPlace, Mine
<1>9. DriverInPlace'
  BY <1>1, <1>3, <1>4 DEF ScanInv, DriverInv, DriverInPlace, storeVars
<1>10. TracesAreOwn'
  BY <1>1, <1>2, TracesKept DEF ScanInv, DriverInv, storeVars
<1>11. FailedScanLeavesNoTrace'
  <2> SUFFICES ASSUME step' = "done", scan'.plan # NoPlan
               PROVE  suppression' = before'.rules /\ Recorded(run') \subseteq before'.runs
    BY DEF FailedScanLeavesNoTrace
  <2>1. LoopDone /\ parts = {} /\ retired = {} /\ step = "record"
    BY DEF AnalysisFails, RecordFails, DiscardFails, LoopDone, LastCallFails, FinalizeFails, Goto
  <2>2. Mine = {} /\ Mine' = {} /\ retired' = {}
    BY <1>2, <2>1 DEF Mine, ScanInv, DriverInv, DriverInPlace
  <2>3. /\ Recorded(run') \subseteq before'.runs
        /\ \A x \in Rules : suppression'[x] = before'.rules[x]
    BY <1>10, <2>2 DEF TracesAreOwn
  <2> QED BY <1>1, <2>3 DEF storeVars, ScanInv, DriverInv, DriverTyped, StoreInv, StoreTypeOK
<1> QED BY <1>7, <1>8, <1>9, <1>10, <1>11 DEF DriverInv

\* The driver opens the store before each of its calls.
LEMMA OpenStep ==
    ASSUME ScanInv, RecordOpen \/ DiscardOpen \/ FinalizeOpen \/ CleanupOpen \/ TidyOpen
    PROVE  DriverInv'
<1>1. /\ OpenStore
      /\ UNCHANGED <<stamp, lease, scan, before, todo, parts, retired, pending, failed, cohort>>
      /\ step \in Step \ {"idle", "done", "unclean"} /\ step' \in Step \ {"idle", "done"}
      /\ step' \in Staging => step \in Staging
      /\ step' \in {"discard_open", "discard"} <=> step \in {"discard_open", "discard"}
      /\ step' \in {"finalize_open", "finalize"} <=> step \in {"finalize_open", "finalize"}
      /\ step' \in {"tidy_open", "tidy"} <=> step \in {"tidy_open", "tidy"}
  BY DEF RecordOpen, DiscardOpen, FinalizeOpen, CleanupOpen, TidyOpen, Unmoved, Goto, Step, Staging
<1>2. /\ Recorded(run') \subseteq Recorded(run)
      /\ \A r \in Recorded(run') : run'[r] = run[r]
      /\ live \cap Running \subseteq Running'
      /\ suppression' = suppression /\ live' = live /\ token' = token /\ now' = now
      /\ Held' = Held
  BY <1>1, OpenEffect DEF ScanInv
<1>3. Mine' = Mine
  BY <1>1 DEF Mine
<1>4. DriverTyped'
  BY <1>1, <1>2 DEF ScanInv, DriverInv, DriverTyped
<1>5. DriverInPlace'
  BY <1>1, <1>2 DEF ScanInv, DriverInv, DriverInPlace
<1>6. PartsInPlace'
  BY <1>1, <1>2, <1>3 DEF ScanInv, DriverInv, PartsInPlace
<1>7. TracesAreOwn'
  BY <1>1, <1>2, <1>3, TracesKept DEF ScanInv, DriverInv
<1>8. FailedScanLeavesNoTrace'
  BY <1>1 DEF FailedScanLeavesNoTrace
<1> QED BY <1>4, <1>5, <1>6, <1>7, <1>8 DEF DriverInv

\* A whole tree is published in one call: nothing is staged before or after.
LEMMA WholeStep ==
    ASSUME ScanInv, ReuseWhole \/ WriteWhole
    PROVE  DriverInv'
<1>1. /\ UNCHANGED <<stamp, lease, parts, retired, pending, failed, before, live, token, now>>
      /\ todo' = {} /\ scan' = [scan EXCEPT !.plan = NoPlan]
      /\ step = "write" /\ step' = "record"
  BY DEF ReuseWhole, WriteWhole, ConfirmReusedRun, RecordSnapshotWithPredecessor, Goto
<1>2. \E runs \in SUBSET RunId : cohort' = Published(runs)
  <2>1. CASE ReuseWhole
    <3>1. PICK v \in todo : /\ ConfirmReusedRun(Reusable(v, scan.plan[v]), scan.plan[v].rules,
                                                stamp[lease], now)
                            /\ cohort' = Published({Reusable(v, scan.plan[v])})
      BY <2>1 DEF ReuseWhole
    <3>2. Reusable(v, scan.plan[v]) \in RunId
      BY <3>1 DEF ConfirmReusedRun, Completed
    <3> QED BY <3>1, <3>2
  <2>2. CASE WriteWhole
    <3>1. cohort' = Published({NewRun}) /\ TakesId
      BY <2>2 DEF WriteWhole, RecordSnapshotWithPredecessor, WriteSnapshot
    <3>2. NewRun \in RunId
      BY <3>1, SnapshotAssumption DEF TakesId, NewRun, RunId, ScanInv, StoreInv, StoreTypeOK
    <3> QED BY <3>1, <3>2
  <2> QED BY <2>1, <2>2
<1>3. cohort' \in [RunId -> SUBSET RunId]
  BY <1>2 DEF Published, ScanInv, DriverInv, DriverTyped
<1>4. pending.part = None /\ parts \cup retired \subseteq Held /\ parts \subseteq live \cap Running
  BY <1>1 DEF ScanInv, DriverInv, DriverInPlace, PartsInPlace, Mine, Staging
<1>5. Held' = Held /\ Mine' = parts /\ Mine = parts
  BY <1>1, <1>4 DEF Held, Mine
<1>6. Recorded(run') \cap Held \subseteq Recorded(run) /\ Running \subseteq Running'
  <2>1. CASE ReuseWhole
    <3>1. PICK v \in todo : ConfirmReusedRun(Reusable(v, scan.plan[v]), scan.plan[v].rules,
                                                stamp[lease], now)
      BY <2>1 DEF ReuseWhole
    <3> DEFINE by == Reusable(v, scan.plan[v])
    <3> HIDE DEF by
    <3>2. by \in Completed /\ \A r \in RunId \ {by} : run'[r] = run[r]
      BY <3>1 DEF by, ConfirmReusedRun, ScanInv, StoreInv, StoreTypeOK
    <3> QED BY <3>2 DEF Completed, Recorded, Running
  <2>2. CASE WriteWhole
    <3>1. TakesId /\ \E row : run' = [run EXCEPT ![NewRun] = row]
      BY <2>2 DEF WriteWhole, RecordSnapshotWithPredecessor, WriteSnapshot
    <3>2. NewRun \in RunId /\ NewRun > lastId
      BY <3>1, SnapshotAssumption DEF TakesId, NewRun, RunId, ScanInv, StoreInv, StoreTypeOK
    <3>3. run[NewRun] = NoRow /\ token[NewRun] = NoToken
      BY <3>2 DEF ScanInv, StoreInv, FreshIds
    <3>4. \A r \in RunId \ {NewRun} : run'[r] = run[r]
      BY <3>1 DEF ScanInv, StoreInv, StoreTypeOK
    <3> QED BY <3>3, <3>4 DEF Held, Recorded, Running, NoRow
  <2> QED BY <2>1, <2>2
<1>7. DriverTyped'
  BY <1>1, <1>3, <1>5 DEF ScanInv, DriverInv, DriverTyped, Step
<1>8. DriverInPlace'
  <2>1. scan'.plan = NoPlan
    BY <1>1 DEF ScanInv, DriverInv, DriverTyped
  <2> QED BY <1>1, <2>1 DEF ScanInv, DriverInv, DriverInPlace
<1>9. PartsInPlace'
  <2>1. retired \cap Recorded(run') = {}
    BY <1>4, <1>6 DEF ScanInv, DriverInv, PartsInPlace
  <2>2. parts \subseteq live \cap Running'
    BY <1>4, <1>6
  <2> QED BY <1>1, <1>5, <2>1, <2>2 DEF ScanInv, DriverInv, PartsInPlace
<1>10. TracesAreOwn' /\ FailedScanLeavesNoTrace'
  BY <1>1 DEF TracesAreOwn, FailedScanLeavesNoTrace, ScanInv, DriverInv, DriverTyped
<1> QED BY <1>7, <1>8, <1>9, <1>10 DEF DriverInv

\* A staged partition is the scan's own, row, token and rules.
LEMMA StageStep ==
    ASSUME ScanInv, Stage
    PROVE  DriverInv'
<1>1. PICK v \in todo :
        /\ RecordSnapshotPartStaged(SnapshotOf(v, scan.plan[v]), Predecessor(v, scan.plan[v]))
        /\ todo' = todo \ {v}
        /\ \/ /\ Reusable(v, scan.plan[v]) # None
              /\ pending' = [part |-> NewRun, by |-> Reusable(v, scan.plan[v])]
              /\ parts' = parts /\ step' = "discard_open"
           \/ /\ parts' = parts \cup {NewRun} /\ pending' = NoPending /\ step' = "record"
  BY DEF Stage, Goto
<1> DEFINE snap == SnapshotOf(v, scan.plan[v])
           pred == Predecessor(v, scan.plan[v])
           by == Reusable(v, scan.plan[v])
<1>2. /\ UNCHANGED <<stamp, lease, scan, before, retired, failed, cohort>>
      /\ step = "write" /\ scan.plan # NoPlan
  BY DEF Stage, Unmoved, ScanInv, DriverInv, DriverInPlace
<1>t. TypeOK /\ StoreTypeOK
  BY DEF ScanInv, StoreInv, DriverInv, DriverTyped, TypeOK
<1>3. /\ snap \in Snapshot /\ snap.hides \subseteq snap.rules
      /\ snap.rules \in SUBSET Rules
  <2>1. snap \in Offered /\ snap.hides \subseteq snap.rules
    BY <1>t, <1>2, PlannedSnapshot DEF ScanInv, DriverInv, DriverInPlace
  <2>2. snap \in Snapshot
    BY <1>t, <2>1, OfferedType
  <2> QED BY <2>1, <2>2 DEF Snapshot
<1>4. pred \in RunId \cup {None} /\ by \in RunId \cup {None}
  BY <1>t, PredecessorType
<1> HIDE DEF snap, pred, by
<1>5. RecordSnapshotPartStaged(snap, pred)
  BY <1>1 DEF snap, pred
<1>6. /\ NewRun \in RunId /\ NewRun # None
      /\ NewRun \notin Recorded(run) /\ NewRun \notin Held
      /\ Recorded(run') = Recorded(run) \cup {NewRun}
      /\ \A r \in Recorded(run) : run'[r] = run[r]
      /\ Running' = Running \cup {NewRun}
      /\ live' = live \cup {NewRun} /\ now' = now
      /\ Held' = Held \cup {NewRun}
      /\ \A r \in Held : token'[r] = token[r]
      /\ token'[NewRun].created = {x \in snap.rules : suppression[x] = "absent"}
      /\ suppression' = WriteSuppressions(snap.rules, FALSE)
  BY <1>3, <1>4, <1>5, StageEffect DEF ScanInv
<1> DEFINE new == NewRun
<1> HIDE DEF new
<1>7. pending.part = None /\ Mine = parts
  BY <1>2 DEF ScanInv, DriverInv, DriverInPlace, Mine
<1>8. /\ \/ by # None /\ pending' = [part |-> new, by |-> by] /\ parts' = parts
            /\ step' = "discard_open"
         \/ parts' = parts \cup {new} /\ pending' = NoPending /\ step' = "record"
      /\ new \in RunId /\ new # None /\ new \notin Recorded(run) /\ new \notin Held
      /\ Recorded(run') = Recorded(run) \cup {new} /\ Running' = Running \cup {new}
      /\ live' = live \cup {new} /\ Held' = Held \cup {new}
      /\ token'[new].created = {x \in snap.rules : suppression[x] = "absent"}
  BY <1>1, <1>6 DEF new, by
<1>9. Mine' = Mine \cup {new} /\ pending'.part \notin parts' /\ Mine \cup retired \subseteq Held
  <2>1. Mine \cup retired \subseteq Held /\ parts \subseteq Held
    BY <1>7 DEF ScanInv, DriverInv, PartsInPlace
  <2>2. CASE pending' = [part |-> new, by |-> by] /\ parts' = parts
    BY <1>7, <1>8, <2>1, <2>2 DEF Mine
  <2>3. CASE parts' = parts \cup {new} /\ pending' = NoPending
    <3>1. pending'.part = None /\ None \notin Held
      BY <2>3 DEF NoPending, Held, RunId, None
    <3> QED BY <1>7, <1>8, <2>1, <2>3, <3>1 DEF Mine
  <2> QED BY <1>8, <2>1, <2>2, <2>3
<1>10. DriverTyped'
  <2>1. pending' \in [part : RunId \cup {None}, by : RunId \cup {None}]
    BY <1>4, <1>8 DEF NoPending
  <2>2. todo' \subseteq Variants /\ step' \in Step
    BY <1>1, <1>8 DEF ScanInv, DriverInv, DriverTyped, Step
  <2>3. parts' \subseteq Held' /\ retired' \subseteq Held'
    BY <1>2, <1>8 DEF ScanInv, DriverInv, DriverTyped
  <2> QED BY <1>2, <2>1, <2>2, <2>3 DEF ScanInv, DriverInv, DriverTyped
<1>11. DriverInPlace'
  <2>1. /\ pending'.part # None <=> step' \in {"discard_open", "discard"}
        /\ pending'.part # None => pending'.by # None
        /\ step' \in {"discard_open", "record"}
    BY <1>8 DEF NoPending
  <2>2. now' = now /\ todo' \subseteq todo
    BY <1>1, <1>6
  <2> QED BY <1>2, <2>1, <2>2 DEF ScanInv, DriverInv, DriverInPlace
<1>12. PartsInPlace'
  <2>1. /\ Mine' \cup retired' \subseteq Held'
        /\ Mine' \cap retired' = {}
        /\ retired' \cap Recorded(run') = {}
    BY <1>2, <1>8, <1>9 DEF ScanInv, DriverInv, PartsInPlace
  <2>2. \A r \in retired' : token'[r].reused # None
    BY <1>2, <1>6, <1>9 DEF ScanInv, DriverInv, PartsInPlace
  <2>3. Mine' \subseteq live' \cap Running'
    BY <1>2, <1>8, <1>9 DEF ScanInv, DriverInv, PartsInPlace, Staging
  <2> QED BY <1>9, <2>1, <2>2, <2>3 DEF PartsInPlace
<1>13. TracesAreOwn'
  <2> DEFINE R == Mine \cup retired
  <2>1. Mine' \cup retired' = R \cup {new}
    BY <1>2, <1>9
  <2>2. /\ Recorded(run) \subseteq before.runs \cup Mine
        /\ \A r \in R : \A x \in token[r].created : before.rules[x] = "absent"
        /\ \A x \in Rules :
              \/ suppression[x] = before.rules[x]
              \/ /\ suppression[x] = "inactive" /\ before.rules[x] = "absent"
                 /\ \E r \in R : x \in token[r].created
        /\ \A r \in Recorded(run) \ Mine : \A x \in run[r].snap.hides : before.rules[x] # "absent"
    BY <1>2 DEF ScanInv, DriverInv, TracesAreOwn
  <2>3. R \subseteq Held /\ \A r \in R : token'[r] = token[r]
    BY <1>6, <1>9
  <2> HIDE DEF R
  <2>4. ASSUME NEW r \in R \cup {new}, NEW x \in token'[r].created
        PROVE  before.rules[x] = "absent"
    <3>1. CASE r \in R
      BY <2>2, <2>3, <2>4, <3>1
    <3>2. CASE r = new
      <4>1. x \in Rules /\ suppression[x] = "absent"
        BY <1>3, <1>8, <2>4, <3>2
      <4> QED BY <2>2, <4>1
    <3> QED BY <3>1, <3>2, <2>4
  <2>5. ASSUME NEW x \in Rules
        PROVE  \/ suppression'[x] = before.rules[x]
               \/ /\ suppression'[x] = "inactive" /\ before.rules[x] = "absent"
                  /\ \E r \in R \cup {new} : x \in token'[r].created
    <3>1. \/ suppression'[x] = suppression[x]
          \/ x \in snap.rules /\ suppression[x] = "absent" /\ suppression'[x] = "inactive"
      BY <1>6 DEF WriteSuppressions
    <3>2. CASE suppression'[x] = suppression[x]
      BY <2>2, <2>3, <3>2
    <3>3. CASE x \in snap.rules /\ suppression[x] = "absent" /\ suppression'[x] = "inactive"
      <4>1. x \in token'[new].created
        BY <1>8, <3>3
      <4> QED BY <2>4, <3>3, <4>1
    <3> QED BY <3>1, <3>2, <3>3
  <2>6. Recorded(run') \ Mine' \subseteq Recorded(run) \ Mine
    BY <1>8, <1>9
  <2>7. \A r \in Recorded(run') \ Mine' : \A x \in run'[r].snap.hides : before.rules[x] # "absent"
    BY <1>6, <2>2, <2>6
  <2>8. Recorded(run') \subseteq before.runs \cup Mine'
    BY <1>8, <1>9, <2>2
  <2> QED BY <1>2, <2>1, <2>4, <2>5, <2>7, <2>8 DEF TracesAreOwn
<1>14. FailedScanLeavesNoTrace'
  BY <1>8 DEF FailedScanLeavesNoTrace
<1> QED BY <1>10, <1>11, <1>12, <1>13, <1>14 DEF DriverInv

\* A partition a completed run stands in for is retired: its row goes, its token
\* stays and names that run.
LEMMA DiscardStep ==
    ASSUME ScanInv, Discard
    PROVE  DriverInv'
<1>1. /\ DiscardRun(pending.part, pending.by)
      /\ UNCHANGED <<stamp, lease, scan, before, todo, parts, failed, cohort>>
      /\ retired' = retired \cup {pending.part} /\ pending' = NoPending
      /\ step = "discard" /\ step' = "record"
  BY DEF Discard, Unmoved, Goto
<1> DEFINE gone == pending.part
           by == pending.by
<1>2. gone # None /\ by # None /\ by \in RunId /\ gone \in Mine /\ gone \notin parts
  BY <1>1 DEF ScanInv, DriverInv, DriverInPlace, DriverTyped, PartsInPlace, Mine
<1>3. gone \in Held /\ Mine = parts \cup {gone}
  BY <1>2 DEF ScanInv, DriverInv, PartsInPlace, Mine
<1> HIDE DEF gone, by
<1>4. DiscardRun(gone, by) /\ retired' = retired \cup {gone}
  BY <1>1 DEF gone, by
<1>5. /\ Recorded(run') = Recorded(run) \ {gone}
      /\ \A q \in Recorded(run') : run'[q] = run[q]
      /\ Running' = Running \ {gone} /\ live' = live \ {gone}
      /\ Held' = Held
      /\ token'[gone].reused = by
      /\ \A q \in Held : token'[q].created = token[q].created
      /\ \A q \in Held \ {gone} : token'[q] = token[q]
      /\ suppression' = suppression /\ now' = now
  BY <1>2, <1>3, <1>4, DiscardEffect DEF ScanInv
<1>6. pending'.part = None /\ Mine' = parts /\ None \notin Held
  BY <1>1 DEF NoPending, Mine, Held, RunId, None
<1>7. DriverTyped'
  <2>1. pending' \in [part : RunId \cup {None}, by : RunId \cup {None}]
    BY <1>1 DEF NoPending
  <2> QED BY <1>1, <1>3, <1>4, <1>5, <2>1 DEF ScanInv, DriverInv, DriverTyped, Step
<1>8. DriverInPlace'
  BY <1>1, <1>5, <1>6 DEF ScanInv, DriverInv, DriverInPlace
<1>9. PartsInPlace'
  <2>1. /\ Mine' \cup retired' \subseteq Held' /\ Mine' \cap retired' = {}
        /\ pending'.part \notin parts'
    BY <1>1, <1>2, <1>3, <1>4, <1>5, <1>6 DEF ScanInv, DriverInv, PartsInPlace
  <2>2. retired' \cap Recorded(run') = {}
    BY <1>4, <1>5 DEF ScanInv, DriverInv, PartsInPlace
  <2>3. \A r \in retired' : token'[r].reused # None
    BY <1>2, <1>4, <1>5 DEF ScanInv, DriverInv, PartsInPlace
  <2>4. Mine' \subseteq live' \cap Running'
    BY <1>1, <1>2, <1>3, <1>5, <1>6 DEF ScanInv, DriverInv, PartsInPlace, Staging
  <2> QED BY <2>1, <2>2, <2>3, <2>4 DEF PartsInPlace
<1>10. TracesAreOwn'
  <2>1. Mine' \cup retired' = Mine \cup retired
    BY <1>3, <1>4, <1>6
  <2>2. Mine \cup retired \subseteq Held
    BY DEF ScanInv, DriverInv, PartsInPlace
  <2>3. Recorded(run') \ Mine' \subseteq Recorded(run) \ Mine
    BY <1>3, <1>5, <1>6
  <2> QED BY <1>1, <1>5, <2>1, <2>2, <2>3, TracesKept DEF ScanInv, DriverInv
<1>11. FailedScanLeavesNoTrace'
  BY <1>1 DEF FailedScanLeavesNoTrace
<1> QED BY <1>7, <1>8, <1>9, <1>10, <1>11 DEF DriverInv

\* Once a scan has published, only the retired tokens are left to tidy up.
LEMMA FinalizeStep ==
    ASSUME ScanInv, Finalize
    PROVE  DriverInv'
<1>1. /\ FinalizeSnapshotParts(parts, retired)
      /\ cohort' = Published(parts \cup {token[r].reused : r \in retired})
      /\ scan' = [scan EXCEPT !.plan = NoPlan]
      /\ step = "finalize" /\ step' \in {"done", "tidy_open"}
      /\ UNCHANGED <<stamp, lease, todo, parts, retired, pending, failed, before>>
  BY DEF Finalize, Goto
<1>2. parts \in SUBSET Held /\ retired \in SUBSET Held /\ todo = {} /\ pending.part = None
  BY <1>1 DEF ScanInv, DriverInv, DriverTyped, DriverInPlace
<1>3. token' = token /\ now' = now /\ Held' = Held
  BY <1>1 DEF FinalizeSnapshotParts, Held
<1>4. \A r \in retired : token[r].reused \in RunId
  <2> SUFFICES ASSUME NEW r \in retired PROVE token[r].reused \in RunId
    OBVIOUS
  <2>1. token[r] \in Token /\ token[r].reused # None
    BY <1>2, HeldToken DEF ScanInv, DriverInv, PartsInPlace, StoreInv
  <2> QED BY <2>1 DEF Token
<1>5. cohort' \in [RunId -> SUBSET RunId]
  <2>1. parts \cup {token[r].reused : r \in retired} \subseteq RunId
    BY <1>2, <1>4 DEF Held
  <2> QED BY <1>1, <2>1 DEF Published, ScanInv, DriverInv, DriverTyped
<1>6. scan'.plan = NoPlan /\ scan' \in [plan : Plans \cup {NoPlan}, whole : BOOLEAN, reuse : BOOLEAN]
  BY <1>1 DEF ScanInv, DriverInv, DriverTyped
<1>7. retired \cap Recorded(run') = {}
  <2> SUFFICES ASSUME NEW r \in retired, r \in Recorded(run') PROVE FALSE
    OBVIOUS
  <2>1. /\ r \in RunId
        /\ run'[r] = run[r] \/ SameRecord(run', r)
    BY <1>1, <1>2, FinalizeRows DEF ScanInv, Held
  <2>2. r \in Recorded(run)
    BY <2>1 DEF SameRecord, Recorded
  <2> QED BY <2>2 DEF ScanInv, DriverInv, PartsInPlace
<1>8. DriverTyped'
  BY <1>1, <1>3, <1>5, <1>6 DEF ScanInv, DriverInv, DriverTyped, Step
<1>9. DriverInPlace'
  BY <1>1, <1>2, <1>3, <1>6 DEF ScanInv, DriverInv, DriverInPlace
<1>10. PartsInPlace'
  <2>1. Mine' = Mine /\ pending' = pending /\ parts' = parts /\ retired' = retired
    BY <1>1 DEF Mine
  <2>2. step' \notin Staging
    BY <1>1 DEF Staging
  <2> QED BY <1>3, <1>7, <2>1, <2>2 DEF ScanInv, DriverInv, PartsInPlace
<1>11. TracesAreOwn' /\ FailedScanLeavesNoTrace'
  BY <1>6 DEF TracesAreOwn, FailedScanLeavesNoTrace
<1> QED BY <1>8, <1>9, <1>10, <1>11 DEF DriverInv

\* A refused finalization has cleaned up, or not, and is cleaned up after.
LEMMA FinalizeFailStep ==
    ASSUME ScanInv, FinalizeFails, ~ NoCall
    PROVE  DriverInv'
<1>1. /\ FinalizeFail(parts, retired) \/ FinalizeFailUnclean(parts, retired)
      /\ UNCHANGED <<stamp, lease, scan, before, todo, parts, retired, pending, cohort>>
      /\ failed' = TRUE /\ step = "finalize" /\ step' = "cleanup_open"
  BY DEF FinalizeFails, Unmoved, Goto
<1>2. pending.part = None /\ todo = {} /\ Mine' = Mine
  BY <1>1 DEF ScanInv, DriverInv, DriverInPlace, Mine
<1>3. token' = token /\ now' = now /\ Held' = Held
  BY <1>1 DEF FinalizeFail, FinalizeFailUnclean, Held
<1>4. Recorded(run') \subseteq Recorded(run) /\ TracesAreOwn'
  <2>1. CASE FinalizeFail(parts, retired)
    <3>1. CleanupSnapshotParts(parts, retired)
      BY <2>1 DEF FinalizeFail
    <3> QED BY <1>1, <1>2, <1>3, <3>1, CleanupEffect, TracesCleaned DEF ScanInv, DriverInv
  <2>2. CASE FinalizeFailUnclean(parts, retired)
    <3>1. run' = run /\ suppression' = suppression
      BY <2>2 DEF FinalizeFailUnclean
    <3> QED BY <1>1, <1>2, <1>3, <3>1, TracesKept DEF ScanInv, DriverInv
  <2> QED BY <1>1, <2>1, <2>2
<1>5. DriverTyped'
  BY <1>1, <1>3 DEF ScanInv, DriverInv, DriverTyped, Step
<1>6. DriverInPlace'
  BY <1>1, <1>2, <1>3 DEF ScanInv, DriverInv, DriverInPlace
<1>7. PartsInPlace'
  BY <1>1, <1>2, <1>3, <1>4 DEF ScanInv, DriverInv, PartsInPlace, Staging
<1>8. FailedScanLeavesNoTrace'
  BY <1>1 DEF FailedScanLeavesNoTrace
<1> QED BY <1>4, <1>5, <1>6, <1>7, <1>8 DEF DriverInv

\* Aborting what a scan staged takes all of its rows, and with them the last
\* findings that could keep a rule its staging created.
LEMMA CleanupStep ==
    ASSUME ScanInv, Cleanup
    PROVE  DriverInv'
<1>1. /\ AbortSnapshotParts(parts \cup retired)
      /\ UNCHANGED <<stamp, lease, scan, before, todo, parts, retired, pending, failed, cohort>>
      /\ step = "cleanup" /\ step' = "done"
  BY DEF Cleanup, Unmoved, Goto
<1>2. pending.part = None /\ Mine' = Mine /\ Mine = parts
  BY <1>1 DEF ScanInv, DriverInv, DriverInPlace, Mine
<1>3. token' = token /\ now' = now /\ Held' = Held
  BY <1>1 DEF AbortSnapshotParts, Held
<1>4. /\ (parts \cup retired) \cap Completed = {}
      /\ CleanupSnapshotParts(parts \cup retired, {})
  BY <1>1 DEF AbortSnapshotParts
<1>5. /\ Recorded(run') = Recorded(run) \ ((parts \cup retired) \cap Running)
      /\ \A q \in Recorded(run') : run'[q] = run[q]
      /\ suppression' = CleanupStagedSuppressions((parts \cup retired) \cup {}, run')
  BY <1>4, CleanupEffect DEF ScanInv
<1>6. TracesAreOwn'
  BY <1>1, <1>2, <1>3, <1>4, TracesCleaned DEF ScanInv, DriverInv
<1>7. Recorded(run') \cap parts = {}
  <2> SUFFICES ASSUME NEW r \in parts, r \in Recorded(run') PROVE FALSE
    OBVIOUS
  <2>1. r \in Recorded(run) /\ r \in RunId /\ r \notin Running /\ r \notin Completed
    BY <1>4, <1>5 DEF Recorded
  <2> QED BY <2>1, RecordedRow DEF ScanInv, StoreInv
<1>8. FailedScanLeavesNoTrace'
  <2> SUFFICES ASSUME scan.plan # NoPlan
               PROVE  suppression' = before.rules /\ Recorded(run') \subseteq before.runs
    BY <1>1 DEF FailedScanLeavesNoTrace
  <2>1. Recorded(run') \subseteq before.runs
    BY <1>1, <1>2, <1>6, <1>7 DEF TracesAreOwn
  <2>2. ASSUME NEW x \in Rules
        PROVE  suppression'[x] = before.rules[x]
    <3>1. \/ suppression[x] = before.rules[x]
          \/ /\ suppression[x] = "inactive" /\ before.rules[x] = "absent"
             /\ \E r \in parts \cup retired : x \in token[r].created
      BY <1>2 DEF ScanInv, DriverInv, TracesAreOwn
    <3>2. CASE suppression[x] = before.rules[x]
      <4>1. \A r \in parts \cup retired : x \in token[r].created => before.rules[x] = "absent"
        BY <1>2 DEF ScanInv, DriverInv, TracesAreOwn
      <4> QED BY <1>5, <3>2, <4>1 DEF CleanupStagedSuppressions
    <3>3. CASE /\ suppression[x] = "inactive" /\ before.rules[x] = "absent"
               /\ \E r \in parts \cup retired : x \in token[r].created
      <4>1. ASSUME NEW r \in Recorded(run'), x \in run'[r].snap.hides PROVE FALSE
        <5>1. r \in Recorded(run) \ Mine /\ run'[r] = run[r]
          BY <1>2, <1>5, <1>7
        <5>2. before.rules[x] # "absent"
          BY <4>1, <5>1 DEF ScanInv, DriverInv, TracesAreOwn
        <5> QED BY <3>3, <5>2
      <4>2. suppression'[x] = "absent"
        BY <1>5, <3>3, <4>1 DEF CleanupStagedSuppressions
      <4> QED BY <3>3, <4>2
    <3> QED BY <3>1, <3>2, <3>3
  <2>3. suppression' \in [Rules -> {"absent", "inactive", "active"}]
    BY <1>4, CleanupType DEF ScanInv, StoreInv
  <2>4. before.rules \in [Rules -> {"absent", "inactive", "active"}]
    BY DEF ScanInv, DriverInv, DriverTyped
  <2> QED BY <2>1, <2>2, <2>3, <2>4
<1>9. DriverTyped'
  BY <1>1, <1>3 DEF ScanInv, DriverInv, DriverTyped, Step
<1>10. DriverInPlace'
  BY <1>1, <1>3 DEF ScanInv, DriverInv, DriverInPlace
<1>11. PartsInPlace'
  BY <1>1, <1>2, <1>3, <1>5 DEF ScanInv, DriverInv, PartsInPlace, Staging
<1> QED BY <1>6, <1>8, <1>9, <1>10, <1>11 DEF DriverInv

\* Tidying up after a scan that has published concerns its retired tokens only.
LEMMA TidyStep ==
    ASSUME ScanInv, Tidy
    PROVE  DriverInv'
<1>1. /\ AbortSnapshotParts(retired)
      /\ UNCHANGED <<stamp, lease, scan, before, todo, parts, retired, pending, failed, cohort>>
      /\ step = "tidy" /\ step' = "done" /\ scan.plan = NoPlan
  BY DEF Tidy, Unmoved, Goto, ScanInv, DriverInv, DriverInPlace
<1>2. pending.part = None /\ Mine' = Mine
  BY <1>1 DEF ScanInv, DriverInv, DriverInPlace, Mine
<1>3. token' = token /\ now' = now /\ Held' = Held
  BY <1>1 DEF AbortSnapshotParts, Held
<1>4. Recorded(run') \subseteq Recorded(run)
  <2>1. CleanupSnapshotParts(retired, {})
    BY <1>1 DEF AbortSnapshotParts
  <2> QED BY <2>1, CleanupEffect DEF ScanInv
<1>5. DriverTyped'
  BY <1>1, <1>3 DEF ScanInv, DriverInv, DriverTyped, Step
<1>6. DriverInPlace'
  BY <1>1, <1>3 DEF ScanInv, DriverInv, DriverInPlace
<1>7. PartsInPlace'
  BY <1>1, <1>2, <1>3, <1>4 DEF ScanInv, DriverInv, PartsInPlace, Staging
<1>8. TracesAreOwn' /\ FailedScanLeavesNoTrace'
  BY <1>1 DEF TracesAreOwn, FailedScanLeavesNoTrace
<1> QED BY <1>5, <1>6, <1>7, <1>8 DEF DriverInv

\* Starting, being refused and the passing of time leave the holder alone.
LEMMA StartStep ==
    ASSUME ScanInv, NEW p, (p \in Procs /\ (Start(p) \/ Refused(p))) \/ TimePasses
    PROVE  DriverInv'
<1>1. /\ UNCHANGED <<run, lastId, suppression, fingerprint, live, token>>
      /\ UNCHANGED <<lease, step, scan, todo, parts, retired, pending, failed, before, cohort>>
      /\ \/ now' = now /\ stamp' = [stamp EXCEPT ![p] = 0]
         \/ /\ now < MaxTime /\ now' = now + 1
            /\ stamp' = stamp \/ stamp' = [stamp EXCEPT ![p] = now']
  BY DEF Start, Refused, TimePasses, Tick, storeVars, driverVars, ghostVars
<1>2. Held' = Held /\ Mine' = Mine /\ Running' = Running /\ Recorded(run') = Recorded(run)
  BY <1>1 DEF Held, Mine, Running, Recorded
<1>3. now \in Nat /\ MaxTime \in Nat /\ now <= MaxTime /\ stamp \in [Procs -> Time]
      /\ \A q \in Procs : stamp[q] \in Nat /\ stamp[q] <= now
  BY SnapshotAssumption DEF ScanInv, StoreInv, StoreTypeOK, DriverInv, DriverTyped,
     DriverInPlace, Time
<1>4. stamp' \in [Procs -> Time] /\ \A q \in Procs : stamp'[q] <= now'
  BY <1>1, <1>3 DEF Time
<1>5. DriverTyped'
  BY <1>1, <1>2, <1>4 DEF ScanInv, DriverInv, DriverTyped
<1>6. DriverInPlace'
  BY <1>1, <1>2, <1>4 DEF ScanInv, DriverInv, DriverInPlace
<1>7. PartsInPlace'
  BY <1>1, <1>2 DEF ScanInv, DriverInv, PartsInPlace
<1>8. TracesAreOwn'
  BY <1>1, <1>2, TracesKept DEF ScanInv, DriverInv
<1>9. FailedScanLeavesNoTrace'
  BY <1>1, <1>2 DEF ScanInv, DriverInv, FailedScanLeavesNoTrace
<1> QED BY <1>5, <1>6, <1>7, <1>8, <1>9 DEF DriverInv

\* A scan that takes the lease finds nobody's partitions and no dangling rule.
LEMMA AcquireStep ==
    ASSUME ScanInv, NEW p \in Procs, Acquire(p)
    PROVE  DriverInv'
<1>1. PICK pl \in Plans, reuse \in BOOLEAN :
        /\ scan' = [plan |-> pl, whole |-> DOMAIN pl \subseteq WholeTree, reuse |-> reuse]
        /\ todo' = DOMAIN pl
  BY DEF Acquire
<1>2. /\ lease = Nobody /\ lease' = p /\ step' = "record" /\ before' = Tables
      /\ UNCHANGED <<storeVars, stamp, parts, retired, pending, failed, cohort>>
  BY DEF Acquire
<1>3. step = "idle" /\ Held = {} /\ parts = {} /\ retired = {} /\ pending.part = None
  BY <1>2 DEF ScanInv, DriverInv, DriverInPlace
<1>4. Held' = Held /\ Mine' = {} /\ Mine = {}
  BY <1>2, <1>3 DEF storeVars, Held, Mine
<1>5. pl # NoPlan /\ DOMAIN pl \subseteq Variants /\ p # Nobody
  BY ScanAssumption
<1>6. before' \in [rules : [Rules -> {"absent", "inactive", "active"}], runs : SUBSET RunId]
  BY <1>2 DEF Tables, Recorded, ScanInv, StoreInv, StoreTypeOK
<1>7. DriverTyped'
  <2>1. scan' \in [plan : Plans \cup {NoPlan}, whole : BOOLEAN, reuse : BOOLEAN]
    <3>1. (DOMAIN pl \subseteq WholeTree) \in BOOLEAN
      OBVIOUS
    <3> QED BY <1>1, <3>1
  <2> QED BY <1>1, <1>2, <1>3, <1>4, <1>5, <1>6, <2>1 DEF ScanInv, DriverInv, DriverTyped, Step
<1>8. DriverInPlace'
  BY <1>1, <1>2, <1>3, <1>5 DEF ScanInv, DriverInv, DriverInPlace, storeVars
<1>9. PartsInPlace'
  <2>1. pending'.part \notin parts'
    BY <1>2, <1>3
  <2> QED BY <1>2, <1>3, <1>4, <2>1 DEF PartsInPlace
<1>10. TracesAreOwn'
  <2>1. \A r \in Recorded(run) : \A x \in run[r].snap.hides : suppression[x] # "absent"
    BY DEF ScanInv, StoreInv, NoDanglingRule
  <2>2. before'.rules = suppression /\ before'.runs = Recorded(run)
    BY <1>2 DEF Tables
  <2> QED BY <1>2, <1>3, <1>4, <2>1, <2>2 DEF TracesAreOwn, storeVars
<1>11. FailedScanLeavesNoTrace'
  BY <1>2 DEF FailedScanLeavesNoTrace
<1> QED BY <1>7, <1>8, <1>9, <1>10, <1>11 DEF DriverInv

\* The end of a process takes its tokens and its live set along.
LEMMA EndStep ==
    ASSUME ScanInv, Finish \/ Crash
    PROVE  DriverInv'
<1>1. /\ End(lease) /\ lease \in Procs /\ step # "idle"
  BY DEF Finish, Crash, ScanInv, DriverInv, DriverTyped, DriverInPlace
<1>2. /\ lease' = Nobody /\ step' = "idle" /\ scan' = NoScan
      /\ stamp' = [stamp EXCEPT ![lease] = 0]
      /\ todo' = {} /\ parts' = {} /\ retired' = {} /\ pending' = NoPending /\ failed' = FALSE
      /\ live' = {} /\ token' = [r \in RunId |-> NoToken]
      /\ UNCHANGED <<now, before, cohort>>
  BY <1>1 DEF End, ProcessExit, ghostVars
<1>3. Held' = {} /\ Mine' = {} /\ pending'.part = None /\ scan'.plan = NoPlan
  BY <1>2 DEF Held, Mine, NoPending, NoScan
<1>4. now \in Nat /\ stamp \in [Procs -> Time] /\ 0 \in Time /\ \A q \in Procs : stamp[q] <= now
  BY SnapshotAssumption DEF ScanInv, StoreInv, StoreTypeOK, DriverInv, DriverTyped,
     DriverInPlace, Time
<1>5. stamp' \in [Procs -> Time] /\ \A q \in Procs : stamp'[q] <= now'
  <2>1. stamp' \in [Procs -> Time] /\ \A q \in Procs : stamp'[q] = IF q = lease THEN 0 ELSE stamp[q]
    BY <1>2, <1>4
  <2> QED BY <1>2, <1>4, <2>1
<1>6. DriverTyped'
  <2>1. pending' \in [part : RunId \cup {None}, by : RunId \cup {None}]
    BY <1>2 DEF NoPending
  <2>2. scan' \in [plan : Plans \cup {NoPlan}, whole : BOOLEAN, reuse : BOOLEAN]
    BY <1>2 DEF NoScan
  <2> QED BY <1>2, <1>5, <2>1, <2>2 DEF ScanInv, DriverInv, DriverTyped, Step
<1>7. DriverInPlace'
  BY <1>2, <1>3, <1>5 DEF DriverInPlace
<1>8. PartsInPlace'
  BY <1>2, <1>3 DEF PartsInPlace, Staging
<1>9. TracesAreOwn' /\ FailedScanLeavesNoTrace'
  BY <1>3 DEF TracesAreOwn, FailedScanLeavesNoTrace
<1> QED BY <1>6, <1>7, <1>8, <1>9 DEF DriverInv

\* A prune happens only while nobody scans.
LEMMA PruneStep ==
    ASSUME ScanInv, CachePrune
    PROVE  DriverInv'
<1>1. /\ lease = Nobody /\ live = {} /\ UNCHANGED <<suppression, live, token, now>>
      /\ UNCHANGED driverVars /\ UNCHANGED ghostVars
  BY DEF CachePrune, Prune
<1>2. step = "idle" /\ Held = {} /\ parts = {} /\ retired = {} /\ scan = NoScan
      /\ pending.part = None
  BY <1>1 DEF ScanInv, DriverInv, DriverInPlace
<1>3. Held' = Held /\ Mine' = Mine /\ Mine = {} /\ scan'.plan = NoPlan
  BY <1>1, <1>2 DEF Held, Mine, driverVars, NoScan
<1>4. DriverTyped'
  BY <1>1, <1>3 DEF ScanInv, DriverInv, DriverTyped, driverVars, ghostVars
<1>5. DriverInPlace'
  BY <1>1, <1>3 DEF ScanInv, DriverInv, DriverInPlace, driverVars
<1>6. PartsInPlace'
  BY <1>1, <1>2, <1>3 DEF PartsInPlace, Staging, driverVars
<1>7. TracesAreOwn' /\ FailedScanLeavesNoTrace'
  BY <1>3 DEF TracesAreOwn, FailedScanLeavesNoTrace
<1> QED BY <1>4, <1>5, <1>6, <1>7 DEF DriverInv

\* Every step keeps the inductive invariant.
LEMMA ScanStep ==
    ASSUME ScanInv, [Next]_vars
    PROVE  ScanInv' /\ [StoreNext]_storeVars
<1>1. TypeOK /\ DriverInPlace /\ PartsInPlace
  BY DEF ScanInv, StoreInv, DriverInv, DriverTyped, TypeOK
<1>2. [StoreNext]_storeVars
  BY <1>1, CallerStep
<1>3. StoreInv'
  BY <1>2, StoreInvStep DEF ScanInv
<1> SUFFICES DriverInv'
  BY <1>2, <1>3 DEF ScanInv
<1>4. ASSUME NEW p \in Procs, Start(p) \/ Acquire(p) \/ Refused(p)
      PROVE  DriverInv'
  BY <1>4, StartStep, AcquireStep
<1>5. CASE Driver
  <2>1. CASE AnalysisFails \/ RecordFails \/ DiscardFails \/ LoopDone \/ LastCallFails
    <3>1. NoCall
      BY <2>1 DEF AnalysisFails, RecordFails, DiscardFails, LoopDone, LastCallFails
    <3> QED BY <2>1, <3>1, QuietStep
  <2>2. CASE FinalizeFails
    BY <2>2, QuietStep, FinalizeFailStep
  <2>3. CASE RecordOpen \/ DiscardOpen \/ FinalizeOpen \/ CleanupOpen \/ TidyOpen
    BY <2>3, OpenStep
  <2>4. CASE ReuseWhole \/ WriteWhole
    BY <2>4, WholeStep
  <2>5. CASE Stage \/ Discard \/ Finalize
    BY <2>5, StageStep, DiscardStep, FinalizeStep
  <2>6. CASE Cleanup \/ Tidy \/ Finish
    BY <2>6, CleanupStep, TidyStep, EndStep
  <2> QED BY <1>5, <2>1, <2>2, <2>3, <2>4, <2>5, <2>6 DEF Driver
<1>6. CASE Crash
  BY <1>6, EndStep
<1>7. CASE TimePasses
  BY <1>7, StartStep
<1>8. CASE CachePrune
  BY <1>8, PruneStep
<1>9. CASE UNCHANGED vars
  <2>1. UNCHANGED storeVars /\ UNCHANGED driverVars /\ UNCHANGED ghostVars
    BY <1>9 DEF vars
  <2> QED BY <2>1 DEF ScanInv, DriverInv, DriverTyped, DriverInPlace, PartsInPlace, TracesAreOwn,
      FailedScanLeavesNoTrace, Mine, Held, Running, Recorded, storeVars, driverVars, ghostVars
<1> QED BY <1>4, <1>5, <1>6, <1>7, <1>8, <1>9 DEF Next

\* Before the first scan the invariant holds of the empty database.
LEMMA ScanInit == Init => ScanInv
<1> SUFFICES ASSUME Init PROVE ScanInv
  OBVIOUS
<1>1. StoreInv
  BY StoreInvInit DEF Init
<1>2. /\ stamp = [p \in Procs |-> 0] /\ lease = Nobody /\ step = "idle" /\ scan = NoScan
      /\ todo = {} /\ parts = {} /\ retired = {} /\ pending = NoPending /\ failed = FALSE
      /\ before = Tables /\ cohort = [r \in RunId |-> {}]
      /\ live = {} /\ now = 0 /\ token = [r \in RunId |-> NoToken]
  BY DEF Init, StoreInit
<1>3. Held = {} /\ Mine = {} /\ pending.part = None /\ scan.plan = NoPlan
  BY <1>2 DEF Held, Mine, NoPending, NoScan
<1>4. DriverTyped
  <2>1. pending \in [part : RunId \cup {None}, by : RunId \cup {None}]
    BY <1>2 DEF NoPending
  <2>2. scan \in [plan : Plans \cup {NoPlan}, whole : BOOLEAN, reuse : BOOLEAN]
    BY <1>2 DEF NoScan
  <2>3. before \in [rules : [Rules -> {"absent", "inactive", "active"}], runs : SUBSET RunId]
    BY <1>1, <1>2 DEF Tables, Recorded, StoreInv, StoreTypeOK
  <2>4. stamp \in [Procs -> Time]
    BY <1>2, SnapshotAssumption DEF Time
  <2> QED BY <1>2, <2>1, <2>2, <2>3, <2>4 DEF DriverTyped, Step
<1>5. DriverInPlace
  BY <1>2, <1>3 DEF DriverInPlace
<1>6. PartsInPlace
  BY <1>2, <1>3 DEF PartsInPlace, Staging
<1>7. TracesAreOwn /\ FailedScanLeavesNoTrace
  BY <1>3 DEF TracesAreOwn, FailedScanLeavesNoTrace
<1> QED BY <1>1, <1>4, <1>5, <1>6, <1>7 DEF ScanInv, DriverInv

\* The inductive invariant holds throughout.
LEMMA ScanInvariant == Spec => []ScanInv
<1>1. ScanInv /\ [Next]_vars => ScanInv'
  BY ScanStep
<1> QED BY <1>1, ScanInit, PTL DEF Spec

(***************************************************************************)
(* What the driver keeps, for any number of scans of any plans.            *)
(***************************************************************************)

\* Type correctness of the driver and of the store under it (scan.rs).
THEOREM ScanTypeCorrect == Spec => []TypeOK
<1>1. ScanInv => TypeOK
  BY DEF ScanInv, StoreInv, DriverInv, DriverTyped, TypeOK
<1> QED BY <1>1, ScanInvariant, PTL

\* Every call of run_with and of the partition loop is one the store's caller may
\* make: what is proved of SnapshotStore under any caller holds of every scan.
THEOREM ScanIsACaller == Spec => DriverIsACaller
<1>1. Init => StoreInit
  BY DEF Init
<1>2. ScanInv /\ [Next]_vars => [StoreNext]_storeVars
  BY ScanStep
<1> QED BY <1>1, <1>2, ScanInvariant, PTL DEF Spec, DriverIsACaller, StoreSpec

\* Whatever the reaper takes when the driver opens the store again, it is never a
\* partition this scan has staged and still means to publish (LIVE_RUNS).
THEOREM OwnPartitionsKept == Spec => []OwnPartitionsSurvive
<1>1. ScanInv => OwnPartitionsSurvive
  BY DEF ScanInv, DriverInv, PartsInPlace, Staging, Mine, OwnPartitionsSurvive
<1> QED BY <1>1, ScanInvariant, PTL

\* A failed scan whose cleanup goes through leaves neither a rule nor a run behind
\* (abort_snapshot_parts), whatever failed and whatever was reused before it did.
THEOREM FailedScansLeaveNoTrace == Spec => []FailedScanLeavesNoTrace
<1>1. ScanInv => FailedScanLeavesNoTrace
  BY DEF ScanInv, DriverInv
<1> QED BY <1>1, ScanInvariant, PTL

(***************************************************************************)
(* All or nothing: a scan implements AuditHistory.  What the invariant above *)
(* lacks is that the partitions at hand answer the plan, each variant by one *)
(* partition, with one start time.                                           *)
(***************************************************************************)

\* The run a reader will find for partition r: itself, or the one reused for it.
Answer(r) == IF r \in retired THEN token[r].reused ELSE r

\* A run answers the partition planned for variant v.
Answering(row, v, part) ==
    /\ row.snap.variant = v
    /\ row.snap.tree = part.tree
    /\ Config(row.snap.rules) = Config(part.rules)

\* Partition r was staged by this scan for variant v.
Covers(r, v) ==
    /\ v \in DOMAIN scan.plan \ todo
    /\ token[r].rules = scan.plan[v].rules
    /\ token[r].started = stamp[lease]
    /\ Answering(run[Answer(r)], v, scan.plan[v])
    /\ r \in Mine => run[r].snap.started = stamp[lease]
    /\ r \in retired => token[r].reused \in Completed
    /\ r = pending.part =>
          pending.by \in Completed /\ Answering(run[pending.by], v, scan.plan[v])

Ours == Mine \cup retired

\* Every partition covers a variant, none two of them the same, and unless a
\* call has failed every variant the loop has reached is covered.
PlanAnswered ==
    step \in Staging /\ scan.plan # NoPlan =>
        /\ \A r \in Ours : \E v \in DOMAIN scan.plan : Covers(r, v)
        /\ \A r, q \in Ours, v \in DOMAIN scan.plan : Covers(r, v) /\ Covers(q, v) => r = q
        /\ ~ failed => \A v \in DOMAIN scan.plan \ todo : \E r \in Ours : Covers(r, v)

\* A holder has a start time; an unsplit tree is planned for one variant and never
\* staged, and only such a scan publishes before the loop is over; nothing has
\* failed, and something was staged, by the time a scan is finalized.
PlanInPlace ==
    /\ lease # Nobody => stamp[lease] # 0
    /\ scan.plan # NoPlan /\ scan.whole => DOMAIN scan.plan \subseteq WholeTree
    /\ scan.whole => Ours = {}
    /\ step \in Staging /\ scan.plan = NoPlan => scan.whole
    /\ step \in {"finalize_open", "finalize"} => ~ failed /\ Ours # {}

RefinementInv == ScanInv /\ PlanAnswered /\ PlanInPlace

\* A run that may stand in for a partition is a completed answer to it.
LEMMA ReusableRun ==
    ASSUME StoreTypeOK, NEW v, NEW part, NEW q, q = Reusable(v, part), q # None
    PROVE  /\ q \in Completed /\ q \in RunId
           /\ run[q].snap.variant = v /\ run[q].snap.tree = part.tree
           /\ Config(run[q].snap.rules) = Config(part.rules)
<1>1. q = Predecessor(v, part) /\ run[q].snap.tree = part.tree
  BY DEF Reusable
<1>2. Compatible(v, part) # {} /\ q = Newest(Compatible(v, part))
  BY <1>1 DEF Predecessor
<1>3. Compatible(v, part) \in SUBSET Completed
  BY DEF Compatible
<1>4. q \in Compatible(v, part) /\ q \in RunId
  BY <1>2, <1>3, NewestExists
<1> QED BY <1>1, <1>4 DEF Compatible

\* A run that keeps what it recorded keeps answering what it answered.
LEMMA SubstanceAnswers ==
    ASSUME NEW old, NEW new, NEW v, NEW part, Answering(old, v, part),
           Substance(new) = Substance(old)
    PROVE  Answering(new, v, part)
  BY DEF Substance, Answering

\* What a step leaves alone for a partition's cover to last.
LEMMA CoverLasts ==
    ASSUME NEW r, NEW v, Covers(r, v), r \in Ours,
           scan'.plan = scan.plan, stamp'[lease'] = stamp[lease], v \notin todo',
           r \in Mine' => r \in Mine, r \in retired' <=> r \in retired, Mine \cap retired = {},
           r = pending'.part => r = pending.part /\ pending'.by = pending.by,
           token'[r] = token[r], r \in Mine => run'[r] = run[r],
           \A q \in Completed : q \in Completed' /\ Substance(run'[q]) = Substance(run[q])
    PROVE  Covers(r, v)'
<1>1. Answer(r)' = Answer(r)
  BY DEF Answer
<1>2. Answering(run'[Answer(r)'], v, scan'.plan[v])
  <2>1. Substance(run'[Answer(r)]) = Substance(run[Answer(r)])
    <3>1. CASE r \in retired
      BY <3>1 DEF Answer, Covers
    <3>2. CASE r \notin retired
      BY <3>2 DEF Answer, Ours
    <3> QED BY <3>1, <3>2
  <2>2. Answering(run[Answer(r)], v, scan.plan[v])
    BY DEF Covers
  <2> QED BY <1>1, <2>1, <2>2, SubstanceAnswers
<1>3. r = pending'.part => pending'.by \in Completed' /\ Answering(run'[pending'.by], v, scan'.plan[v])
  <2> SUFFICES ASSUME r = pending'.part
               PROVE  pending'.by \in Completed' /\ Answering(run'[pending'.by], v, scan'.plan[v])
    OBVIOUS
  <2>1. pending.by \in Completed /\ Answering(run[pending.by], v, scan.plan[v])
        /\ pending'.by = pending.by
    BY DEF Covers
  <2> QED BY <2>1, SubstanceAnswers
<1>4. r \in retired' => token'[r].reused \in Completed'
  BY DEF Covers
<1>5. r \in Mine' => run'[r].snap.started = stamp'[lease']
  BY DEF Covers
<1> QED BY <1>2, <1>3, <1>4, <1>5 DEF Covers

\* A step that leaves the partitions, the completed runs and the plan alone, and
\* gives up on a variant only by failing, leaves the plan answered.
LEMMA AnswersLast ==
    ASSUME ScanInv, ScanInv', PlanAnswered,
           step' \in Staging => step \in Staging,
           scan' = scan, stamp'[lease'] = stamp[lease], Mine' = Mine, retired' = retired,
           todo' = todo \/ (todo' \subseteq todo /\ failed'), failed => failed',
           pending' = pending \/ pending'.part = None,
           \A r \in Ours : token'[r] = token[r], \A r \in Mine : step \in Staging => run'[r] = run[r],
           \A q \in Completed : q \in Completed' /\ Substance(run'[q]) = Substance(run[q])
    PROVE  PlanAnswered'
<1> SUFFICES ASSUME step' \in Staging, scan.plan # NoPlan
             PROVE  /\ \A r \in Ours : \E v \in DOMAIN scan.plan : Covers(r, v)'
                    /\ \A r, q \in Ours, v \in DOMAIN scan.plan :
                          Covers(r, v)' /\ Covers(q, v)' => r = q
                    /\ ~ failed' => \A v \in DOMAIN scan.plan \ todo' : \E r \in Ours : Covers(r, v)'
  BY DEF PlanAnswered, Ours
<1>1. /\ \A r \in Ours : \E v \in DOMAIN scan.plan : Covers(r, v)
      /\ \A r, q \in Ours, v \in DOMAIN scan.plan : Covers(r, v) /\ Covers(q, v) => r = q
      /\ ~ failed => \A v \in DOMAIN scan.plan \ todo : \E r \in Ours : Covers(r, v)
  BY DEF PlanAnswered
<1>2. Mine \cap retired = {} /\ None \notin Ours
  BY DEF ScanInv, DriverInv, PartsInPlace, Ours, Held, RunId, None
<1>3. ASSUME NEW r \in Ours, NEW v \in DOMAIN scan.plan, Covers(r, v)
      PROVE  Covers(r, v)'
  <2>1. v \notin todo'
    BY <1>3 DEF Covers
  <2>2. r = pending'.part => r = pending.part /\ pending'.by = pending.by
    BY <1>2
  <2>3. r \in Mine => run'[r] = run[r]
    OBVIOUS
  <2> QED BY <1>2, <1>3, <2>1, <2>2, <2>3, CoverLasts
<1>4. ASSUME NEW r \in Ours, NEW v \in DOMAIN scan.plan, Covers(r, v)'
      PROVE  Covers(r, v)
  <2>1. PICK w \in DOMAIN scan.plan : Covers(r, w)
    BY <1>1
  <2>2. Covers(r, w)'
    BY <1>3, <2>1
  <2>3. w = v
    BY <1>4, <2>2 DEF Covers, Answering
  <2> QED BY <2>1, <2>3
<1>5. \A r \in Ours : \E v \in DOMAIN scan.plan : Covers(r, v)'
  BY <1>1, <1>3
<1>6. \A r, q \in Ours, v \in DOMAIN scan.plan : Covers(r, v)' /\ Covers(q, v)' => r = q
  BY <1>1, <1>4
<1>7. ASSUME ~ failed', NEW v \in DOMAIN scan.plan \ todo'
      PROVE  \E r \in Ours : Covers(r, v)'
  <2>1. todo' = todo /\ ~ failed
    BY <1>7
  <2>2. PICK r \in Ours : Covers(r, v)
    BY <1>1, <1>7, <2>1
  <2> QED BY <1>3, <1>7, <2>2
<1> QED BY <1>5, <1>6, <1>7

\* Staging covers the variant it takes off the list.
LEMMA StageAnswers ==
    ASSUME ScanInv, ScanInv', PlanAnswered, Stage
    PROVE  PlanAnswered'
<1>1. PICK v \in todo :
        /\ RecordSnapshotPartStaged(SnapshotOf(v, scan.plan[v]), Predecessor(v, scan.plan[v]))
        /\ todo' = todo \ {v}
        /\ \/ /\ Reusable(v, scan.plan[v]) # None
              /\ pending' = [part |-> NewRun, by |-> Reusable(v, scan.plan[v])]
              /\ parts' = parts
           \/ parts' = parts \cup {NewRun} /\ pending' = NoPending
  BY DEF Stage, Goto
<1> DEFINE snap == SnapshotOf(v, scan.plan[v])
           pred == Predecessor(v, scan.plan[v])
           by == Reusable(v, scan.plan[v])
<1>2. /\ UNCHANGED <<stamp, lease, scan, retired, failed>>
      /\ step = "write" /\ scan.plan # NoPlan /\ pending.part = None
  BY DEF Stage, Unmoved, ScanInv, DriverInv, DriverInPlace
<1>t. TypeOK /\ StoreTypeOK
  BY DEF ScanInv, StoreInv, DriverInv, DriverTyped, TypeOK
<1>3. /\ snap \in Snapshot /\ snap.hides \subseteq snap.rules
      /\ snap.variant = v /\ snap.tree = scan.plan[v].tree /\ snap.rules = scan.plan[v].rules
      /\ snap.started = stamp[lease]
  <2>1. /\ snap \in Offered /\ snap.hides \subseteq snap.rules
        /\ snap.variant = v /\ snap.tree = scan.plan[v].tree /\ snap.rules = scan.plan[v].rules
    BY <1>t, <1>2, PlannedSnapshot DEF ScanInv, DriverInv, DriverInPlace
  <2>2. snap \in Snapshot
    BY <1>t, <2>1, OfferedType
  <2> QED BY <2>1, <2>2 DEF SnapshotOf
<1>4. /\ pred \in RunId \cup {None} /\ v \in DOMAIN scan.plan
      /\ by # None => by \in Completed /\ Answering(run[by], v, scan.plan[v])
  <2>1. pred \in RunId \cup {None}
    BY <1>t, PredecessorType
  <2>2. by # None => by \in Completed /\ Answering(run[by], v, scan.plan[v])
    BY <1>t, ReusableRun DEF Answering
  <2> QED BY <2>1, <2>2 DEF ScanInv, DriverInv, DriverInPlace
<1> HIDE DEF snap, pred, by
<1>5. RecordSnapshotPartStaged(snap, pred)
  BY <1>1 DEF snap, pred
<1>n. PICK new \in RunId : new = NewRun
  BY <1>3, <1>4, <1>5, StageEffect DEF ScanInv
<1>6. /\ new \in RunId /\ new # None
      /\ new \notin Recorded(run) /\ new \notin Held
      /\ \A r \in Recorded(run) : run'[r] = run[r]
      /\ \A r \in Held : token'[r] = token[r]
      /\ token'[new].rules = snap.rules /\ token'[new].started = snap.started
      /\ run'[new].snap = snap
  BY <1>3, <1>4, <1>5, <1>n, StageEffect DEF ScanInv
<1>7. /\ \/ by # None /\ pending' = [part |-> new, by |-> by] /\ parts' = parts
         \/ parts' = parts \cup {new} /\ pending' = NoPending
      /\ todo' = todo \ {v}
  BY <1>1, <1>n DEF by
<1>8. Ours \subseteq Held /\ Mine = parts /\ Mine \subseteq Running /\ None \notin Ours
      /\ Mine \cap retired = {} /\ new \notin Ours
  BY <1>2, <1>6 DEF ScanInv, DriverInv, PartsInPlace, Mine, Ours, Held, RunId, None, Staging
<1>9. Mine' = Mine \cup {new} /\ Ours' = Ours \cup {new} /\ (pending'.part \in {new, None})
  <2>1. CASE pending' = [part |-> new, by |-> by] /\ parts' = parts
    BY <1>2, <1>6, <1>8, <2>1 DEF Mine, Ours
  <2>2. CASE parts' = parts \cup {new} /\ pending' = NoPending
    <3>1. pending'.part = None
      BY <2>2 DEF NoPending
    <3> QED BY <1>2, <1>8, <2>2, <3>1 DEF Mine, Ours
  <2> QED BY <1>7, <2>1, <2>2
<1>10. /\ \A r \in Mine : run'[r] = run[r]
       /\ \A q \in Completed : q \in Completed' /\ run'[q] = run[q]
  BY <1>6, <1>8 DEF Running, Completed, Recorded, RunId
<1>11. Covers(new, v)'
  <2>1. Answer(new)' = new
    BY <1>2, <1>8 DEF Answer, Ours
  <2>2. Answering(run'[new], v, scan'.plan[v])
    BY <1>2, <1>3, <1>6 DEF Answering
  <2>3. new = pending'.part =>
          pending'.by \in Completed' /\ Answering(run'[pending'.by], v, scan'.plan[v])
    <3> SUFFICES ASSUME new = pending'.part
                 PROVE  pending'.by \in Completed' /\ Answering(run'[pending'.by], v, scan'.plan[v])
      OBVIOUS
    <3>1. by # None /\ pending'.by = by
      BY <1>6, <1>7 DEF NoPending
    <3> QED BY <1>2, <1>4, <1>10, <3>1
  <2>4. new \notin retired'
    BY <1>2, <1>8 DEF Ours
  <2> QED BY <1>2, <1>3, <1>4, <1>6, <1>7, <2>1, <2>2, <2>3, <2>4 DEF Covers
<1>12. /\ \A r \in Ours : \E w \in DOMAIN scan.plan : Covers(r, w)
       /\ \A r, q \in Ours, w \in DOMAIN scan.plan : Covers(r, w) /\ Covers(q, w) => r = q
       /\ ~ failed => \A w \in DOMAIN scan.plan \ todo : \E r \in Ours : Covers(r, w)
  BY <1>2 DEF PlanAnswered, Staging
<1>13. ASSUME NEW r \in Ours, NEW w \in DOMAIN scan.plan, Covers(r, w)
       PROVE  Covers(r, w)' /\ w # v
  <2>1. w \notin todo' /\ w # v
    BY <1>7, <1>13 DEF Covers
  <2>2. r \in Mine' => r \in Mine
    BY <1>8, <1>9, <1>13
  <2>3. r # pending'.part
    BY <1>8, <1>9, <1>13
  <2>4. token'[r] = token[r]
    BY <1>6, <1>8, <1>13
  <2>5. \A q \in Completed : q \in Completed' /\ Substance(run'[q]) = Substance(run[q])
    BY <1>10
  <2>6. r \in Mine => run'[r] = run[r]
    BY <1>10
  <2> QED BY <1>2, <1>8, <1>13, <2>1, <2>2, <2>3, <2>4, <2>5, <2>6, CoverLasts
<1>14. ASSUME NEW r \in Ours', NEW w \in DOMAIN scan.plan, Covers(r, w)'
       PROVE  (r = new /\ w = v) \/ (r \in Ours /\ w # v /\ Covers(r, w))
  <2>1. \A a, b : Covers(r, a)' /\ Covers(r, b)' => a = b
    BY DEF Covers, Answering
  <2>2. CASE r = new
    BY <1>11, <1>14, <2>1, <2>2
  <2>3. CASE r \in Ours
    <3>1. PICK x \in DOMAIN scan.plan : Covers(r, x)
      BY <1>12, <2>3
    <3>2. Covers(r, x)' /\ x # v
      BY <1>13, <2>3, <3>1
    <3> QED BY <1>14, <2>1, <2>3, <3>1, <3>2
  <2> QED BY <1>9, <2>2, <2>3
<1>15. \A r \in Ours' : \E w \in DOMAIN scan.plan : Covers(r, w)'
  BY <1>4, <1>9, <1>11, <1>12, <1>13
<1>16. \A r, q \in Ours', w \in DOMAIN scan.plan : Covers(r, w)' /\ Covers(q, w)' => r = q
  BY <1>12, <1>14
<1>17. ASSUME ~ failed, NEW w \in DOMAIN scan.plan \ todo'
       PROVE  \E r \in Ours' : Covers(r, w)'
  <2>1. CASE w = v
    BY <1>9, <1>11, <2>1
  <2>2. CASE w # v
    <3>1. w \in DOMAIN scan.plan \ todo
      BY <1>7, <1>17, <2>2
    <3>2. PICK r \in Ours : Covers(r, w)
      BY <1>12, <1>17, <3>1
    <3> QED BY <1>9, <1>13, <1>17, <3>2
  <2> QED BY <2>1, <2>2
<1> QED BY <1>2, <1>15, <1>16, <1>17 DEF PlanAnswered

\* Discarding puts the reused run in the place of the partition.
LEMMA DiscardAnswers ==
    ASSUME ScanInv, ScanInv', PlanAnswered, Discard
    PROVE  PlanAnswered'
<1>1. /\ DiscardRun(pending.part, pending.by)
      /\ UNCHANGED <<stamp, lease, scan, todo, parts, failed>>
      /\ retired' = retired \cup {pending.part} /\ pending' = NoPending
      /\ step = "discard"
  BY DEF Discard, Unmoved
<1>2. PICK gone \in Held, by \in RunId : gone = pending.part /\ by = pending.by /\ by # None
  BY <1>1 DEF ScanInv, DriverInv, DriverInPlace, DriverTyped, PartsInPlace, Mine
<1>3. /\ Mine = parts \cup {gone} /\ gone \notin parts /\ gone # None /\ None \notin Ours
      /\ Mine \cap retired = {} /\ Ours \subseteq Held /\ Mine \subseteq Running
  BY <1>1, <1>2 DEF ScanInv, DriverInv, DriverInPlace, PartsInPlace, Mine, Ours, Held, RunId, None,
     Staging
<1>4. /\ Recorded(run') = Recorded(run) \ {gone}
      /\ \A q \in Recorded(run') : run'[q] = run[q]
      /\ token'[gone].reused = by
      /\ token'[gone].rules = token[gone].rules /\ token'[gone].started = token[gone].started
      /\ \A q \in Held \ {gone} : token'[q] = token[q]
  BY <1>1, <1>2, DiscardEffect DEF ScanInv
<1>5. /\ pending'.part = None /\ Mine' = parts /\ retired' = retired \cup {gone}
      /\ Ours' = Ours
  BY <1>1, <1>2, <1>3 DEF NoPending, Mine, Ours
<1>6. \A q \in Completed : q \in Completed' /\ run'[q] = run[q]
  <2> SUFFICES ASSUME NEW q \in Completed PROVE q \in Completed' /\ run'[q] = run[q]
    OBVIOUS
  <2>1. q \in RunId /\ q \in Recorded(run) /\ q # gone
    BY <1>3 DEF Completed, Recorded, Running
  <2>2. run'[q] = run[q]
    BY <1>4, <2>1
  <2> QED BY <2>1, <2>2 DEF Completed, RunId
<1>7. scan.plan # NoPlan =>
        /\ \A r \in Ours : \E w \in DOMAIN scan.plan : Covers(r, w)
        /\ \A r, q \in Ours, w \in DOMAIN scan.plan : Covers(r, w) /\ Covers(q, w) => r = q
        /\ ~ failed => \A w \in DOMAIN scan.plan \ todo : \E r \in Ours : Covers(r, w)
  BY <1>1 DEF PlanAnswered, Staging
<1>8. ASSUME NEW r \in Ours, NEW w \in DOMAIN scan.plan, Covers(r, w)
      PROVE  Covers(r, w)'
  <2>1. CASE r = gone
    <3>1. Answer(gone)' = by
      BY <1>4, <1>5 DEF Answer
    <3>2. /\ by \in Completed /\ Answering(run[by], w, scan.plan[w])
          /\ w \in DOMAIN scan.plan \ todo /\ token[gone].rules = scan.plan[w].rules
          /\ token[gone].started = stamp[lease]
      BY <1>2, <1>8, <2>1 DEF Covers
    <3>3. gone \notin Mine'
      BY <1>3, <1>5
    <3>4. by \in Completed' /\ Answering(run'[by], w, scan.plan[w])
      BY <1>6, <3>2
    <3> QED BY <1>1, <1>3, <1>4, <1>5, <2>1, <3>1, <3>2, <3>3, <3>4 DEF Covers
  <2>2. CASE r # gone
    <3>1. w \notin todo'
      BY <1>1, <1>8 DEF Covers
    <3>2. /\ r \in Mine' => r \in Mine
          /\ r \in retired' <=> r \in retired
          /\ r # pending'.part
      BY <1>3, <1>5, <1>8, <2>2
    <3>3. token'[r] = token[r]
      BY <1>3, <1>4, <1>8, <2>2
    <3>4. r \in Mine => run'[r] = run[r]
      BY <1>3, <1>4, <2>2 DEF Running, Recorded
    <3>5. \A q \in Completed : q \in Completed' /\ Substance(run'[q]) = Substance(run[q])
      BY <1>6
    <3> QED BY <1>1, <1>3, <1>8, <3>1, <3>2, <3>3, <3>4, <3>5, CoverLasts
  <2> QED BY <2>1, <2>2
<1>9. ASSUME NEW r \in Ours, NEW w \in DOMAIN scan.plan, Covers(r, w)', scan.plan # NoPlan
      PROVE  Covers(r, w)
  <2>1. PICK x \in DOMAIN scan.plan : Covers(r, x)
    BY <1>7, <1>9
  <2>2. Covers(r, x)'
    BY <1>8, <2>1
  <2>3. x = w
    BY <1>9, <2>2 DEF Covers, Answering
  <2> QED BY <2>1, <2>3
<1> SUFFICES ASSUME scan.plan # NoPlan
             PROVE  /\ \A r \in Ours : \E w \in DOMAIN scan.plan : Covers(r, w)'
                    /\ \A r, q \in Ours, w \in DOMAIN scan.plan :
                          Covers(r, w)' /\ Covers(q, w)' => r = q
                    /\ ~ failed => \A w \in DOMAIN scan.plan \ todo : \E r \in Ours : Covers(r, w)'
  BY <1>1, <1>5 DEF PlanAnswered
<1>10. \A r \in Ours : \E w \in DOMAIN scan.plan : Covers(r, w)'
  BY <1>7, <1>8
<1>11. \A r, q \in Ours, w \in DOMAIN scan.plan : Covers(r, w)' /\ Covers(q, w)' => r = q
  BY <1>7, <1>9
<1>12. ~ failed => \A w \in DOMAIN scan.plan \ todo : \E r \in Ours : Covers(r, w)'
  BY <1>7, <1>8
<1> QED BY <1>10, <1>11, <1>12

\* Every step keeps the plan answered.
LEMMA PlanAnsweredStep ==
    ASSUME ScanInv, ScanInv', PlanAnswered, PlanInPlace, [StoreNext]_storeVars, [Next]_vars
    PROVE  PlanAnswered'
<1>c. \A q \in Completed : q \in Completed' /\ Substance(run'[q]) = Substance(run[q])
  BY HistoryStep DEF ScanInv, Completed, RunId
<1>o. Mine \cup retired = Ours /\ Mine \subseteq Ours /\ Ours \subseteq Held
  BY DEF Ours, ScanInv, DriverInv, PartsInPlace
<1>1. CASE step' \notin Staging \/ scan'.plan = NoPlan
  BY <1>1 DEF PlanAnswered
<1>2. ASSUME step \in Staging, NEW p, (p \in Procs /\ (Start(p) \/ Refused(p))) \/ TimePasses
      PROVE  PlanAnswered'
  <2>1. lease \in Procs /\ stamp[lease] # 0
    BY <1>2 DEF ScanInv, DriverInv, DriverTyped, DriverInPlace, PlanInPlace, Staging
  <2>2. /\ UNCHANGED <<run, token, lease, step, scan, todo, parts, retired, pending, failed>>
        /\ stamp'[lease] = stamp[lease]
    <3>t. stamp \in [Procs -> Time]
      BY DEF ScanInv, DriverInv, DriverTyped
    <3>1. CASE p \in Procs /\ Start(p)
      BY <2>1, <3>t, <3>1 DEF Start, Tick
    <3>2. CASE p \in Procs /\ Refused(p)
      BY <2>1, <3>t, <3>2 DEF Refused, storeVars
    <3>3. CASE TimePasses
      BY <3>3 DEF TimePasses, Tick, driverVars
    <3> QED BY <1>2, <3>1, <3>2, <3>3
  <2>3. Mine' = Mine
    BY <2>2 DEF Mine
  <2> QED BY <1>c, <2>2, <2>3, AnswersLast
<1>3. ASSUME NEW p \in Procs, Acquire(p) PROVE PlanAnswered'
  <2>1. /\ step = "idle" /\ parts' = {} /\ retired' = {} /\ pending'.part = None
        /\ todo' = DOMAIN scan'.plan
    BY <1>3 DEF Acquire, ScanInv, DriverInv, DriverInPlace
  <2>2. Ours' = {}
    BY <2>1 DEF Ours, Mine
  <2> QED BY <2>1, <2>2 DEF PlanAnswered
<1>4. CASE \/ AnalysisFails \/ RecordFails \/ DiscardFails \/ LoopDone \/ LastCallFails
  <2>1. /\ UNCHANGED <<storeVars, stamp, lease, scan, retired>>
        /\ todo' = todo \/ (todo' \subseteq todo /\ failed')
        /\ failed => failed'
    BY <1>4 DEF AnalysisFails, RecordFails, DiscardFails, LoopDone, LastCallFails, NoCall, Unmoved
  <2>2. step' \in Staging => step \in Staging
    BY <1>4 DEF AnalysisFails, RecordFails, DiscardFails, LoopDone, LastCallFails, Goto, Staging
  <2>3. Mine' = Mine /\ (pending' = pending \/ pending'.part = None)
    <3>1. CASE DiscardFails
      <4>1. /\ parts' = parts \cup {pending.part} /\ pending' = NoPending
            /\ pending.part # None
        BY <3>1 DEF DiscardFails, ScanInv, DriverInv, DriverInPlace
      <4>2. pending'.part = None
        BY <4>1 DEF NoPending
      <4> QED BY <4>1, <4>2 DEF Mine
    <3>2. CASE AnalysisFails \/ RecordFails \/ LoopDone \/ LastCallFails
      BY <3>2 DEF AnalysisFails, RecordFails, LoopDone, LastCallFails, Mine
    <3> QED BY <1>4, <3>1, <3>2
  <2>4. run' = run /\ token' = token
    BY <2>1 DEF storeVars
  <2> QED BY <1>c, <2>1, <2>2, <2>3, <2>4, AnswersLast
<1>5. CASE RecordOpen \/ DiscardOpen \/ FinalizeOpen \/ CleanupOpen \/ TidyOpen
  <2>1. /\ UNCHANGED <<stamp, lease, scan, todo, parts, retired, pending, failed>>
        /\ OpenStore
        /\ step' \in Staging => step \in Staging
    BY <1>5 DEF RecordOpen, DiscardOpen, FinalizeOpen, CleanupOpen, TidyOpen, Unmoved, Goto, Staging
  <2>2. /\ \A r \in Recorded(run') : run'[r] = run[r]
        /\ live \cap Running \subseteq Running' /\ token' = token
    BY <2>1, OpenEffect DEF ScanInv
  <2>3. \A r \in Mine : step \in Staging => run'[r] = run[r]
    BY <2>2 DEF ScanInv, DriverInv, PartsInPlace, Running, Recorded
  <2>4. Mine' = Mine
    BY <2>1 DEF Mine
  <2> QED BY <1>c, <2>1, <2>2, <2>3, <2>4, AnswersLast
<1>6. CASE Stage \/ Discard
  BY <1>6, StageAnswers, DiscardAnswers
<1>7. CASE ReuseWhole \/ WriteWhole
  <2>1. scan'.plan = NoPlan
    BY <1>7 DEF ReuseWhole, WriteWhole, ScanInv, DriverInv, DriverTyped
  <2> QED BY <1>1, <2>1
<1>8. CASE Finalize \/ FinalizeFails \/ Cleanup \/ Tidy \/ Finish \/ Crash
  <2>1. step' \notin Staging
    BY <1>8 DEF Finalize, FinalizeFails, Cleanup, Tidy, Finish, Crash, End, Goto, Staging
  <2> QED BY <1>1, <2>1
<1>9. CASE step \notin Staging /\ UNCHANGED step
  BY <1>1, <1>9
<1>10. ASSUME NEW p \in Procs, Start(p) \/ Refused(p) PROVE PlanAnswered'
  <2>1. UNCHANGED step
    BY <1>10 DEF Start, Refused
  <2> QED BY <1>2, <1>9, <1>10, <2>1
<1>11. CASE TimePasses
  <2>1. UNCHANGED step
    BY <1>11 DEF TimePasses, driverVars
  <2> QED BY <1>2, <1>9, <1>11, <2>1
<1>12. CASE CachePrune
  <2>1. step \notin Staging /\ UNCHANGED step
    BY <1>12 DEF CachePrune, ScanInv, DriverInv, DriverInPlace, driverVars, Staging
  <2> QED BY <1>9, <2>1
<1>13. CASE UNCHANGED vars
  <2>1. /\ UNCHANGED <<run, token, stamp, lease, step, scan, todo, parts, retired, pending, failed>>
    BY <1>13 DEF vars, storeVars, driverVars
  <2>2. Mine' = Mine
    BY <2>1 DEF Mine
  <2> QED BY <1>c, <2>1, <2>2, AnswersLast
<1> QED
  BY <1>3, <1>4, <1>5, <1>6, <1>7, <1>8, <1>10, <1>11, <1>12, <1>13 DEF Next, Driver

\* The driver's own part of it, step by step.
LEMMA PlanInPlaceStep ==
    ASSUME ScanInv, ScanInv', PlanInPlace, [Next]_vars
    PROVE  PlanInPlace'
<1>t. /\ stamp \in [Procs -> Time] /\ lease \in Procs \cup {Nobody} /\ Nobody \notin Procs
      /\ scan \in [plan : Plans \cup {NoPlan}, whole : BOOLEAN, reuse : BOOLEAN]
      /\ lease = Nobody <=> step = "idle"
      /\ now \in Nat
  BY ScanAssumption, SnapshotAssumption
     DEF ScanInv, StoreInv, StoreTypeOK, DriverInv, DriverTyped, DriverInPlace, Time
<1>1. ASSUME NEW p, (p \in Procs /\ (Start(p) \/ Refused(p))) \/ TimePasses \/ CachePrune
      PROVE  PlanInPlace'
  <2>1. /\ UNCHANGED <<lease, step, scan, parts, retired, pending, failed>>
        /\ lease # Nobody => stamp'[lease] # 0
    BY <1>t, <1>1 DEF Start, Refused, TimePasses, CachePrune, Tick, driverVars, PlanInPlace
  <2>2. Ours' = Ours
    BY <2>1 DEF Ours, Mine
  <2> QED BY <2>1, <2>2 DEF PlanInPlace
<1>2. ASSUME NEW p \in Procs, Acquire(p) PROVE PlanInPlace'
  <2>0. PICK pl \in Plans, reuse \in BOOLEAN :
          scan' = [plan |-> pl, whole |-> DOMAIN pl \subseteq WholeTree, reuse |-> reuse]
    BY <1>2 DEF Acquire
  <2>1. /\ step = "idle" /\ parts' = {} /\ retired' = {} /\ pending'.part = None
        /\ lease' = p /\ stamp' = stamp /\ stamp[p] # 0 /\ step' = "record"
    BY <1>2 DEF Acquire, ScanInv, DriverInv, DriverInPlace
  <2>3. scan'.plan = pl /\ scan'.whole = (DOMAIN pl \subseteq WholeTree)
    BY <2>0
  <2>4. scan'.whole => DOMAIN scan'.plan \subseteq WholeTree
    BY <2>3
  <2>2. Ours' = {} /\ scan'.plan # NoPlan
    BY <2>1, <2>3, ScanAssumption DEF Ours, Mine
  <2> QED BY <2>1, <2>2, <2>4 DEF PlanInPlace
<1>3. CASE Finish \/ Crash
  <2>1. /\ lease' = Nobody /\ step' = "idle" /\ scan' = NoScan
        /\ parts' = {} /\ retired' = {} /\ pending'.part = None
    BY <1>3 DEF Finish, Crash, End, NoPending
  <2> QED BY <2>1 DEF PlanInPlace, NoScan, Staging, Ours, Mine
<1>4. CASE \/ AnalysisFails \/ RecordFails \/ DiscardFails \/ LoopDone \/ LastCallFails
           \/ RecordOpen \/ DiscardOpen \/ FinalizeOpen \/ CleanupOpen \/ TidyOpen
           \/ FinalizeFails \/ Cleanup \/ Tidy \/ Discard
  <2>1. UNCHANGED <<stamp, lease, scan>>
    BY <1>4 DEF AnalysisFails, RecordFails, DiscardFails, LoopDone, LastCallFails, RecordOpen,
       DiscardOpen, FinalizeOpen, CleanupOpen, TidyOpen, FinalizeFails, Cleanup, Tidy, Discard, Unmoved
  <2>2. Ours' = Ours
    <3>1. CASE DiscardFails \/ Discard
      <4>1. /\ parts' \cup retired' = parts \cup retired \cup {pending.part}
            /\ pending' = NoPending /\ pending.part # None
        BY <3>1 DEF DiscardFails, Discard, ScanInv, DriverInv, DriverInPlace
      <4>2. pending'.part = None
        BY <4>1 DEF NoPending
      <4> QED BY <4>1, <4>2 DEF Ours, Mine
    <3>2. CASE UNCHANGED <<parts, retired, pending>>
      BY <3>2 DEF Ours, Mine
    <3> QED BY <1>4, <3>1, <3>2 DEF AnalysisFails, RecordFails, LoopDone, LastCallFails, RecordOpen,
         DiscardOpen, FinalizeOpen, CleanupOpen, TidyOpen, FinalizeFails, Cleanup, Tidy
  <2>3. step' \in Staging => step \in Staging
    BY <1>4 DEF AnalysisFails, RecordFails, DiscardFails, LoopDone, LastCallFails, RecordOpen,
       DiscardOpen, FinalizeOpen, CleanupOpen, TidyOpen, FinalizeFails, Cleanup, Tidy, Discard, Goto,
       Staging
  <2>4. step' \in {"finalize_open", "finalize"} => ~ failed' /\ Ours # {}
    <3>1. CASE LoopDone
      BY <3>1 DEF LoopDone, Goto, Ours, Mine
    <3>2. CASE FinalizeOpen
      BY <3>2 DEF FinalizeOpen, PlanInPlace
    <3>3. ASSUME ~ LoopDone, ~ FinalizeOpen PROVE step' \notin {"finalize_open", "finalize"}
      BY <1>4, <3>3 DEF AnalysisFails, RecordFails, DiscardFails, LastCallFails, RecordOpen,
         DiscardOpen, CleanupOpen, TidyOpen, FinalizeFails, Cleanup, Tidy, Discard, Goto
    <3> QED BY <3>1, <3>2, <3>3
  <2> QED BY <2>1, <2>2, <2>3, <2>4 DEF PlanInPlace
<1>5. CASE ReuseWhole \/ WriteWhole
  <2>1. /\ UNCHANGED <<stamp, lease, parts, retired, pending>>
        /\ scan'.plan = NoPlan /\ scan'.whole /\ scan.whole /\ step' = "record"
    BY <1>t, <1>5 DEF ReuseWhole, WriteWhole, Goto
  <2>2. Ours' = Ours
    BY <2>1 DEF Ours, Mine
  <2> QED BY <2>1, <2>2 DEF PlanInPlace
<1>6. CASE Stage
  <2>1. UNCHANGED <<stamp, lease, scan>> /\ ~ scan.whole /\ step = "write"
        /\ step' \in {"discard_open", "record"}
    BY <1>6 DEF Stage, Unmoved, Goto
  <2> QED BY <2>1 DEF PlanInPlace, Staging
<1>7. CASE Finalize
  <2>1. /\ UNCHANGED <<stamp, lease, parts, retired, pending>>
        /\ scan'.plan = NoPlan /\ scan'.whole = scan.whole /\ step' \in {"done", "tidy_open"}
    BY <1>t, <1>7 DEF Finalize, Goto
  <2>2. Ours' = Ours
    BY <2>1 DEF Ours, Mine
  <2> QED BY <2>1, <2>2 DEF PlanInPlace, Staging
<1>8. CASE UNCHANGED vars
  BY <1>8 DEF vars, driverVars, PlanInPlace, Ours, Mine
<1> QED BY <1>1, <1>2, <1>3, <1>4, <1>5, <1>6, <1>7, <1>8 DEF Next, Driver

\* The stronger invariant holds throughout.
LEMMA RefinementInit == Init => RefinementInv
<1> SUFFICES ASSUME Init PROVE RefinementInv
  OBVIOUS
<1>1. ScanInv
  BY ScanInit
<1>2. /\ lease = Nobody /\ step = "idle" /\ scan = NoScan /\ parts = {} /\ retired = {}
      /\ pending.part = None
  BY DEF Init, NoPending
<1>3. PlanAnswered /\ PlanInPlace
  BY <1>2 DEF PlanAnswered, PlanInPlace, NoScan, Staging, Ours, Mine
<1> QED BY <1>1, <1>3 DEF RefinementInv

\* What the refinement needs of the driver's state holds in every behaviour.
LEMMA RefinementInvariant == Spec => []RefinementInv
<1>1. RefinementInv /\ [Next]_vars => RefinementInv'
  <2> SUFFICES ASSUME RefinementInv, [Next]_vars PROVE RefinementInv'
    OBVIOUS
  <2>1. ScanInv' /\ [StoreNext]_storeVars
    BY ScanStep DEF RefinementInv
  <2> QED BY <2>1, PlanAnsweredStep, PlanInPlaceStep DEF RefinementInv
<1> QED BY RefinementInit, <1>1, PTL DEF Spec

\* What AuditHistory's variables stand for.
Visible == [r \in RunId |-> IF r \in Completed THEN run[r].snap ELSE NoRow]
Active == {s \in Rules : suppression[s] = "active"}

\* Completed rows that stay as they are, and no others, leave a reader's view.
LEMMA VisibleKept ==
    ASSUME \A r \in Completed : r \in Completed', \A r \in Completed' : run'[r] = run[r]
    PROVE  Visible' = Visible
<1>1. \A r \in RunId : r \in Completed' <=> r \in Completed
  BY DEF Completed, RunId
<1>2. \A r \in RunId : (IF r \in Completed' THEN run'[r].snap ELSE NoRow)
                         = (IF r \in Completed THEN run[r].snap ELSE NoRow)
  BY <1>1
<1> QED BY <1>2 DEF Visible, RunId

\* Between taking the lease and publishing, a scan changes neither the completed
\* runs nor the active policy.
LEMMA HiddenStep ==
    ASSUME RefinementInv, [Next]_vars, [StoreNext]_storeVars,
           ~ ReuseWhole, ~ WriteWhole, ~ Finalize
    PROVE  Visible' = Visible /\ Active' = Active
<1>c. \A q \in Completed : q \in Completed'
  BY HistoryStep DEF RefinementInv, ScanInv, Completed, RunId
<1>i. StoreInv /\ StoreTypeOK
  BY DEF RefinementInv, ScanInv, StoreInv
<1>r. Completed' \subseteq Recorded(run')
  BY DEF Completed, Recorded, RunId
<1>1. CASE run' = run /\ suppression' = suppression
  BY <1>1 DEF Visible, Active, Completed, RunId
<1>2. ASSUME \A q \in Recorded(run') : run'[q] = run[q], suppression' = suppression
      PROVE  Visible' = Visible /\ Active' = Active
  BY <1>c, <1>r, <1>2, VisibleKept DEF Active
<1>3. CASE OpenStore
  BY <1>i, <1>2, <1>3, OpenEffect
<1>4. CASE Stage
  <2>1. PICK v \in todo :
          RecordSnapshotPartStaged(SnapshotOf(v, scan.plan[v]), Predecessor(v, scan.plan[v]))
    BY <1>4 DEF Stage
  <2> DEFINE snap == SnapshotOf(v, scan.plan[v])
             pred == Predecessor(v, scan.plan[v])
  <2>t. TypeOK /\ DriverInPlace /\ lease # Nobody
    BY <1>4 DEF Stage, RefinementInv, ScanInv, StoreInv, DriverInv, DriverTyped, TypeOK, DriverInPlace
  <2>2. snap \in Snapshot /\ snap.hides \subseteq snap.rules /\ pred \in RunId \cup {None}
    <3>1. snap \in Offered /\ snap.hides \subseteq snap.rules
      BY <2>t, PlannedSnapshot
    <3> QED BY <1>i, <3>1, OfferedType, PredecessorType
  <2> HIDE DEF snap, pred
  <2>3. RecordSnapshotPartStaged(snap, pred)
    BY <2>1 DEF snap, pred
  <2>4. /\ Recorded(run') = Recorded(run) \cup {NewRun}
        /\ \A r \in Recorded(run) : run'[r] = run[r]
        /\ Running' = Running \cup {NewRun}
        /\ suppression' = WriteSuppressions(snap.rules, FALSE)
    BY <1>i, <2>2, <2>3, StageEffect
  <2>5. \A r \in Completed' : run'[r] = run[r]
    BY <1>r, <2>4 DEF Completed, Running
  <2>6. \A x \in Rules : suppression'[x] = "active" <=> suppression[x] = "active"
    BY <2>4 DEF WriteSuppressions
  <2> QED BY <1>c, <2>5, <2>6, VisibleKept DEF Active
<1>5. CASE Discard
  <2>1. PICK gone \in Held, by \in RunId : by # None /\ DiscardRun(gone, by)
    BY <1>5 DEF Discard, RefinementInv, ScanInv, DriverInv, DriverInPlace, DriverTyped,
       PartsInPlace, Mine
  <2> QED BY <1>i, <1>2, <2>1, DiscardEffect
<1>6. ASSUME NEW ps, NEW rs, CleanupSnapshotParts(ps, rs)
      PROVE  Visible' = Visible /\ Active' = Active
  <2>1. /\ \A q \in Recorded(run') : run'[q] = run[q]
        /\ suppression' = CleanupStagedSuppressions(ps \cup rs, run')
    BY <1>i, <1>6, CleanupEffect
  <2>2. \A x \in Rules : suppression'[x] = "active" <=> suppression[x] = "active"
    BY <2>1 DEF CleanupStagedSuppressions
  <2>3. Visible' = Visible
    BY <1>c, <1>r, <2>1, VisibleKept
  <2> QED BY <2>2, <2>3 DEF Active
<1>7. CASE FinalizeFails \/ Cleanup \/ Tidy
  BY <1>1, <1>6, <1>7 DEF FinalizeFails, Cleanup, Tidy, NoCall, storeVars, FinalizeFail,
     FinalizeFailUnclean, AbortSnapshotParts
<1>8. CASE Prune
  <2>1. Running \in SUBSET RunId
    BY DEF Running
  <2>2. /\ \A r \in RunId : r \in Running => run'[r] = NoRow
        /\ \A r \in RunId : r \notin Running => run'[r] = run[r]
    BY <1>i, <1>8, <2>1, RemovalKeeps DEF Prune
  <2>3. \A q \in Recorded(run') : run'[q] = run[q]
    BY <2>2 DEF Recorded, NoRow
  <2>4. suppression' = suppression
    BY <1>8 DEF Prune
  <2> QED BY <1>2, <2>3, <2>4
<1>9. CASE RecordOpen \/ DiscardOpen \/ FinalizeOpen \/ CleanupOpen \/ TidyOpen
  BY <1>3, <1>9 DEF RecordOpen, DiscardOpen, FinalizeOpen, CleanupOpen, TidyOpen
<1>10. CASE AnalysisFails \/ RecordFails \/ DiscardFails \/ LoopDone \/ LastCallFails
  BY <1>1, <1>10 DEF AnalysisFails, RecordFails, DiscardFails, LoopDone, LastCallFails, NoCall,
     storeVars
<1>11. CASE Finish \/ Crash
  BY <1>1, <1>11 DEF Finish, Crash, End, ProcessExit
<1>12. CASE TimePasses \/ CachePrune
  BY <1>1, <1>8, <1>12 DEF TimePasses, CachePrune, Tick
<1>13. ASSUME NEW p \in Procs, Start(p) \/ Acquire(p) \/ Refused(p)
       PROVE  Visible' = Visible /\ Active' = Active
  BY <1>1, <1>13 DEF Start, Acquire, Refused, Tick, storeVars
<1>14. CASE UNCHANGED vars
  BY <1>1, <1>14 DEF vars, storeVars
<1> QED
  BY <1>4, <1>5, <1>7, <1>9, <1>10, <1>11, <1>12, <1>13, <1>14 DEF Next, Driver

\* Writing a policy with activation makes exactly its rules active.
LEMMA ActivePolicy ==
    ASSUME NEW rules \in SUBSET Rules, suppression' = WriteSuppressions(rules, TRUE)
    PROVE  Active' = rules
<1>1. \A x \in Rules : suppression'[x] = "active" <=> x \in rules
  BY DEF WriteSuppressions
<1> QED BY <1>1 DEF Active

\* Enough for a step to be AuditHistory's Publish.
LEMMA PublishStep ==
    ASSUME scan.plan # NoPlan, scan'.plan = NoPlan,
           NEW of \in [DOMAIN scan.plan -> RunId], NEW start \in Time, StoreTypeOK',
           \A v, w \in DOMAIN scan.plan : of[v] = of[w] => v = w,
           \A v \in DOMAIN scan.plan : /\ of[v] \in Completed'
                                       /\ Answering(run'[of[v]], v, scan.plan[v])
                                       /\ run'[of[v]].snap.started = start,
           \A r \in RunId : (\A v \in DOMAIN scan.plan : of[v] # r) =>
              /\ r \in Completed' <=> r \in Completed
              /\ run'[r] = run[r],
           Active' = UNION {scan.plan[v].rules : v \in DOMAIN scan.plan}
    PROVE  History!Publish
<1>1. ASSUME NEW v \in DOMAIN scan.plan
      PROVE  /\ Visible'[of[v]] # NoRow
             /\ Visible'[of[v]].variant = v
             /\ Visible'[of[v]].tree = scan.plan[v].tree
             /\ Config(Visible'[of[v]].rules) = Config(scan.plan[v].rules)
             /\ Visible'[of[v]].started = start
  <2>1. of[v] \in Completed' /\ Answering(run'[of[v]], v, scan.plan[v])
    OBVIOUS
  <2>2. \A r \in Completed' : run'[r].snap # NoRow /\ Visible'[r] = run'[r].snap
    <3>1. \A r \in Completed' : r \in RunId /\ run'[r] \in Row
      BY DEF Completed, StoreTypeOK, RunId, Row, Snapshot, Time, NoRow
    <3>2. \A r \in Completed' : run'[r].snap \in Snapshot
      BY <3>1 DEF Row
    <3>3. \A r \in Completed' : run'[r].snap # NoRow
      BY <3>2 DEF Snapshot, NoRow
    <3> QED BY <3>1, <3>3 DEF Visible, RunId
  <2> QED BY <2>1, <2>2 DEF Answering
<1>2. ASSUME NEW r \in RunId, \A v \in DOMAIN scan.plan : of[v] # r
      PROVE  Visible'[r] = Visible[r]
  <2>1. (r \in Completed' <=> r \in Completed) /\ run'[r] = run[r]
    BY <1>2
  <2> QED BY <2>1 DEF Visible, RunId
<1>3. /\ \A v \in DOMAIN scan.plan :
          /\ History!Answers(Visible'[of[v]], v, scan.plan[v])
          /\ Visible'[of[v]].started = start
  BY <1>1 DEF History!Answers, History!Modulo, Config
<1> QED BY <1>2, <1>3 DEF History!Publish, History!NoPlan, NoPlan, Visible, Active

\* What finalization does to the rows it publishes and to the others.
LEMMA FinalizedRows ==
    ASSUME StoreInv, NEW ps \in SUBSET Held, NEW rs \in SUBSET Held,
           FinalizeSnapshotParts(ps, rs),
           \A r \in rs : token[r].reused \in Completed
    PROVE  /\ \A r \in ps : run'[r].status = "completed" /\ run'[r].snap = run[r].snap
           /\ \A x \in rs : \E y \in rs :
                 /\ token[y].reused = token[x].reused
                 /\ run'[token[x].reused].status = "completed"
                 /\ run'[token[x].reused].snap.variant = run[token[x].reused].snap.variant
                 /\ run'[token[x].reused].snap.tree = run[token[x].reused].snap.tree
                 /\ run'[token[x].reused].snap.rules = run[token[x].reused].snap.rules
                 /\ run'[token[x].reused].snap.started = token[y].started
           /\ \A r \in RunId : r \notin ps /\ (\A x \in rs : token[x].reused # r) => run'[r] = run[r]
<1> DEFINE reused == {token[q].reused : q \in rs} \ {None}
<1>1. PICK by \in [reused -> rs] :
        /\ \A q \in reused : token[by[q]].reused = q
        /\ run' = [q \in RunId |->
                  IF q \in ps THEN [run[q] EXCEPT !.status = "completed"]
                  ELSE IF q \in reused THEN Refreshed(run[q], token[by[q]])
                  ELSE run[q]]
  BY DEF FinalizeSnapshotParts
<1>2. ps \subseteq Running
  BY DEF FinalizeSnapshotParts, CanFinalize
<1>3. ASSUME NEW r \in ps
      PROVE  run'[r].status = "completed" /\ run'[r].snap = run[r].snap
  <2>1. r \in RunId /\ run[r] \in Row
    BY <1>2, RecordedRow DEF StoreInv, Running
  <2>2. run'[r] = [run[r] EXCEPT !.status = "completed"]
    BY <1>1, <2>1
  <2> QED BY <2>1, <2>2 DEF Row
<1>4. ASSUME NEW x \in rs
      PROVE  \E y \in rs :
                 /\ token[y].reused = token[x].reused
                 /\ run'[token[x].reused].status = "completed"
                 /\ run'[token[x].reused].snap.variant = run[token[x].reused].snap.variant
                 /\ run'[token[x].reused].snap.tree = run[token[x].reused].snap.tree
                 /\ run'[token[x].reused].snap.rules = run[token[x].reused].snap.rules
                 /\ run'[token[x].reused].snap.started = token[y].started
  <2>1. PICK q : q = token[x].reused
    OBVIOUS
  <2>2. q \in Completed /\ q \in RunId /\ q # None /\ q \notin ps /\ run[q] \in Row
    BY <1>2, <1>4, <2>1, RecordedRow DEF Completed, Running, RunId, None, StoreInv
  <2>3. q \in reused
    BY <1>4, <2>1, <2>2
  <2>4. PICK y \in rs : y = by[q]
    BY <1>1, <2>3
  <2>5. token[y].reused = q /\ run'[q] = Refreshed(run[q], token[y])
    BY <1>1, <2>2, <2>3, <2>4
  <2>6. token[y].started \in Time /\ token[y].finished \in Time
    <3>1. token[y] \in Token
      BY HeldToken DEF StoreInv
    <3> QED BY <3>1 DEF Token
  <2>7. /\ run'[q].status = run[q].status
        /\ run'[q].snap.variant = run[q].snap.variant
        /\ run'[q].snap.tree = run[q].snap.tree
        /\ run'[q].snap.rules = run[q].snap.rules
    BY <2>2, <2>5, <2>6, RefreshedType
  <2>8. run'[q].snap.started = token[y].started
    BY <2>2, <2>5, <2>6 DEF Refreshed, Row, Snapshot
  <2> QED BY <2>1, <2>2, <2>5, <2>7, <2>8 DEF Completed
<1>5. ASSUME NEW r \in RunId, r \notin ps, \A x \in rs : token[x].reused # r
      PROVE  run'[r] = run[r]
  <2>1. r \notin reused
    BY <1>5
  <2> QED BY <1>1, <1>5, <2>1
<1> QED BY <1>3, <1>4, <1>5

\* Finalization publishes the plan.
LEMMA FinalizePublishes ==
    ASSUME RefinementInv, RefinementInv', Finalize
    PROVE  History!Publish
<1>1. /\ FinalizeSnapshotParts(parts, retired) /\ step = "finalize"
      /\ suppression' = WriteSuppressions(UNION {token[r].rules : r \in parts \cup retired}, TRUE)
      /\ scan' = [scan EXCEPT !.plan = NoPlan]
  BY DEF Finalize, FinalizeSnapshotParts
<1>2. /\ todo = {} /\ pending.part = None /\ ~ failed /\ Ours # {} /\ ~ scan.whole
      /\ scan.plan # NoPlan /\ lease \in Procs
  BY <1>1 DEF RefinementInv, ScanInv, DriverInv, DriverTyped, DriverInPlace, PlanInPlace, Staging
<1>3. scan'.plan = NoPlan /\ stamp[lease] \in Time
  BY <1>1, <1>2 DEF RefinementInv, ScanInv, DriverInv, DriverTyped
<1>4. /\ Ours = parts \cup retired /\ Mine = parts /\ parts \cap retired = {}
      /\ parts \in SUBSET Held /\ retired \in SUBSET Held /\ Ours \subseteq Held
  BY <1>2 DEF Ours, Mine, RefinementInv, ScanInv, DriverInv, PartsInPlace
<1>5. /\ \A r \in Ours : \E v \in DOMAIN scan.plan : Covers(r, v)
      /\ \A r, q \in Ours, v \in DOMAIN scan.plan : Covers(r, v) /\ Covers(q, v) => r = q
      /\ \A v \in DOMAIN scan.plan : \E r \in Ours : Covers(r, v)
  BY <1>1, <1>2 DEF RefinementInv, PlanAnswered, Staging
<1> DEFINE part == [v \in DOMAIN scan.plan |-> CHOOSE r \in Ours : Covers(r, v)]
<1>6. \A v \in DOMAIN scan.plan : part[v] \in Ours /\ Covers(part[v], v)
  BY <1>5
<1>7. \A r \in Ours, v \in DOMAIN scan.plan : Covers(r, v) => part[v] = r
  BY <1>5, <1>6
<1> HIDE DEF part
<1>8. \A r \in retired : token[r].reused \in Completed /\ token[r].reused \in RunId
  BY <1>4, <1>5 DEF Covers, Completed
<1>9. PICK of \in [DOMAIN scan.plan -> RunId] : \A v \in DOMAIN scan.plan : of[v] = Answer(part[v])
  <2>1. \A r \in Ours : Answer(r) \in RunId
    BY <1>4, <1>8 DEF Answer, Held
  <2> DEFINE f == [v \in DOMAIN scan.plan |-> Answer(part[v])]
  <2>2. f \in [DOMAIN scan.plan -> RunId] /\ \A v \in DOMAIN scan.plan : f[v] = Answer(part[v])
    BY <1>6, <2>1
  <2> QED BY <2>2
<1>10. /\ \A r \in parts : run'[r].status = "completed" /\ run'[r].snap = run[r].snap
       /\ \A x \in retired : \E y \in retired :
             /\ token[y].reused = token[x].reused
             /\ run'[token[x].reused].status = "completed"
             /\ run'[token[x].reused].snap.variant = run[token[x].reused].snap.variant
             /\ run'[token[x].reused].snap.tree = run[token[x].reused].snap.tree
             /\ run'[token[x].reused].snap.rules = run[token[x].reused].snap.rules
             /\ run'[token[x].reused].snap.started = token[y].started
       /\ \A r \in RunId : r \notin parts /\ (\A x \in retired : token[x].reused # r)
                              => run'[r] = run[r]
  BY <1>1, <1>4, <1>8, FinalizedRows DEF RefinementInv, ScanInv
<1>11. ASSUME NEW v \in DOMAIN scan.plan
       PROVE  /\ run[of[v]].snap.variant = v /\ of[v] \in Completed'
              /\ Answering(run'[of[v]], v, scan.plan[v])
              /\ run'[of[v]].snap.started = stamp[lease]
  <2>1. PICK r \in Ours : Covers(r, v) /\ of[v] = Answer(r)
    BY <1>6, <1>9
  <2>2. Answering(run[Answer(r)], v, scan.plan[v])
    BY <2>1 DEF Covers
  <2>3. CASE r \in retired
    <3>1. of[v] = token[r].reused
      BY <2>1, <2>3 DEF Answer
    <3>2. PICK y \in retired :
             /\ run'[of[v]].status = "completed"
             /\ run'[of[v]].snap.variant = run[of[v]].snap.variant
             /\ run'[of[v]].snap.tree = run[of[v]].snap.tree
             /\ run'[of[v]].snap.rules = run[of[v]].snap.rules
             /\ run'[of[v]].snap.started = token[y].started
      BY <1>10, <2>3, <3>1
    <3>3. token[y].started = stamp[lease]
      BY <1>4, <1>5 DEF Covers
    <3>4. of[v] \in Completed'
      BY <1>9, <3>2 DEF Completed, RunId
    <3> QED BY <2>1, <2>2, <3>2, <3>3, <3>4 DEF Answering
  <2>4. CASE r \notin retired
    <3>1. of[v] = r /\ r \in parts /\ r \in Mine
      BY <1>4, <2>1, <2>4 DEF Answer
    <3>2. run'[r].status = "completed" /\ run'[r].snap = run[r].snap
      BY <1>10, <3>1
    <3>3. run[r].snap.started = stamp[lease]
      BY <2>1, <3>1 DEF Covers
    <3>4. of[v] \in Completed'
      BY <1>9, <3>1, <3>2 DEF Completed, RunId
    <3> QED BY <2>1, <2>2, <3>1, <3>2, <3>3, <3>4 DEF Answering
  <2> QED BY <2>3, <2>4
<1>12. \A v, w \in DOMAIN scan.plan : of[v] = of[w] => v = w
  BY <1>11
<1>13. ASSUME NEW r \in RunId, \A v \in DOMAIN scan.plan : of[v] # r
       PROVE  (r \in Completed' <=> r \in Completed) /\ run'[r] = run[r]
  <2>1. ASSUME NEW x \in Ours PROVE Answer(x) # r
    <3>1. PICK v \in DOMAIN scan.plan : Covers(x, v)
      BY <1>5
    <3>2. of[v] = Answer(x)
      BY <1>7, <1>9, <3>1
    <3> QED BY <1>13, <3>2
  <2>2. r \notin parts
    BY <1>4, <2>1 DEF Answer
  <2>3. \A x \in retired : token[x].reused # r
    BY <1>4, <2>1 DEF Answer
  <2>4. run'[r] = run[r]
    BY <1>10, <2>2, <2>3
  <2> QED BY <2>4 DEF Completed, RunId
<1>14. Active' = UNION {scan.plan[v].rules : v \in DOMAIN scan.plan}
  <2>1. \A r \in Ours : \E v \in DOMAIN scan.plan : token[r].rules = scan.plan[v].rules
    BY <1>5 DEF Covers
  <2>2. \A v \in DOMAIN scan.plan : \E r \in Ours : token[r].rules = scan.plan[v].rules
    BY <1>5 DEF Covers
  <2>3. UNION {token[r].rules : r \in Ours} = UNION {scan.plan[v].rules : v \in DOMAIN scan.plan}
    BY <2>1, <2>2
  <2>4. \A r \in Ours : token[r].rules \in SUBSET Rules
    <3>1. \A r \in Ours : token[r] \in Token
      BY <1>4, HeldToken DEF RefinementInv, ScanInv, StoreInv
    <3> QED BY <3>1 DEF Token
  <2>5. UNION {token[r].rules : r \in Ours} \in SUBSET Rules
    BY <2>4
  <2>6. suppression' = WriteSuppressions(UNION {token[r].rules : r \in Ours}, TRUE)
    BY <1>1, <1>4
  <2>7. Active' = UNION {token[r].rules : r \in Ours}
    BY <2>5, <2>6, ActivePolicy
  <2> QED BY <2>3, <2>7
<1>15. StoreTypeOK'
  BY DEF RefinementInv, ScanInv, StoreInv
<1> QED BY <1>2, <1>3, <1>11, <1>12, <1>13, <1>14, <1>15, PublishStep

\* The one call that records or reuses an unsplit tree completes one row.
LEMMA WholeRow ==
    ASSUME RefinementInv, ReuseWhole \/ WriteWhole
    PROVE  \E v \in todo, r \in RunId :
             /\ r \in Completed' /\ Answering(run'[r], v, scan.plan[v])
             /\ run'[r].snap.started = stamp[lease]
             /\ \A q \in RunId : q # r => (q \in Completed' <=> q \in Completed) /\ run'[q] = run[q]
             /\ suppression' = WriteSuppressions(scan.plan[v].rules, TRUE)
             /\ cohort' = Published({r})
<1>1. step = "write" /\ todo # {}
  BY DEF ReuseWhole, WriteWhole
<1>2. /\ TypeOK /\ DriverInPlace /\ StoreTypeOK /\ StoreInv
      /\ lease \in Procs /\ scan.plan # NoPlan
  BY <1>1 DEF RefinementInv, ScanInv, StoreInv, DriverInv, DriverTyped, TypeOK, DriverInPlace
<1>3. stamp[lease] \in Time /\ now \in Time
  BY <1>2 DEF TypeOK, StoreTypeOK
<1>7. CASE ReuseWhole
  <2> DEFINE StandsIn(v, by) ==
          /\ by = Reusable(v, scan.plan[v]) /\ by # None
          /\ ConfirmReusedRun(by, scan.plan[v].rules, stamp[lease], now)
          /\ cohort' = Published({by})
  <2>0. PICK v \in todo : \E by : StandsIn(v, by)
    BY <1>7 DEF ReuseWhole
  <2>1. PICK by : StandsIn(v, by)
    BY <2>0
  <2>2. /\ by \in Completed /\ by \in RunId /\ run[by] \in Row
        /\ Answering(run[by], v, scan.plan[v])
    <3>1. /\ by \in Completed /\ by \in RunId
          /\ Answering(run[by], v, scan.plan[v])
      BY <1>2, <2>1, ReusableRun DEF Answering
    <3> QED BY <1>2, <3>1, RecordedRow DEF Completed
  <2>3. PICK times : times = [started |-> stamp[lease], finished |-> now]
    OBVIOUS
  <2>4. /\ run'[by] = Refreshed(run[by], times)
        /\ \A q \in RunId : q # by => run'[q] = run[q]
    BY <1>2, <2>1, <2>2, <2>3 DEF ConfirmReusedRun, StoreTypeOK
  <2>5. /\ run'[by].status = run[by].status
        /\ run'[by].snap.variant = run[by].snap.variant
        /\ run'[by].snap.tree = run[by].snap.tree
        /\ run'[by].snap.rules = run[by].snap.rules
    BY <1>3, <2>2, <2>3, <2>4, RefreshedType
  <2>6. run'[by].snap.started = stamp[lease]
    <3>1. times.started = stamp[lease] /\ times.finished = now
      BY <2>3
    <3>2. Refreshed(run[by], times).snap.started = times.started
      BY <2>2 DEF Refreshed, Row, Snapshot
    <3> QED BY <2>4, <3>1, <3>2
  <2>7. by \in Completed' /\ Answering(run'[by], v, scan.plan[v])
    BY <2>2, <2>5 DEF Completed, RunId, Answering
  <2>8. \A q \in RunId : q # by => (q \in Completed' <=> q \in Completed) /\ run'[q] = run[q]
    BY <2>4 DEF Completed, RunId
  <2>9. suppression' = WriteSuppressions(scan.plan[v].rules, TRUE)
    BY <2>1 DEF ConfirmReusedRun
  <2>10. cohort' = Published({by})
    BY <2>1
  <2> QED BY <2>2, <2>6, <2>7, <2>8, <2>9, <2>10
<1>8. CASE WriteWhole
  <2> DEFINE Records(v, snap, pred) ==
          /\ snap = SnapshotOf(v, scan.plan[v])
          /\ RecordSnapshotWithPredecessor(snap, pred)
  <2>0. PICK v \in todo : \E snap, pred : Records(v, snap, pred)
    BY <1>8 DEF WriteWhole
  <2>1. PICK snap, pred : Records(v, snap, pred)
    BY <2>0
  <2>2. /\ snap \in Snapshot /\ snap.hides \subseteq snap.rules
        /\ snap.variant = v /\ snap.tree = scan.plan[v].tree
        /\ snap.rules = scan.plan[v].rules /\ snap.started = stamp[lease]
    <3>1. /\ snap \in Offered /\ snap.hides \subseteq snap.rules
          /\ snap.variant = v /\ snap.tree = scan.plan[v].tree
          /\ snap.rules = scan.plan[v].rules
      BY <1>2, <2>1, PlannedSnapshot, ScanAssumption
    <3>2. snap.started = stamp[lease]
      BY <2>1 DEF SnapshotOf
    <3> QED BY <1>2, <3>1, <3>2, OfferedType
  <2>3. WriteSnapshot(snap, "completed", TRUE)
    BY <2>1 DEF RecordSnapshotWithPredecessor
  <2>4. PICK r : r = NewRun
    OBVIOUS
  <2>5. r \in RunId
    BY <1>2, <2>3, <2>4, SnapshotAssumption DEF WriteSnapshot, TakesId, NewRun, RunId, StoreTypeOK
  <2>6. /\ \A q \in RunId \ {r} : run'[q] = run[q]
        /\ run'[r] = [status |-> "completed", snap |-> snap]
    BY <1>2, <2>2, <2>3, <2>4, WriteKeeps
  <2>7. /\ r \in Completed' /\ Answering(run'[r], v, scan.plan[v])
        /\ run'[r].snap.started = stamp[lease]
    BY <2>2, <2>5, <2>6 DEF Completed, RunId, Answering
  <2>8. \A q \in RunId : q # r => (q \in Completed' <=> q \in Completed) /\ run'[q] = run[q]
    BY <2>6 DEF Completed, RunId
  <2>9. suppression' = WriteSuppressions(scan.plan[v].rules, TRUE)
    BY <2>2, <2>3 DEF WriteSnapshot
  <2>10. cohort' = Published({r})
    BY <1>8, <2>4 DEF WriteWhole
  <2> QED BY <2>5, <2>7, <2>8, <2>9, <2>10
<1> QED BY <1>7, <1>8

\* An unsplit tree is published by the one call that records or reuses it.
LEMMA WholePublishes ==
    ASSUME RefinementInv, RefinementInv', ReuseWhole \/ WriteWhole
    PROVE  History!Publish
<1>1. /\ step = "write" /\ scan.whole /\ todo # {}
      /\ scan' = [scan EXCEPT !.plan = NoPlan]
  BY DEF ReuseWhole, WriteWhole
<1>2. /\ TypeOK /\ DriverInPlace /\ StoreTypeOK /\ StoreInv
      /\ lease \in Procs /\ scan.plan # NoPlan
  BY <1>1 DEF RefinementInv, ScanInv, StoreInv, DriverInv, DriverTyped, TypeOK, DriverInPlace
<1>3. scan'.plan = NoPlan /\ stamp[lease] \in Time /\ now \in Time
  BY <1>1, <1>2 DEF TypeOK, StoreTypeOK
<1>4. DOMAIN scan.plan \subseteq WholeTree
  BY <1>1, <1>2 DEF RefinementInv, PlanInPlace
<1>5. ASSUME NEW v \in todo
      PROVE  v \in DOMAIN scan.plan /\ DOMAIN scan.plan = {v}
  <2>1. scan.plan \in Plans /\ v \in DOMAIN scan.plan
    BY <1>2, PlannedPart
  <2>2. DOMAIN scan.plan \cap WholeTree # {}
    BY <1>4, <2>1
  <2>3. \E w \in WholeTree : DOMAIN scan.plan = {w}
    BY <2>1, <2>2, ScanAssumption
  <2> QED BY <2>1, <2>3
<1>6. ASSUME NEW v \in todo, NEW r \in RunId, r \in Completed',
             Answering(run'[r], v, scan.plan[v]), run'[r].snap.started = stamp[lease],
             \A q \in RunId : q # r => (q \in Completed' <=> q \in Completed) /\ run'[q] = run[q],
             suppression' = WriteSuppressions(scan.plan[v].rules, TRUE)
      PROVE  History!Publish
  <2>1. PICK of \in [DOMAIN scan.plan -> RunId] : \A w \in DOMAIN scan.plan : of[w] = r
    <3> DEFINE f == [w \in DOMAIN scan.plan |-> r]
    <3>1. f \in [DOMAIN scan.plan -> RunId] /\ \A w \in DOMAIN scan.plan : f[w] = r
      OBVIOUS
    <3> QED BY <3>1
  <2>2. \A w \in DOMAIN scan.plan : w = v
    BY <1>5
  <2>3. v \in DOMAIN scan.plan
    BY <1>5
  <2>4. \A u, w \in DOMAIN scan.plan : of[u] = of[w] => u = w
    BY <2>2
  <2>5. \A w \in DOMAIN scan.plan : /\ of[w] \in Completed'
                                    /\ Answering(run'[of[w]], w, scan.plan[w])
                                    /\ run'[of[w]].snap.started = stamp[lease]
    BY <1>6, <2>1, <2>2
  <2>6. \A q \in RunId : (\A w \in DOMAIN scan.plan : of[w] # q) =>
           (q \in Completed' <=> q \in Completed) /\ run'[q] = run[q]
    BY <1>6, <2>1, <2>3
  <2>7. Active' = UNION {scan.plan[w].rules : w \in DOMAIN scan.plan}
    <3>1. scan.plan[v].rules \in SUBSET Rules
      BY <1>2, PlannedPart
    <3>2. Active' = scan.plan[v].rules
      <4>1. PICK rules \in SUBSET Rules : rules = scan.plan[v].rules
        BY <3>1
      <4>2. suppression' = WriteSuppressions(rules, TRUE)
        BY <1>6, <4>1 DEF WriteSuppressions
      <4>3. Active' = rules
        BY <4>2, ActivePolicy
      <4> QED BY <4>1, <4>3
    <3>3. UNION {scan.plan[w].rules : w \in DOMAIN scan.plan} = scan.plan[v].rules
      BY <2>2, <2>3
    <3> QED BY <3>2, <3>3
  <2>8. StoreTypeOK'
    BY DEF RefinementInv, ScanInv, StoreInv
  <2> QED BY <1>2, <1>3, <2>4, <2>5, <2>6, <2>7, <2>8, PublishStep
<1> QED BY <1>6, WholeRow

\* What a step does to the plan of the scan under way.
LEMMA PlanStep ==
    ASSUME RefinementInv, RefinementInv', [Next]_vars,
           ~ ReuseWhole, ~ WriteWhole, ~ Finalize
    PROVE  \/ scan'.plan = scan.plan
           \/ scan.plan = NoPlan
           \/ scan'.plan = NoPlan
<1>1. ASSUME NEW p \in Procs, Acquire(p)
      PROVE  scan.plan = NoPlan
  BY <1>1, ScanAssumption DEF Acquire, RefinementInv, ScanInv, DriverInv, DriverInPlace, NoScan
<1>2. CASE Finish \/ Crash
  BY <1>2 DEF Finish, Crash, End, NoScan
<1>3. ASSUME NEW p \in Procs, Start(p) \/ Refused(p)
      PROVE  scan' = scan
  BY <1>3 DEF Start, Refused
<1>4. CASE TimePasses \/ CachePrune \/ UNCHANGED vars
  BY <1>4 DEF TimePasses, CachePrune, vars, driverVars
<1>5. CASE \/ AnalysisFails \/ RecordOpen \/ RecordFails \/ Stage
           \/ DiscardOpen \/ Discard \/ DiscardFails \/ LoopDone
           \/ FinalizeOpen \/ FinalizeFails
           \/ CleanupOpen \/ Cleanup \/ TidyOpen \/ Tidy \/ LastCallFails
  BY <1>5 DEF AnalysisFails, RecordOpen, RecordFails, Stage, DiscardOpen, Discard, DiscardFails,
     LoopDone, FinalizeOpen, FinalizeFails, CleanupOpen, Cleanup, TidyOpen, Tidy,
     LastCallFails, Unmoved
<1> QED BY <1>1, <1>2, <1>3, <1>4, <1>5 DEF Next, Driver

\* Readers see a scan's partitions and its policy appear together or not at all,
\* however the driver's calls fail, wherever it dies and however many scans there
\* are (run_with, record_staged, finalize and cleanup_failed_scan of scan.rs).
THEOREM ScanIsAllOrNothing == Spec => AllOrNothing
<1>1. Init => History!Init
  <2> SUFFICES ASSUME Init PROVE History!Init
    OBVIOUS
  <2>1. scan.plan = NoPlan
    BY DEF Init, NoScan
  <2>2. \A r \in RunId : run[r] = NoRow
    BY DEF Init, StoreInit
  <2>3. Completed = {}
    BY <2>2 DEF Completed, NoRow
  <2>4. \A s \in Rules : suppression[s] # "active"
    BY DEF Init, StoreInit
  <2> QED BY <2>1, <2>3, <2>4 DEF History!Init, History!NoPlan, NoPlan
<1>2. RefinementInv /\ RefinementInv' /\ [Next]_vars => [History!Next]_(History!historyVars)
  <2> SUFFICES ASSUME RefinementInv, RefinementInv', [Next]_vars
               PROVE  [History!Next]_(History!historyVars)
    OBVIOUS
  <2>1. CASE ReuseWhole \/ WriteWhole \/ Finalize
    BY <2>1, WholePublishes, FinalizePublishes DEF History!Next
  <2>2. CASE ~ ReuseWhole /\ ~ WriteWhole /\ ~ Finalize
    <3>1. [StoreNext]_storeVars
      BY ScanStep DEF RefinementInv
    <3>2. Visible' = Visible /\ Active' = Active
      BY <2>2, <3>1, HiddenStep
    <3>3. \/ scan'.plan = scan.plan
          \/ scan.plan = NoPlan /\ scan'.plan # NoPlan
          \/ scan.plan # NoPlan /\ scan'.plan = NoPlan
      BY <2>2, PlanStep
    <3>4. CASE scan'.plan = scan.plan
      BY <3>2, <3>4 DEF History!historyVars, Visible, Active
    <3>5. CASE scan.plan = NoPlan /\ scan'.plan # NoPlan
      BY <3>2, <3>5 DEF History!Next, History!Begin, History!NoPlan, NoPlan, Visible, Active
    <3>6. CASE scan.plan # NoPlan /\ scan'.plan = NoPlan
      BY <3>2, <3>6 DEF History!Next, History!GiveUp, History!NoPlan, NoPlan, Visible, Active
    <3> QED BY <3>3, <3>4, <3>5, <3>6
  <2> QED BY <2>1, <2>2
<1> QED BY <1>1, <1>2, RefinementInvariant, PTL DEF Spec, AllOrNothing, History!Spec


(***************************************************************************)
(* The newest invocation is whole, when one scan runs after the other.  Its   *)
(* start time is then later than that of every run completed before, so what  *)
(* it publishes, and nothing else, has the newest one.                        *)
(***************************************************************************)

\* No completed run starts in the future, and a scan that has not published yet
\* started after all of them.
StartsInOrder ==
    /\ \A r \in Completed : run[r].snap.started <= now
    /\ \A p \in Procs :
          stamp[p] # 0 /\ (lease = p => scan.plan # NoPlan) =>
             \A r \in Completed : run[r].snap.started < stamp[p]

\* The runs that started with the newest one were published together with it.
NewestTogether ==
    \A t \in Completed : (\A q \in Completed \ {t} : Newer(t, q)) =>
       {r \in Completed : run[r].snap.started = run[t].snap.started} = cohort[t]

\* Completed runs and stamps carry times.
LEMMA StartsAreTimes ==
    ASSUME RefinementInv
    PROVE  /\ \A r \in Completed : r \in RunId /\ run[r].snap \in Snapshot
                                   /\ run[r].snap.started \in Nat
           /\ \A p \in Procs : stamp[p] \in Nat /\ stamp[p] <= now
           /\ now \in Nat
<1>1. StoreTypeOK
  BY DEF RefinementInv, ScanInv, StoreInv
<1>2. \A r \in Completed : r \in RunId /\ run[r] \in Row
  BY <1>1, RecordedRow DEF Completed
<1>3. Time \subseteq Nat
  BY SnapshotAssumption DEF Time
<1>4. \A r \in Completed : run[r].snap \in Snapshot /\ run[r].snap.started \in Nat
  BY <1>2, <1>3 DEF Row, Snapshot
<1>5. \A p \in Procs : stamp[p] \in Nat /\ stamp[p] <= now
  BY <1>3 DEF RefinementInv, ScanInv, DriverInv, DriverTyped, DriverInPlace
<1>6. now \in Nat
  BY <1>1, <1>3 DEF StoreTypeOK
<1> QED BY <1>2, <1>4, <1>5, <1>6

\* What a finalization publishes: its partitions and the runs that stand in.
LEMMA FinalizedTogether ==
    ASSUME RefinementInv, Finalize
    PROVE  \E runs \in SUBSET RunId :
             /\ runs # {} /\ cohort' = Published(runs)
             /\ \A r \in runs : r \in Completed' /\ run'[r].snap.started = stamp[lease]
             /\ \A r \in RunId \ runs : (r \in Completed' <=> r \in Completed) /\ run'[r] = run[r]
<1> DEFINE runs == parts \cup {token[r].reused : r \in retired}
<1>1. FinalizeSnapshotParts(parts, retired) /\ step = "finalize" /\ cohort' = Published(runs)
  BY DEF Finalize
<1>2. /\ pending.part = None /\ Ours # {} /\ scan.plan # NoPlan
  BY <1>1 DEF RefinementInv, ScanInv, DriverInv, DriverTyped, DriverInPlace, PlanInPlace, Staging,
     PartsInPlace
<1>3. /\ Ours = parts \cup retired /\ Mine = parts /\ parts \in SUBSET RunId
      /\ parts \in SUBSET Held /\ retired \in SUBSET Held
  BY <1>2 DEF Ours, Mine, RefinementInv, ScanInv, DriverInv, PartsInPlace, Held
<1>4. /\ \A r \in Ours : token[r].started = stamp[lease]
      /\ \A r \in parts : run[r].snap.started = stamp[lease]
      /\ \A r \in retired : token[r].reused \in Completed
  BY <1>1, <1>2, <1>3 DEF RefinementInv, PlanAnswered, Staging, Covers
<1>5. /\ \A r \in parts : run'[r].status = "completed" /\ run'[r].snap = run[r].snap
      /\ \A x \in retired : \E y \in retired :
            /\ run'[token[x].reused].status = "completed"
            /\ run'[token[x].reused].snap.started = token[y].started
      /\ \A r \in RunId : r \notin parts /\ (\A x \in retired : token[x].reused # r)
                             => run'[r] = run[r]
  BY <1>1, <1>3, <1>4, FinalizedRows DEF RefinementInv, ScanInv
<1>6. runs \in SUBSET RunId /\ runs # {}
  BY <1>2, <1>3, <1>4 DEF Completed
<1>7. \A r \in runs : r \in Completed' /\ run'[r].snap.started = stamp[lease]
  <2>1. ASSUME NEW r \in parts PROVE r \in Completed' /\ run'[r].snap.started = stamp[lease]
    BY <1>3, <1>4, <1>5 DEF Completed, RunId
  <2>2. ASSUME NEW x \in retired
        PROVE  token[x].reused \in Completed' /\ run'[token[x].reused].snap.started = stamp[lease]
    BY <1>3, <1>4, <1>5 DEF Completed, RunId
  <2> QED BY <2>1, <2>2
<1>8. ASSUME NEW r \in RunId \ runs
      PROVE  (r \in Completed' <=> r \in Completed) /\ run'[r] = run[r]
  <2>1. run'[r] = run[r]
    BY <1>5
  <2> QED BY <2>1 DEF Completed, RunId
<1> HIDE DEF runs
<1> QED BY <1>1, <1>6, <1>7, <1>8

\* Publishing: what is published has the newest start, and is one cohort.
LEMMA PublishedTogether ==
    ASSUME RefinementInv, RefinementInv', StartsInOrder,
           \A p, q \in Procs : p = q,
           lease \in Procs, lease' = lease, scan.plan # NoPlan, scan'.plan = NoPlan,
           stamp' = stamp, now' = now,
           NEW runs \in SUBSET RunId, runs # {}, cohort' = Published(runs),
           \A r \in runs : r \in Completed' /\ run'[r].snap.started = stamp[lease],
           \A r \in RunId \ runs : (r \in Completed' <=> r \in Completed) /\ run'[r] = run[r]
    PROVE  StartsInOrder' /\ NewestTogether'
<1>1. /\ \A r \in Completed : r \in RunId /\ run[r].snap.started \in Nat
      /\ stamp[lease] \in Nat /\ stamp[lease] <= now /\ now \in Nat /\ stamp[lease] # 0
  <2>1. lease # Nobody
    BY ScanAssumption
  <2>2. stamp[lease] # 0
    BY <2>1 DEF RefinementInv, PlanInPlace
  <2> QED BY <2>2, StartsAreTimes
<1>2. \A r \in Completed : run[r].snap.started < stamp[lease]
  BY <1>1 DEF StartsInOrder
<1>3. \A r \in Completed' : r \in RunId /\ run'[r].snap.started \in Nat
                            /\ (r \notin runs => run'[r].snap.started < stamp[lease])
  <2>1. \A r \in Completed' : r \in RunId
    BY DEF Completed, RunId
  <2> QED BY <1>1, <1>2, <2>1
<1>4. StartsInOrder'
  <2>1. \A r \in Completed' : run'[r].snap.started <= now'
    BY <1>1, <1>3
  <2>2. \A p \in Procs : lease' = p /\ scan'.plan = NoPlan
    OBVIOUS
  <2> QED BY <2>1, <2>2 DEF StartsInOrder
<1>5. ASSUME NEW t \in Completed', \A q \in Completed' \ {t} : Newer(t, q)'
      PROVE  {r \in Completed' : run'[r].snap.started = run'[t].snap.started} = cohort'[t]
  <2>1. t \in runs
    <3> SUFFICES ASSUME t \notin runs PROVE FALSE
      OBVIOUS
    <3>1. PICK r \in runs : r \in Completed' \ {t}
      OBVIOUS
    <3>2. run'[r].snap.started = stamp[lease] /\ run'[t].snap.started < stamp[lease]
      BY <1>3, <3>1
    <3>3. run'[t].snap.started >= run'[r].snap.started
      BY <1>3, <1>5, <3>1 DEF Newer
    <3> QED BY <1>1, <1>3, <3>2, <3>3
  <2>2. \A r \in Completed' : run'[r].snap.started = run'[t].snap.started <=> r \in runs
    BY <1>1, <1>3, <2>1
  <2>3. {r \in Completed' : run'[r].snap.started = run'[t].snap.started} = runs
    BY <2>2
  <2>4. cohort'[t] = runs
    BY <2>1 DEF Published
  <2> QED BY <2>3, <2>4
<1>6. NewestTogether'
  BY <1>5 DEF NewestTogether
<1> QED BY <1>4, <1>6

\* A reader's view tells which runs are complete and when they started.
LEMMA ViewTells ==
    ASSUME RefinementInv, RefinementInv', Visible' = Visible
    PROVE  /\ Completed' = Completed
           /\ \A r \in Completed : run'[r].snap = run[r].snap
<1>1. \A r \in Completed : r \in RunId /\ run[r].snap # NoRow
  BY StartsAreTimes DEF Snapshot, NoRow
<1>2. \A r \in Completed' : r \in RunId /\ run'[r].snap # NoRow
  <2>1. StoreTypeOK'
    BY DEF RefinementInv, ScanInv, StoreInv
  <2>2. \A r \in Completed' : r \in RunId /\ run'[r] \in Row
    BY <2>1 DEF Completed, StoreTypeOK, RunId, Row, Snapshot, Time, NoRow
  <2>3. \A r \in Completed' : run'[r].snap \in Snapshot
    BY <2>2 DEF Row
  <2> QED BY <2>2, <2>3 DEF Snapshot, NoRow
<1>3. \A r \in RunId : Visible'[r] = Visible[r]
  OBVIOUS
<1>4. \A r \in RunId : /\ Visible[r] = IF r \in Completed THEN run[r].snap ELSE NoRow
                       /\ Visible'[r] = IF r \in Completed' THEN run'[r].snap ELSE NoRow
  BY DEF Visible, RunId
<1> QED BY <1>1, <1>2, <1>3, <1>4

\* A step that publishes nothing leaves the runs and their starts as they were,
\* and only a start makes a new stamp.
LEMMA HiddenTogether ==
    ASSUME RefinementInv, RefinementInv', StartsInOrder, NewestTogether,
           \A p, q \in Procs : p = q,
           [Next]_vars, [StoreNext]_storeVars, ~ ReuseWhole, ~ WriteWhole, ~ Finalize
    PROVE  StartsInOrder' /\ NewestTogether'
<1>1. Completed' = Completed /\ \A r \in Completed : run'[r].snap = run[r].snap
  BY HiddenStep, ViewTells
<1>2. cohort' = cohort
  <2>1. CASE \/ AnalysisFails \/ RecordOpen \/ RecordFails \/ Stage
             \/ DiscardOpen \/ Discard \/ DiscardFails \/ LoopDone
             \/ FinalizeOpen \/ FinalizeFails
             \/ CleanupOpen \/ Cleanup \/ TidyOpen \/ Tidy \/ LastCallFails
    BY <2>1 DEF AnalysisFails, RecordOpen, RecordFails, Stage, DiscardOpen, Discard, DiscardFails,
       LoopDone, FinalizeOpen, FinalizeFails, CleanupOpen, Cleanup, TidyOpen, Tidy, LastCallFails
  <2>2. CASE Finish \/ Crash \/ TimePasses \/ CachePrune \/ UNCHANGED vars
    BY <2>2 DEF Finish, Crash, End, TimePasses, CachePrune, vars, ghostVars
  <2>3. ASSUME NEW p \in Procs, Start(p) \/ Acquire(p) \/ Refused(p) PROVE cohort' = cohort
    BY <2>3 DEF Start, Acquire, Refused, ghostVars
  <2> QED BY <2>1, <2>2, <2>3 DEF Next, Driver
<1>3. NewestTogether'
  <2>1. \A t, q \in Completed : Newer(t, q)' <=> Newer(t, q)
    BY <1>1 DEF Newer
  <2>2. \A t \in Completed :
          {r \in Completed' : run'[r].snap.started = run'[t].snap.started}
            = {r \in Completed : run[r].snap.started = run[t].snap.started}
    BY <1>1
  <2> QED BY <1>1, <1>2, <2>1, <2>2 DEF NewestTogether
<1>4. now' \in Nat /\ now <= now' /\ now \in Nat
  <2>1. now' = now \/ now' = now + 1
    BY DEF StoreNext, storeVars, Tick, OpenStore, RecordSnapshotWithPredecessor,
       RecordSnapshotPartStaged, ConfirmReusedRun, DiscardRun, FinalizeSnapshotParts, FinalizeFail,
       FinalizeFailUnclean, AbortSnapshotParts, Prune, ProcessExit
  <2> QED BY <2>1, StartsAreTimes
<1>5. \A r \in Completed' : run'[r].snap.started <= now'
  BY <1>1, <1>4, StartsAreTimes DEF StartsInOrder
<1>6. ASSUME NEW p \in Procs, stamp'[p] # 0, lease' = p => scan'.plan # NoPlan
      PROVE  \A r \in Completed : run[r].snap.started < stamp'[p]
  <2>1. CASE Start(p)
    <3>1. stamp'[p] = now + 1
      BY <2>1 DEF Start, Tick, RefinementInv, ScanInv, DriverInv, DriverTyped
    <3> QED BY <3>1, StartsAreTimes DEF StartsInOrder
  <2>2. CASE ~ Start(p)
    <3>1. CASE stamp' = stamp /\ lease' = lease /\ scan' = scan
      BY <1>6, <3>1 DEF StartsInOrder
    <3>2. ASSUME NEW q \in Procs, Acquire(q)
          PROVE  \A r \in Completed : run[r].snap.started < stamp'[p]
      <4>1. stamp' = stamp /\ lease # p
        BY <3>2, ScanAssumption DEF Acquire
      <4> QED BY <1>6, <4>1 DEF StartsInOrder
    <3>3. /\ lease \in Procs \cup {Nobody} /\ stamp \in [Procs -> Time]
          /\ step # "idle" => lease # Nobody
      BY DEF RefinementInv, ScanInv, DriverInv, DriverTyped, DriverInPlace
    <3>4. \A q \in Procs : ~ Refused(q)
      BY <3>3 DEF Refused
    <3>5. ~ Finish /\ ~ Crash
      <4>1. ASSUME Finish \/ Crash PROVE FALSE
        <5>1. lease \in Procs /\ End(lease)
          BY <3>3, <4>1 DEF Finish, Crash
        <5>2. lease = p
          BY <5>1
        <5> QED BY <1>6, <3>3, <5>1, <5>2 DEF End
      <4> QED BY <4>1
    <3>6. CASE \/ AnalysisFails \/ RecordOpen \/ RecordFails \/ Stage
               \/ DiscardOpen \/ Discard \/ DiscardFails \/ LoopDone
               \/ FinalizeOpen \/ FinalizeFails
               \/ CleanupOpen \/ Cleanup \/ TidyOpen \/ Tidy \/ LastCallFails
      BY <3>1, <3>6 DEF AnalysisFails, RecordOpen, RecordFails, Stage, DiscardOpen, Discard,
         DiscardFails, LoopDone, FinalizeOpen, FinalizeFails, CleanupOpen, Cleanup, TidyOpen,
         Tidy, LastCallFails, Unmoved
    <3>7. CASE TimePasses \/ CachePrune \/ UNCHANGED vars
      BY <3>1, <3>7 DEF TimePasses, CachePrune, vars, driverVars
    <3>8. ASSUME NEW q \in Procs, Start(q) PROVE FALSE
      BY <2>2, <3>8
    <3> QED BY <3>2, <3>4, <3>5, <3>6, <3>7, <3>8 DEF Next, Driver
  <2> QED BY <2>1, <2>2
<1>7. StartsInOrder'
  BY <1>1, <1>5, <1>6 DEF StartsInOrder
<1> QED BY <1>3, <1>7

\* When scans follow one another, the newest invocation is read back whole: every
\* partition its scan published or reused, and no run of another scan
\* (latest_completed_invocation; started_at of run_with).  One scan process at a
\* time is needed: MCStaleStamp shows how two lose it.
THEOREM NewestIsWhole ==
    ASSUME \A p, q \in Procs : p = q
    PROVE  Spec => []LatestInvocationWhole
<1> DEFINE Inv == RefinementInv /\ StartsInOrder /\ NewestTogether
<1>1. Init => Inv
  <2> SUFFICES ASSUME Init PROVE StartsInOrder /\ NewestTogether /\ RefinementInv
    OBVIOUS
  <2>1. Completed = {}
    BY DEF Init, StoreInit, Completed, NoRow, RunId
  <2>2. RefinementInv
    BY RefinementInit
  <2> QED BY <2>1, <2>2 DEF StartsInOrder, NewestTogether
<1>2. Inv /\ RefinementInv' /\ [Next]_vars => Inv'
  <2> SUFFICES ASSUME RefinementInv, StartsInOrder, NewestTogether, RefinementInv', [Next]_vars
               PROVE  StartsInOrder' /\ NewestTogether'
    OBVIOUS
  <2>1. CASE Finalize
    <3>1. /\ step = "finalize" /\ scan' = [scan EXCEPT !.plan = NoPlan]
          /\ UNCHANGED <<stamp, lease, now>>
      BY <2>1 DEF Finalize, FinalizeSnapshotParts
    <3>2. PICK runs \in SUBSET RunId :
             /\ runs # {} /\ cohort' = Published(runs)
             /\ \A r \in runs : r \in Completed' /\ run'[r].snap.started = stamp[lease]
             /\ \A r \in RunId \ runs : (r \in Completed' <=> r \in Completed) /\ run'[r] = run[r]
      BY <2>1, FinalizedTogether
    <3>3. lease \in Procs /\ scan.plan # NoPlan /\ scan'.plan = NoPlan
      BY <3>1 DEF RefinementInv, ScanInv, DriverInv, DriverTyped, DriverInPlace, PlanInPlace, Staging
    <3> QED BY <3>1, <3>2, <3>3, PublishedTogether
  <2>2. CASE ReuseWhole \/ WriteWhole
    <3>1. /\ step = "write" /\ todo # {} /\ scan' = [scan EXCEPT !.plan = NoPlan]
          /\ UNCHANGED <<stamp, lease, now>>
      BY <2>2 DEF ReuseWhole, WriteWhole, ConfirmReusedRun, RecordSnapshotWithPredecessor
    <3>2. PICK r \in RunId :
             /\ r \in Completed' /\ run'[r].snap.started = stamp[lease]
             /\ \A q \in RunId : q # r => (q \in Completed' <=> q \in Completed) /\ run'[q] = run[q]
             /\ cohort' = Published({r})
      BY <2>2, WholeRow
    <3>3. lease \in Procs /\ scan.plan # NoPlan /\ scan'.plan = NoPlan
      BY <3>1 DEF RefinementInv, ScanInv, DriverInv, DriverTyped, DriverInPlace
    <3> QED BY <3>1, <3>2, <3>3, PublishedTogether
  <2>3. CASE ~ ReuseWhole /\ ~ WriteWhole /\ ~ Finalize
    <3>1. [StoreNext]_storeVars
      BY ScanStep DEF RefinementInv
    <3> QED BY <2>3, <3>1, HiddenTogether
  <2> QED BY <2>1, <2>2, <2>3
<1>3. Inv => LatestInvocationWhole
  <2> SUFFICES ASSUME Inv, Completed # {}
               PROVE  LatestInvocation = cohort[Newest(Completed)]
    BY DEF LatestInvocationWhole
  <2>1. /\ Newest(Completed) \in Completed
        /\ \A q \in Completed \ {Newest(Completed)} : Newer(Newest(Completed), q)
    BY NewestExists DEF RefinementInv, ScanInv, StoreInv
  <2> QED BY <2>1 DEF NewestTogether, LatestInvocation
<1> QED BY <1>1, <1>2, <1>3, RefinementInvariant, PTL DEF Spec
=============================================================================
