-------------------------- MODULE Records_proofs --------------------------
(***************************************************************************)
(* What the database remembers beyond one scan, for any number of commands,   *)
(* readers, analyses, groups and contents.  Three invariants carry the ledger: *)
(* what a reader has listed is still there and each measurement still has its  *)
(* analysis (Recorded); only the holder of the lease is at work, so what a     *)
(* compare selected is still the newest (Exclusive); rows are finitely many     *)
(* with ids of their own, so that recency orders them (RetentionInv).  For the *)
(* lineage the type of the rows is all the induction needs: a group is          *)
(* connected to a member of Strongest, a group of the run before.              *)
(***************************************************************************)
EXTENDS AnalysisLedger, LineageHistory, FiniteSetTheorems, TLAPS

HasAnalysis(m, rows) == \E a \in rows : a.id = m.analysis

\* A measurement has its analysis, and a summary under way has listed only
\* measurements that are still there.
Recorded ==
    /\ reader = [r \in Readers |-> reader[r]]
    /\ \A m \in calibrations : HasAnalysis(m, analyses)
    /\ \A r \in Readers : reader[r].reads = "measurements" => reader[r].has \subseteq calibrations

\* The selection of a compare is the newest match.
SelectionHolds(c) ==
    \E a \in analyses :
        /\ a.id = picked[c].analysis
        /\ a \in Newest(Matching(a.artifact, picked[c].group))

\* Whoever works holds the lease, and what it selected is still the newest.
Exclusive ==
    /\ at = [c \in Commands |-> at[c]]
    /\ picked = [c \in Commands |-> picked[c]]
    /\ \A c \in Commands : at[c] # "idle" => lease = c
    /\ \A c \in Commands : at[c] = "measuring" => SelectionHolds(c)

-----------------------------------------------------------------------------
\* A prune removes no analysis that a measurement evaluates, and so no
\* measurement.
LEMMA PruneKeepsMeasured ==
    ASSUME NEW c \in Commands, Prune(c)
    PROVE  /\ calibrations' = calibrations
           /\ \A m \in calibrations : HasAnalysis(m, analyses) => HasAnalysis(m, analyses')
<1>1. PICK keepAnalyses \in Keeps :
        /\ analyses' = analyses \ (analyses \ Kept(keepAnalyses))
        /\ calibrations' = {m \in calibrations :
                \A a \in analyses \ Kept(keepAnalyses) : a.id # m.analysis}
  BY DEF Prune
<1>2. \A m \in calibrations, a \in analyses : a.id = m.analysis => a \in Kept(keepAnalyses)
  BY DEF Kept
<1> QED BY <1>1, <1>2 DEF HasAnalysis

\* What every command's step does to the two tables.
LEMMA LedgerStep ==
    ASSUME NEW c \in Commands, Writing(c)
    PROVE  /\ calibrations \subseteq calibrations'
           /\ \A m \in calibrations : HasAnalysis(m, analyses) => HasAnalysis(m, analyses')
           /\ \A m \in calibrations' \ calibrations : HasAnalysis(m, analyses')
           /\ UNCHANGED reader
<1>1. ASSUME NEW work, Begin(c, work)
      PROVE  UNCHANGED <<analyses, calibrations, reader>>
  BY <1>1 DEF Begin, ledger
<1>2. CASE Fail(c)
  BY <1>2 DEF Fail, ledger
<1>3. CASE Analyze(c)
  BY <1>3 DEF Analyze, HasAnalysis
<1>4. CASE Select(c)
  BY <1>4 DEF Select, ledger
<1>5. CASE Measure(c)
  BY <1>5 DEF Measure, HasAnalysis
<1>6. CASE Scan(c)
  BY <1>6 DEF Scan
<1>7. CASE Prune(c)
  <2>1. UNCHANGED reader
    BY <1>7 DEF Prune
  <2> QED BY <1>7, <2>1, PruneKeepsMeasured
<1> QED BY <1>1, <1>2, <1>3, <1>4, <1>5, <1>6, <1>7 DEF Writing

\* A reader changes no table, and lists only what is in the ledger.
LEMMA ReaderStep ==
    ASSUME NEW r \in Readers, ReadingStep(r), Recorded
    PROVE  /\ UNCHANGED <<analyses, calibrations>>
           /\ \E value : reader' = [reader EXCEPT ![r] = value]
           /\ reader'[r].reads = "measurements" => reader'[r].has \subseteq calibrations
           /\ reader[r].reads # "missing" => reader'[r].reads # "missing"
<1> USE DEF Reading, ledger
<1>1. ASSUME NEW value, reader' = [reader EXCEPT ![r] = value] PROVE reader'[r] = value
  BY <1>1 DEF Recorded
<1>2. CASE List(r)
  BY <1>1, <1>2 DEF List
<1>3. CASE Identify(r)
  <2>1. reader[r].has \subseteq calibrations
    BY <1>3 DEF Identify, Recorded
  <2>2. ASSUME NEW m \in reader[r].has PROVE \E a \in analyses : a.id = m.analysis
    BY <2>1, <2>2 DEF Recorded, HasAnalysis
  <2>3. UNCHANGED <<analyses, calibrations>>
    BY <1>3 DEF Identify
  <2>4. ASSUME NEW m \in reader[r].has, Reading(r, "measurements", reader[r].has \ {m})
        PROVE  /\ \E value : reader' = [reader EXCEPT ![r] = value]
               /\ reader'[r].has \subseteq calibrations /\ reader'[r].reads # "missing"
    <3>1. reader'[r] = [reads |-> "measurements", has |-> reader[r].has \ {m}]
      BY <1>1, <2>4
    <3>2. \E value : reader' = [reader EXCEPT ![r] = value]
      BY <2>4, Zenon
    <3>3. reader'[r].has \subseteq calibrations /\ reader'[r].reads # "missing"
      BY <2>1, <3>1
    <3> QED BY <3>2, <3>3
  <2>5. CASE \E m \in reader[r].has : Reading(r, "measurements", reader[r].has \ {m})
    BY <2>3, <2>4, <2>5
  <2>6. CASE Reading(r, "nothing", Nothing)
    BY <1>1, <2>3, <2>6
  <2>7. \/ \E m \in reader[r].has : Reading(r, "measurements", reader[r].has \ {m})
        \/ Reading(r, "nothing", Nothing)
    BY <1>3, <2>2 DEF Identify
  <2> QED BY <2>5, <2>6, <2>7
<1>4. CASE Find(r)
  <2>1. PICK a \in analyses : reader' = [reader EXCEPT ![r] = [reads |-> "id", has |-> a.id]]
    BY <1>4 DEF Find
  <2>2. reader'[r] = [reads |-> "id", has |-> a.id]
    BY <1>1, <2>1
  <2>3. UNCHANGED <<analyses, calibrations>>
    BY <1>4 DEF Find
  <2>4. reader'[r].reads \notin {"measurements", "missing"}
    BY <2>2
  <2>5. \E value : reader' = [reader EXCEPT ![r] = value]
    BY <2>1, Zenon
  <2> QED BY <2>3, <2>4, <2>5
<1>5. CASE Load(r)
  <2> HIDE DEF Reading
  <2>0. \E what \in {"document", "nothing"} : \E value : Reading(r, what, value)
    BY <1>5 DEF Load
  <2> USE DEF Reading
  <2>1. PICK what \in {"document", "nothing"} : \E value :
          reader' = [reader EXCEPT ![r] = [reads |-> what, has |-> value]]
    BY <2>0
  <2>5. PICK value : reader' = [reader EXCEPT ![r] = [reads |-> what, has |-> value]]
    BY <2>1
  <2>2. reader'[r] = [reads |-> what, has |-> value]
    BY <1>1, <2>5
  <2>3. UNCHANGED <<analyses, calibrations>>
    BY <1>5 DEF Load
  <2>4. reader'[r].reads \notin {"measurements", "missing"}
    BY <2>1, <2>2
  <2> QED BY <2>1, <2>3, <2>4
<1>6. CASE Render(r)
  BY <1>1, <1>6 DEF Render
<1>7. CASE Leave(r)
  BY <1>1, <1>7 DEF Leave
<1> QED BY <1>2, <1>3, <1>4, <1>5, <1>6, <1>7 DEF ReadingStep

\* Nothing is measured at first.
LEMMA RecordedInit == Init => Recorded /\ SummariesComplete
BY DEF Init, Recorded, SummariesComplete

\* After every step each measurement still has its analysis.
LEMMA RecordedStep ==
    Recorded /\ SummariesComplete /\ [Next]_vars => Recorded' /\ SummariesComplete'
<1> SUFFICES ASSUME Recorded, SummariesComplete, [Next]_vars
             PROVE  Recorded' /\ SummariesComplete'
  OBVIOUS
<1>1. ASSUME NEW c \in Commands, Writing(c) PROVE Recorded' /\ SummariesComplete'
  <2>1. \A m \in calibrations' : HasAnalysis(m, analyses')
    BY <1>1, LedgerStep DEF Recorded
  <2>2. calibrations \subseteq calibrations' /\ UNCHANGED reader
    BY <1>1, LedgerStep
  <2> QED BY <2>1, <2>2 DEF Recorded, SummariesComplete
<1>2. ASSUME NEW r \in Readers, ReadingStep(r) PROVE Recorded' /\ SummariesComplete'
  <2>1. PICK value : reader' = [reader EXCEPT ![r] = value]
    BY <1>2, ReaderStep
  <2>2. reader' = [q \in Readers |-> reader'[q]] /\ \A q \in Readers \ {r} : reader'[q] = reader[q]
    BY <2>1 DEF Recorded
  <2>3. UNCHANGED <<analyses, calibrations>>
    BY <1>2, ReaderStep
  <2>4. /\ reader'[r].reads = "measurements" => reader'[r].has \subseteq calibrations
        /\ reader'[r].reads # "missing"
    BY <1>2, ReaderStep DEF SummariesComplete
  <2> QED BY <2>2, <2>3, <2>4 DEF Recorded, SummariesComplete
<1>3. CASE UNCHANGED vars
  BY <1>3 DEF vars, Recorded, SummariesComplete
<1> QED BY <1>1, <1>2, <1>3 DEF Next

\* A summary that reads without the lease finds the analysis of every
\* measurement it listed, whatever is pruned meanwhile.
THEOREM SummariesAreComplete == Spec => []SummariesComplete
<1>1. Recorded /\ SummariesComplete /\ [Next]_vars => (Recorded /\ SummariesComplete)'
  BY RecordedStep
<1> QED BY RecordedInit, <1>1, PTL DEF Spec

\* No command and no limit loses a measurement.
THEOREM MeasurementsEndure == Spec => LedgerEndures
<1>1. ASSUME Recorded, [Next]_vars PROVE calibrations \subseteq calibrations'
  <2>1. ASSUME NEW c \in Commands, Writing(c) PROVE calibrations \subseteq calibrations'
    BY <2>1, LedgerStep
  <2>2. ASSUME NEW r \in Readers, ReadingStep(r) PROVE calibrations \subseteq calibrations'
    BY <1>1, <2>2, ReaderStep
  <2> QED BY <1>1, <2>1, <2>2 DEF Next, vars
<1>2. Recorded /\ [Next]_vars => [calibrations \subseteq calibrations']_vars
  BY <1>1
<1>3. Recorded /\ SummariesComplete /\ [Next]_vars => (Recorded /\ SummariesComplete)'
  BY RecordedStep
<1> QED BY RecordedInit, <1>2, <1>3, PTL DEF Spec, LedgerEndures

-----------------------------------------------------------------------------
\* Nobody holds the lease at first.
LEMMA ExclusiveInit == Init => Exclusive
BY DEF Init, Exclusive

\* Ending gives the lease back to nobody and leaves the others as they were.
LEMMA EndsStep ==
    ASSUME Exclusive, NEW c \in Commands, at[c] # "idle", Ends(c)
    PROVE  Exclusive'
<1>1. /\ at' = [x \in Commands |-> at'[x]] /\ picked' = [x \in Commands |-> picked'[x]]
      /\ at'[c] = "idle"
      /\ \A x \in Commands \ {c} : at'[x] = at[x]
  BY DEF Ends, Exclusive
<1>2. \A x \in Commands \ {c} : at[x] = "idle"
  BY DEF Exclusive
<1> QED BY <1>1, <1>2 DEF Exclusive

\* Only the holder of the lease writes, and it is one command.
LEMMA ExclusiveStep == Exclusive /\ [Next]_vars => Exclusive'
<1> SUFFICES ASSUME Exclusive, [Next]_vars PROVE Exclusive'
  OBVIOUS
<1>1. ASSUME NEW c \in Commands, NEW work \in {"analyzing", "comparing", "pruning", "scanning"},
             Begin(c, work)
      PROVE  Exclusive'
  <2>1. \A x \in Commands : at[x] = "idle"
    BY <1>1, LedgerAssumption DEF Begin, Acquire, Exclusive
  <2>2. /\ at' = [x \in Commands |-> at'[x]] /\ at'[c] = work /\ lease' = c
        /\ \A x \in Commands \ {c} : at'[x] = "idle"
        /\ UNCHANGED picked
    BY <1>1, <2>1 DEF Begin, Exclusive
  <2> QED BY <2>2 DEF Exclusive
<1>2. ASSUME NEW c \in Commands, Select(c) PROVE Exclusive'
  <2>1. PICK before \in Artifacts, after \in Artifacts, group \in Groups, a \in analyses :
          /\ a \in Newest(Matching(before, group))
          /\ picked' = [picked EXCEPT ![c] = [analysis |-> a.id, group |-> group, after |-> after]]
    BY <1>2 DEF Select
  <2>2. /\ at' = [x \in Commands |-> at'[x]] /\ picked' = [x \in Commands |-> picked'[x]]
        /\ at'[c] = "measuring"
        /\ picked'[c].analysis = a.id /\ picked'[c].group = group
        /\ \A x \in Commands \ {c} : at'[x] = at[x]
        /\ UNCHANGED <<analyses, lease>>
    BY <1>2, <2>1 DEF Select, Exclusive, ledger
  <2>3. at[c] # "idle"
    BY <1>2 DEF Select
  <2>4. lease = c /\ \A x \in Commands \ {c} : at[x] = "idle"
    BY <2>3 DEF Exclusive
  <2>5. a.artifact = before
    BY <2>1 DEF Newest, Matching
  <2>6. SelectionHolds(c)'
    BY <2>1, <2>2, <2>5 DEF SelectionHolds, Matching
  <2> QED BY <2>2, <2>4, <2>6 DEF Exclusive
<1>3. ASSUME NEW c \in Commands, Fail(c) \/ Analyze(c) \/ Measure(c) \/ Scan(c) \/ Prune(c)
      PROVE  Exclusive'
  <2>1. at[c] # "idle" /\ Ends(c)
    BY <1>3 DEF Fail, Analyze, Measure, Scan, Prune
  <2> QED BY <2>1, EndsStep
<1>4. ASSUME NEW r \in Readers, ReadingStep(r) PROVE Exclusive'
  <2>1. UNCHANGED <<analyses, lease, at, picked>>
    BY <1>4 DEF ReadingStep, List, Identify, Find, Load, Render, Leave, ledger
  <2> QED BY <2>1 DEF Exclusive, SelectionHolds, Matching
<1>5. CASE UNCHANGED vars
  BY <1>5 DEF vars, Exclusive, SelectionHolds, Matching
<1> QED BY <1>1, <1>2, <1>3, <1>4, <1>5 DEF Next, Writing

\* What a compare records evaluates the newest matching estimate.
THEOREM ComparesMeasureTheNewest == Spec => MeasuresTheNewest
<1>1. ASSUME Exclusive
      PROVE  \A c \in Commands : at[c] = "measuring" /\ calibrations' # calibrations =>
                \E a \in analyses :
                   /\ a.id = picked[c].analysis
                   /\ a \in Newest(Matching(a.artifact, picked[c].group))
  BY <1>1 DEF Exclusive, SelectionHolds
<1>2. Exclusive /\ [Next]_vars =>
        [\A c \in Commands : at[c] = "measuring" /\ calibrations' # calibrations =>
            \E a \in analyses :
               /\ a.id = picked[c].analysis
               /\ a \in Newest(Matching(a.artifact, picked[c].group))]_vars
  BY <1>1
<1> QED BY ExclusiveInit, ExclusiveStep, <1>2, PTL DEF Spec, MeasuresTheNewest

\* Measurements endure, and each was made against the newest estimate.
THEOREM LedgerKept == Spec => LedgerIsKept
BY MeasurementsEndure, ComparesMeasureTheNewest, PTL DEF LedgerIsKept

-----------------------------------------------------------------------------
(***************************************************************************)
(* Retention is honest.  Recency is a total order on rows whose ids are       *)
(* distinct, so of finitely many there is a newest; and the closure over the  *)
(* foreign keys holds every table a row can be lost from.                     *)
(***************************************************************************)

\* Numbers that are there have a least one among them.
LEMMA LeastNumber ==
    ASSUME NEW T \in SUBSET Nat, T # {}
    PROVE  \E x \in T : \A y \in T : x <= y
<1> DEFINE Less == OpToRel(<, Nat)
<1>1. IsWellFoundedOn(Less, Nat)
  BY NatLessThanWellFounded, Zenon
<1> HIDE DEF Less
<1>2. PICK x \in T : \A y \in T : ~ (<<y, x>> \in Less)
  BY <1>1, WFMin, Zenon
<1>3. ASSUME NEW y \in T, y < x PROVE <<y, x>> \in Less
  <2>1. <<y, x>> \in Nat \X Nat /\ <<y, x>>[1] < <<y, x>>[2]
    BY <1>3
  <2> QED BY <2>1 DEF Less, OpToRel
<1>4. \A y \in T : ~ (y < x)
  BY <1>2, <1>3
<1>5. \A y \in T : x <= y
  BY <1>4
<1> QED BY <1>5

\* Rows that recency can compare, with the ids a row is given.
Comparable(rows, last) ==
    /\ IsFiniteSet(rows)
    /\ \A a \in rows : a.started \in Nat /\ a.id \in Nat /\ a.id <= last

Distinct(rows) == \A a, b \in rows : a.id = b.id => a = b

\* The id of a new row is the least past all there are.
LEMMA FreshIdIsNew ==
    ASSUME NEW rows, NEW last \in Nat, last < MaxSerial, Comparable(rows, last)
    PROVE  /\ FreshId(rows) \in Nat /\ FreshId(rows) <= last + 1
           /\ \A a \in rows : a.id < FreshId(rows)
<1> DEFINE Past == {n \in Nat \ {0} : \A a \in rows : a.id < n}
           Fresh(n) == (\A a \in rows : a.id < n) /\ (n = 1 \/ \E a \in rows : a.id = n - 1)
<1>1. last + 1 \in Past
  BY DEF Comparable
<1>2. PICK n \in Past : \A k \in Past : n <= k
  BY <1>1, LeastNumber
<1>3. Cardinality(rows) \in Nat /\ MaxSerial \in Nat
  BY FS_CardinalityType, LedgerAssumption DEF Comparable
<1>4. n \in 1 .. (Cardinality(rows) + MaxSerial + 1)
  BY <1>1, <1>2, <1>3
<1>5. Fresh(n)
  <2>1. CASE n = 1
    BY <1>2, <2>1
  <2>2. CASE n # 1
    <3>1. n - 1 \in Nat \ {0} /\ n - 1 \notin Past
      BY <1>2, <2>2
    <3>2. PICK a \in rows : ~ (a.id < n - 1)
      BY <3>1
    <3>3. a.id \in Nat /\ a.id < n
      BY <1>2 DEF Comparable
    <3>4. a.id = n - 1
      BY <1>2, <3>2, <3>3
    <3> QED BY <1>2, <3>4
  <2> QED BY <2>1, <2>2
<1>6. /\ FreshId(rows) \in 1 .. (Cardinality(rows) + MaxSerial + 1)
      /\ Fresh(FreshId(rows))
  BY <1>4, <1>5 DEF FreshId
<1>7. FreshId(rows) = 1 \/ \E a \in rows : a.id = FreshId(rows) - 1
  BY <1>6
<1>8. FreshId(rows) \in Nat
  BY <1>3, <1>6
<1> HIDE DEF Fresh
<1>9. FreshId(rows) <= last + 1
  BY <1>7, <1>8 DEF Comparable
<1> QED BY <1>6, <1>8, <1>9 DEF Fresh

\* Recency is a strict order.
LEMMA RecencyOrders ==
    ASSUME NEW rows, NEW last, Comparable(rows, last)
    PROVE  /\ \A a \in rows : ~ Newer(a, a)
           /\ \A a, b \in rows : ~ (Newer(a, b) /\ Newer(b, a))
           /\ \A a, b, c \in rows : Newer(a, b) /\ Newer(b, c) => Newer(a, c)
           /\ Distinct(rows) => \A a, b \in rows : a = b \/ Newer(a, b) \/ Newer(b, a)
  BY DEF Comparable, Newer, Distinct

\* Fewer rows than are kept are all kept.
LEMMA FewAreKept ==
    ASSUME NEW rows, NEW last, Comparable(rows, last), NEW keep \in Nat,
           Cardinality(rows) <= keep
    PROVE  Limited(rows, keep) = rows
<1> SUFFICES ASSUME NEW a \in rows PROVE Cardinality({b \in rows : Newer(b, a)}) < keep
  BY DEF Limited
<1> DEFINE above == {b \in rows : Newer(b, a)}
<1>1. above \in SUBSET rows /\ a \notin above
  BY RecencyOrders
<1>2. IsFiniteSet(rows) /\ Cardinality(rows) \in Nat
  BY FS_CardinalityType DEF Comparable
<1>3. IsFiniteSet(above) /\ Cardinality(above) <= Cardinality(rows)
      /\ (Cardinality(rows) = Cardinality(above) => rows = above)
  BY <1>1, <1>2, FS_Subset
<1>4. Cardinality(above) \in Nat
  BY <1>3, FS_CardinalityType
<1> QED BY <1>1, <1>2, <1>3, <1>4

\* Of finitely many rows one is newer than all others.
LEMMA NewestRow ==
    ASSUME NEW rows, NEW last, Comparable(rows, last), Distinct(rows), rows # {}
    PROVE  \E top \in rows : \A b \in rows \ {top} : Newer(top, b)
<1> DEFINE Above(a) == {b \in rows : Newer(b, a)}
           ranks == {Cardinality(Above(a)) : a \in rows}
<1>1. ASSUME NEW a \in rows PROVE IsFiniteSet(Above(a)) /\ Cardinality(Above(a)) \in Nat
  <2>1. Above(a) \in SUBSET rows /\ IsFiniteSet(rows)
    BY DEF Comparable
  <2>2. IsFiniteSet(Above(a))
    BY <2>1, FS_Subset
  <2> QED BY <2>2, FS_CardinalityType
<1>2. ranks \in SUBSET Nat /\ ranks # {}
  BY <1>1
<1>3. PICK least \in ranks : \A k \in ranks : least <= k
  BY <1>2, LeastNumber
<1>4. PICK top \in rows : least = Cardinality(Above(top))
  BY <1>3
<1>5. ASSUME NEW b \in rows, Newer(b, top) PROVE FALSE
  <2>1. Above(b) \in SUBSET Above(top) /\ b \in Above(top) /\ b \notin Above(b)
    BY <1>5, RecencyOrders
  <2>2. Cardinality(Above(b)) <= Cardinality(Above(top))
        /\ (Cardinality(Above(top)) = Cardinality(Above(b)) => Above(top) = Above(b))
    BY <1>1, <2>1, FS_Subset
  <2>3. Cardinality(Above(b)) < Cardinality(Above(top))
    <3>1. Cardinality(Above(b)) \in Nat /\ Cardinality(Above(top)) \in Nat
      BY <1>1
    <3> HIDE DEF Above
    <3> QED BY <2>1, <2>2, <3>1
  <2>4. Cardinality(Above(b)) \in ranks
    OBVIOUS
  <2>5. Cardinality(Above(b)) \in Nat /\ Cardinality(Above(top)) \in Nat
    BY <1>1
  <2> HIDE DEF Above, ranks
  <2> QED BY <1>3, <1>4, <2>3, <2>4, <2>5
<1> QED BY <1>4, <1>5, RecencyOrders

\* What keeps the newest row of a table keeps it the newest.
LEMMA NewestStays ==
    ASSUME NEW rows, NEW last, Comparable(rows, last), Distinct(rows),
           NEW keep \in Nat, keep # 0, NEW kept \in SUBSET rows, Limited(rows, keep) \subseteq kept
    PROVE  Newest(kept) = Newest(rows)
<1>1. CASE rows = {}
  BY <1>1 DEF Newest
<1>2. CASE rows # {}
  <2>1. PICK top \in rows : \A b \in rows \ {top} : Newer(top, b)
    BY <1>2, NewestRow
  <2>2. {b \in rows : Newer(b, top)} = {}
    BY <2>1, RecencyOrders
  <2>3. Cardinality({b \in rows : Newer(b, top)}) = 0
    BY <2>2, FS_EmptySet
  <2>4. top \in kept
    BY <2>3 DEF Limited
  <2>5. \A b \in rows \ {top} : ~ Newer(b, top)
    BY <2>1, RecencyOrders
  <2>6. Newest(rows) = {top} /\ Newest(kept) = {top}
    BY <2>1, <2>4, <2>5 DEF Newest
  <2> QED BY <2>6
<1> QED BY <1>1, <1>2

-----------------------------------------------------------------------------
(* What a prune can reach. *)

\* Up to four things are finitely many.
LEMMA FewAreFinite ==
    ASSUME NEW a, NEW b, NEW c, NEW d
    PROVE  IsFiniteSet({a, b, c, d})
<1>1. IsFiniteSet({a})
  BY FS_Singleton
<1>2. IsFiniteSet({a} \cup {b})
  BY <1>1, FS_AddElement
<1>3. IsFiniteSet(({a} \cup {b}) \cup {c})
  BY <1>2, FS_AddElement
<1>4. IsFiniteSet((({a} \cup {b}) \cup {c}) \cup {d})
  BY <1>3, FS_AddElement
<1>5. (({a} \cup {b}) \cup {c}) \cup {d} = {a, b, c, d}
  OBVIOUS
<1> QED BY <1>4, <1>5

\* There are enough rounds for a reference of a reference.
LEMMA RoundsAreEnough == Cardinality(Tables) \in Nat /\ Cardinality(Tables) >= 2
<1> DEFINE A == {"scanned_file", "source_unit", "fragment", "clone_group"}
           B == {"clone_group_similarity", "artifact_analysis_correlation",
                 "artifact_analysis_clone_group_savings", "artifact_analysis_savings_calibration"}
           C == {"cross_variant_clone_group", "cross_variant_clone_member",
                 "cross_language_semantic_group", "cross_language_semantic_member"}
           D == {"scan_run", "artifact_analysis", "cross_variant_comparison",
                 "cross_language_comparison"}
           E == {"fingerprint", "scan_run", "scan_run", "scan_run"}
<1>1. IsFiniteSet(A) /\ IsFiniteSet(B) /\ IsFiniteSet(C) /\ IsFiniteSet(D) /\ IsFiniteSet(E)
  BY FewAreFinite
<1>2. Tables = (((A \cup B) \cup C) \cup D) \cup E
  BY DEF Tables, Direct, References
<1> HIDE DEF A, B, C, D, E
<1>3. IsFiniteSet(A \cup B)
  BY <1>1, FS_Union
<1>4. IsFiniteSet((A \cup B) \cup C)
  BY <1>1, <1>3, FS_Union
<1>5. IsFiniteSet(((A \cup B) \cup C) \cup D)
  BY <1>1, <1>4, FS_Union
<1>6. IsFiniteSet(Tables)
  BY <1>1, <1>2, <1>5, FS_Union
<1>7. Cardinality(Tables) \in Nat
  BY <1>6, FS_CardinalityType
<1>8. Cardinality({"scan_run"}) = 1 /\ IsFiniteSet({"scan_run"})
  BY FS_Singleton
<1>9. {"scan_run"} \in SUBSET Tables /\ "fingerprint" \in Tables \ {"scan_run"}
  BY DEF Tables, Direct
<1>10. Cardinality({"scan_run"}) <= Cardinality(Tables)
       /\ (Cardinality(Tables) = Cardinality({"scan_run"}) => Tables = {"scan_run"})
  BY <1>6, <1>9, FS_Subset
<1> QED BY <1>7, <1>8, <1>9, <1>10

\* The rounds of the loop, as a function of how many there have been.
Round(reached, f) ==
    f = [n \in 0 .. Cardinality(Tables) |->
            IF n = 0 THEN reached ELSE f[n - 1] \cup Children(f[n - 1])]

\* There is such a function: were there a first round that none reaches, the one
\* before it would give it.
LEMMA RoundsExist ==
    ASSUME NEW reached
    PROVE  \E f : Round(reached, f)
<1> DEFINE N == Cardinality(Tables)
           Upto(k, f) == f = [n \in 0 .. k |->
                              IF n = 0 THEN reached ELSE f[n - 1] \cup Children(f[n - 1])]
           Missing == {k \in Nat : ~ \E f : Upto(k, f)}
<1>1. Missing = {}
  <2> SUFFICES ASSUME Missing # {} PROVE FALSE
    OBVIOUS
  <2>1. PICK k \in Missing : \A j \in Missing : k <= j
    BY LeastNumber
  <2>k. k \in Nat /\ \A j \in Nat : j \notin Missing => \E f : Upto(j, f)
    OBVIOUS
  <2>2. k # 0
    <3>1. Upto(0, [n \in 0 .. 0 |-> reached])
      OBVIOUS
    <3>2. 0 \notin Missing
      BY <3>1
    <3> QED BY <2>1, <3>2
  <2> HIDE DEF Missing
  <2>3. k - 1 \in Nat /\ k - 1 \notin Missing
    BY <2>1, <2>2, <2>k
  <2>4. PICK f : Upto(k - 1, f)
    BY <2>3, <2>k
  <2> DEFINE g == [n \in 0 .. k |->
                     IF n = k THEN f[k - 1] \cup Children(f[k - 1]) ELSE f[n]]
  <2>5. \A n \in 0 .. k : g[n] = IF n = 0 THEN reached ELSE g[n - 1] \cup Children(g[n - 1])
    <3>1. \A n \in 0 .. k - 1 : f[n] = IF n = 0 THEN reached ELSE f[n - 1] \cup Children(f[n - 1])
      BY <2>3, <2>4
    <3>2. \A n \in 0 .. k - 1 : g[n] = f[n]
      BY <2>k
    <3>3. g[k] = f[k - 1] \cup Children(f[k - 1])
      BY <2>k
    <3> HIDE DEF g
    <3>4. ASSUME NEW n \in 0 .. k
          PROVE  g[n] = IF n = 0 THEN reached ELSE g[n - 1] \cup Children(g[n - 1])
      <4>1. CASE n = k
        <5>1. k - 1 \in 0 .. k - 1 /\ n # 0
          BY <2>2, <2>3, <4>1
        <5>2. g[n - 1] = f[k - 1]
          BY <3>2, <4>1, <5>1
        <5> QED BY <3>3, <4>1, <5>1, <5>2
      <4>2. CASE n # k
        <5>1. n \in 0 .. k - 1 /\ (n # 0 => n - 1 \in 0 .. k - 1)
          BY <2>k, <2>3, <4>2
        <5>2. g[n] = f[n] /\ (n # 0 => g[n - 1] = f[n - 1])
          BY <3>2, <5>1
        <5> QED BY <3>1, <5>1, <5>2
      <4> QED BY <4>1, <4>2
    <3> QED BY <3>4
  <2>6. Upto(k, g)
    <3>1. g = [n \in 0 .. k |-> g[n]]
      OBVIOUS
    <3> HIDE DEF g
    <3> QED BY <2>5, <3>1
  <2> HIDE DEF g, Upto
  <2> QED BY <2>1, <2>6 DEF Missing
<1>2. N \in Nat
  BY RoundsAreEnough
<1>3. \E f : Upto(N, f)
  BY <1>1, <1>2
<1> QED BY <1>3 DEF Round

\* A prune watches what it starts from, what references that, and what
\* references that again.
LEMMA ClosureReaches ==
    ASSUME NEW reached
    PROVE  /\ reached \subseteq Closure(reached)
           /\ Children(reached) \subseteq Closure(reached)
           /\ Children(Children(reached)) \subseteq Closure(reached)
<1> DEFINE N == Cardinality(Tables)
           after == CHOOSE f : Round(reached, f)
<1>1. Round(reached, after)
  BY RoundsExist
<1>2. Closure(reached) = after[N]
  BY DEF Closure, Round
<1> HIDE DEF after
<1>3. N \in Nat /\ N >= 2
  BY RoundsAreEnough
<1>4. /\ after[0] = reached
      /\ \A n \in 0 .. N : n # 0 => after[n] = after[n - 1] \cup Children(after[n - 1])
  <2>1. PICK f : /\ f = [n \in 0 .. N |->
                          IF n = 0 THEN reached ELSE after[n - 1] \cup Children(after[n - 1])]
                 /\ f = after
    BY <1>1 DEF Round
  <2>2. \A n \in 0 .. N :
          f[n] = IF n = 0 THEN reached ELSE after[n - 1] \cup Children(after[n - 1])
    BY <2>1
  <2>3. 0 \in 0 .. N
    BY <1>3
  <2> QED BY <2>1, <2>2, <2>3
<1>5. \A S, T : S \subseteq T => Children(S) \subseteq Children(T)
  BY DEF Children
<1>6. \A n \in 0 .. N : reached \subseteq after[n]
  <2> DEFINE Lost == {n \in 0 .. N : ~ (reached \subseteq after[n])}
  <2> SUFFICES ASSUME Lost # {} PROVE FALSE
    OBVIOUS
  <2>1. Lost \in SUBSET Nat
    BY <1>3
  <2>2. PICK n \in Lost : \A k \in Lost : n <= k
    BY <2>1, LeastNumber
  <2>3. n \in 0 .. N /\ n # 0 /\ n - 1 \in 0 .. N
    BY <1>3, <1>4, <2>2
  <2>4. n - 1 \notin Lost
    BY <2>2, <2>3
  <2> QED BY <1>4, <2>2, <2>3, <2>4
<1>7. \A n \in 0 .. N : n # 0 => Children(reached) \subseteq after[n]
  <2> SUFFICES ASSUME NEW n \in 0 .. N, n # 0 PROVE Children(reached) \subseteq after[n]
    OBVIOUS
  <2>1. n - 1 \in 0 .. N
    BY <1>3
  <2> QED BY <1>4, <1>5, <1>6, <2>1
<1>8. Children(Children(reached)) \subseteq after[N]
  <2>1. N - 1 \in 0 .. N /\ N - 1 # 0 /\ N \in 0 .. N /\ N # 0
    BY <1>3
  <2>2. Children(reached) \subseteq after[N - 1]
    BY <1>7, <2>1
  <2> QED BY <1>4, <1>5, <2>1, <2>2
<1>9. N \in 0 .. N /\ N # 0
  BY <1>3
<1> QED BY <1>2, <1>6, <1>7, <1>8, <1>9

-----------------------------------------------------------------------------
(* The invariant of the rows, and what a prune tells. *)

\* Commands are where they can be, and a compare that measures has selected.
CommandsTyped ==
    /\ lease \in Commands \cup {Nothing}
    /\ at \in [Commands -> {"idle", "analyzing", "comparing", "measuring", "pruning", "scanning"}]
    /\ picked \in [Commands -> Calibration \cup {Nothing}]
    /\ \A c \in Commands : at[c] = "measuring" => picked[c] \in Calibration

ReadersTyped ==
    /\ reader = [r \in Readers |-> reader[r]]
    /\ \A r \in Readers : reader[r].reads \in
          {"nothing", "measurements", "missing", "id", "document", "report"}

\* Rows are typed and finitely many, and ids that are there are not given again.
RowsTyped ==
    /\ serial \in 0 .. MaxSerial
    /\ analyses \subseteq Analysis /\ calibrations \subseteq Calibration
    /\ Comparable(analyses, serial) /\ Distinct(analyses)
    /\ Comparable(comparisons, serial)

RetentionInv == CommandsTyped /\ ReadersTyped /\ RowsTyped /\ EveryDeletionIsTold

\* An empty ledger is finite and names no row twice.
LEMMA RetentionInit == Init => RetentionInv
<1> SUFFICES ASSUME Init PROVE RetentionInv
  OBVIOUS
<1>1. CommandsTyped /\ ReadersTyped
  BY DEF Init, CommandsTyped, ReadersTyped
<1>2. IsFiniteSet({})
  BY FS_EmptySet
<1>3. RowsTyped
  BY <1>2, LedgerAssumption DEF Init, RowsTyped, Comparable, Distinct
<1>4. EveryDeletionIsTold
  BY DEF Init, EveryDeletionIsTold
<1> QED BY <1>1, <1>3, <1>4 DEF RetentionInv

\* The end of a command.
LEMMA EndsTyped ==
    ASSUME CommandsTyped, NEW c \in Commands, Ends(c)
    PROVE  CommandsTyped'
  BY DEF Ends, CommandsTyped

\* Fewer rows remain comparable and distinct; so they do when more are recorded.
LEMMA FewerRows ==
    ASSUME NEW rows, NEW last \in Nat, Comparable(rows, last), NEW fewer \in SUBSET rows,
           NEW later \in Nat, last <= later
    PROVE  Comparable(fewer, later) /\ (Distinct(rows) => Distinct(fewer))
<1>1. IsFiniteSet(fewer)
  BY FS_Subset DEF Comparable
<1> QED BY <1>1 DEF Comparable, Distinct

\* A row with a fresh id joins them.
LEMMA OneMoreRow ==
    ASSUME NEW rows, NEW last \in Nat, last < MaxSerial, Comparable(rows, last),
           NEW row, row.started \in Nat, row.id = FreshId(rows)
    PROVE  Comparable(rows \cup {row}, last + 1) /\ (Distinct(rows) => Distinct(rows \cup {row}))
<1>1. IsFiniteSet(rows \cup {row})
  BY FS_AddElement DEF Comparable
<1>2. row.id \in Nat /\ row.id <= last + 1 /\ \A a \in rows : a.id < row.id
  BY FreshIdIsNew
<1> QED BY <1>1, <1>2 DEF Comparable, Distinct

\* When a kind of row is within its limit, a prune takes none of it.
LEMMA WithinLimits ==
    ASSUME RowsTyped, NEW keep \in Nat
    PROVE  /\ Cardinality(analyses) <= keep => analyses \ Kept(keep) = {}
           /\ \A kind \in Kinds : Cardinality(OfKind(comparisons, kind)) <= keep =>
                 OfKind(comparisons \ KeptComparisons(keep), kind) = {}
<1>1. serial \in Nat
  BY LedgerAssumption DEF RowsTyped
<1>2. ASSUME Cardinality(analyses) <= keep PROVE analyses \ Kept(keep) = {}
  <2>1. Limited(analyses, keep) = analyses
    BY <1>1, <1>2, FewAreKept DEF RowsTyped
  <2> QED BY <2>1 DEF Kept
<1>3. ASSUME NEW kind \in Kinds, Cardinality(OfKind(comparisons, kind)) <= keep
      PROVE  OfKind(comparisons \ KeptComparisons(keep), kind) = {}
  <2>1. OfKind(comparisons, kind) \in SUBSET comparisons
    BY DEF OfKind
  <2>2. Comparable(OfKind(comparisons, kind), serial)
    BY <1>1, <2>1, FewerRows DEF RowsTyped
  <2>3. Limited(OfKind(comparisons, kind), keep) = OfKind(comparisons, kind)
    BY <1>3, <2>2, FewAreKept
  <2>4. OfKind(comparisons, kind) \subseteq KeptComparisons(keep)
    BY <1>3, <2>3 DEF KeptComparisons
  <2> QED BY <2>4 DEF OfKind
<1> QED BY <1>2, <1>3

\* A table that is not watched loses nothing.
LEMMA UnwatchedLosesNothing ==
    ASSUME RowsTyped, NEW ka \in Nat, NEW kc \in Nat,
           NEW t \in Tables \ Direct, t \notin Observed(ka, kc)
    PROVE  Taken(t, analyses \ Kept(ka), comparisons \ KeptComparisons(kc)) = 0
<1> DEFINE from == Starts(ka, kc)
           gone == analyses \ Kept(ka)
           goneComparisons == comparisons \ KeptComparisons(kc)
<1>1. /\ t \notin from /\ t \notin Children(from) /\ t \notin Children(Children(from))
      /\ t \in DOMAIN References
  BY ClosureReaches DEF Observed, Tables
<1>2. Cardinality({}) = 0
  BY FS_EmptySet
<1>3. CASE t \in History
  <2>1. "scan_run" \notin from
    <3>1. ASSUME "scan_run" \in from PROVE FALSE
      <4>1. CASE t # "clone_group_similarity"
        BY <1>1, <1>3, <3>1, <4>1 DEF History, Children, References
      <4>2. CASE t = "clone_group_similarity"
        <5>1. "clone_group" \in Children(from)
          BY <3>1 DEF Children, References
        <5> QED BY <1>1, <4>2, <5>1 DEF Children, References
      <4> QED BY <4>1, <4>2
    <3> QED BY <3>1
  <2>2. running = {}
    BY <2>1 DEF Starts
  <2>3. Taken(t, gone, goneComparisons) = Cardinality(running)
    BY <1>3 DEF Taken, History
  <2> QED BY <1>2, <2>2, <2>3
<1>4. CASE t \in {"artifact_analysis_correlation", "artifact_analysis_clone_group_savings",
                  "artifact_analysis_savings_calibration"}
  <2>1. "artifact_analysis" \notin from
    BY <1>1, <1>4 DEF Children, References
  <2>2. ~ (Cardinality(analyses) > ka)
    BY <2>1 DEF Starts
  <2>3. Cardinality(analyses) \in Nat
    BY FS_CardinalityType DEF RowsTyped, Comparable
  <2>8. Cardinality(analyses) <= ka
    BY <2>2, <2>3
  <2>4. gone = {}
    BY <2>8, WithinLimits
  <2> HIDE DEF gone, goneComparisons
  <2>5. CASE t = "artifact_analysis_correlation"
    <3>1. Taken(t, gone, goneComparisons) = Cardinality({a \in gone : a.correlated})
      BY <2>5 DEF Taken, History
    <3>2. {a \in gone : a.correlated} = {}
      BY <2>4
    <3> QED BY <1>2, <3>1, <3>2 DEF gone, goneComparisons
  <2>6. CASE t = "artifact_analysis_clone_group_savings"
    <3>1. Taken(t, gone, goneComparisons) = Cardinality({x \in gone \X Groups : x[2] \in x[1].groups})
      BY <2>6 DEF Taken, History
    <3>2. {x \in gone \X Groups : x[2] \in x[1].groups} = {}
      BY <2>4
    <3> QED BY <1>2, <3>1, <3>2 DEF gone, goneComparisons
  <2>7. CASE t = "artifact_analysis_savings_calibration"
    <3>1. Taken(t, gone, goneComparisons)
            = Cardinality({m \in calibrations : \E a \in gone : a.id = m.analysis})
      BY <2>7 DEF Taken, History
    <3>2. {m \in calibrations : \E a \in gone : a.id = m.analysis} = {}
      BY <2>4
    <3> QED BY <1>2, <3>1, <3>2 DEF gone, goneComparisons
  <2> QED BY <1>4, <2>5, <2>6, <2>7
<1>5. ASSUME NEW kind \in Kinds,
             Cardinality(OfKind(comparisons, kind)) <= kc,
             Taken(t, gone, goneComparisons) = Cardinality(OfKind(goneComparisons, kind))
      PROVE  Taken(t, gone, goneComparisons) = 0
  <2>1. OfKind(goneComparisons, kind) = {}
    BY <1>5, WithinLimits
  <2> HIDE DEF gone, goneComparisons
  <2> QED BY <1>2, <1>5, <2>1
<1>6. \A kind \in Kinds : Cardinality(OfKind(comparisons, kind)) \in Nat
  <2> SUFFICES ASSUME NEW kind \in Kinds PROVE Cardinality(OfKind(comparisons, kind)) \in Nat
    OBVIOUS
  <2>1. OfKind(comparisons, kind) \in SUBSET comparisons
    BY DEF OfKind
  <2>2. IsFiniteSet(OfKind(comparisons, kind))
    BY <2>1, FS_Subset DEF RowsTyped, Comparable
  <2> QED BY <2>2, FS_CardinalityType
<1>7. CASE t \in {"cross_variant_clone_group", "cross_variant_clone_member"}
  <2>1. "cross_variant_comparison" \notin from
    <3>1. ASSUME "cross_variant_comparison" \in from PROVE FALSE
      <4>1. "cross_variant_clone_group" \in Children(from)
        BY <3>1 DEF Children, References
      <4> QED BY <1>1, <1>7, <4>1 DEF Children, References
    <3> QED BY <3>1
  <2>2. ~ (Cardinality(OfKind(comparisons, "cross_variant")) > kc)
    BY <2>1 DEF Starts
  <2>3. Cardinality(OfKind(comparisons, "cross_variant")) <= kc
    BY <1>6, <2>2 DEF Kinds
  <2>4. Taken(t, gone, goneComparisons) = Cardinality(OfKind(goneComparisons, "cross_variant"))
    BY <1>7 DEF Taken, History
  <2> QED BY <1>5, <2>3, <2>4 DEF Kinds
<1>8. CASE t \in {"cross_language_semantic_group", "cross_language_semantic_member"}
  <2>1. "cross_language_comparison" \notin from
    <3>1. ASSUME "cross_language_comparison" \in from PROVE FALSE
      <4>1. "cross_language_semantic_group" \in Children(from)
        BY <3>1 DEF Children, References
      <4> QED BY <1>1, <1>8, <4>1 DEF Children, References
    <3> QED BY <3>1
  <2>2. ~ (Cardinality(OfKind(comparisons, "cross_language")) > kc)
    BY <2>1 DEF Starts
  <2>3. Cardinality(OfKind(comparisons, "cross_language")) <= kc
    BY <1>6, <2>2 DEF Kinds
  <2>4. Taken(t, gone, goneComparisons) = Cardinality(OfKind(goneComparisons, "cross_language"))
    BY <1>8 DEF Taken, History
  <2> QED BY <1>5, <2>3, <2>4 DEF Kinds
<1>9. \/ t \in History
      \/ t \in {"artifact_analysis_correlation", "artifact_analysis_clone_group_savings",
                "artifact_analysis_savings_calibration"}
      \/ t \in {"cross_variant_clone_group", "cross_variant_clone_member"}
      \/ t \in {"cross_language_semantic_group", "cross_language_semantic_member"}
  BY <1>1 DEF History, References
<1> QED BY <1>3, <1>4, <1>7, <1>8, <1>9

\* A new row of a kind leaves its table comparable.
LEMMA OneMoreComparison ==
    ASSUME RowsTyped, serial < MaxSerial, NEW kind \in Kinds, NEW row, row.started \in Nat,
           row.id = FreshId({r \in comparisons : r.kind = kind})
    PROVE  Comparable(comparisons \cup {row}, serial + 1)
<1> DEFINE rows == {r \in comparisons : r.kind = kind}
<1>1. serial \in Nat
  BY LedgerAssumption DEF RowsTyped
<1>2. Comparable(rows, serial)
  <2>1. rows \in SUBSET comparisons /\ Comparable(comparisons, serial) /\ serial <= serial
    BY <1>1 DEF RowsTyped
  <2> HIDE DEF rows
  <2> QED BY <1>1, <2>1, FewerRows
<1>3. FreshId(rows) \in Nat /\ FreshId(rows) <= serial + 1
  BY <1>1, <1>2, FreshIdIsNew
<1>4. IsFiniteSet(comparisons \cup {row})
  BY FS_AddElement DEF RowsTyped, Comparable
<1>5. \A a \in comparisons : a.started \in Nat /\ a.id \in Nat /\ a.id <= serial + 1
  BY <1>1 DEF RowsTyped, Comparable
<1> QED BY <1>3, <1>4, <1>5 DEF Comparable

\* The rows after a step that records an analysis.
LEMMA AnalyzeRows ==
    ASSUME RowsTyped, NEW c \in Commands, Analyze(c)
    PROVE  RowsTyped'
<1>1. serial \in Nat /\ MaxSerial \in Nat /\ serial < MaxSerial /\ serial' = serial + 1
      /\ UNCHANGED <<calibrations, comparisons>>
  BY LedgerAssumption DEF RowsTyped, Analyze
<1>2. PICK started \in Times, artifact \in Artifacts, correlated \in BOOLEAN, groups \in SUBSET Groups :
        analyses' = analyses \cup {[id |-> FreshId(analyses), started |-> started,
              artifact |-> artifact, serial |-> serial, correlated |-> correlated, groups |-> groups]}
  BY DEF Analyze
<1> DEFINE row == [id |-> FreshId(analyses), started |-> started, artifact |-> artifact,
                   serial |-> serial, correlated |-> correlated, groups |-> groups]
<1>3. FreshId(analyses) \in Nat
  BY <1>1, FreshIdIsNew DEF RowsTyped
<1>4. row \in Analysis /\ row.started \in Nat /\ row.id = FreshId(analyses)
  BY <1>1, <1>3, LedgerAssumption DEF Analysis
<1> HIDE DEF row
<1>5. Comparable(analyses \cup {row}, serial + 1) /\ Distinct(analyses \cup {row})
  BY <1>1, <1>4, OneMoreRow DEF RowsTyped
<1>6. analyses' = analyses \cup {row}
  BY <1>2 DEF row
<1>7. Comparable(comparisons, serial + 1)
  BY <1>1, FewerRows DEF RowsTyped
<1>8. serial + 1 \in 0 .. MaxSerial
  BY <1>1
<1>9. PICK more, count : more = analyses' /\ count = serial' /\ more = analyses \cup {row} /\ count = serial + 1
  BY <1>1, <1>6
<1>10. Comparable(more, count) /\ Distinct(more) /\ Comparable(comparisons, count)
  BY <1>5, <1>7, <1>9
<1>11. Comparable(analyses', serial') /\ Distinct(analyses') /\ Comparable(comparisons', serial')
  BY <1>1, <1>9, <1>10
<1>12. analyses' \subseteq Analysis /\ calibrations' \subseteq Calibration
  BY <1>1, <1>4, <1>6 DEF RowsTyped
<1> QED BY <1>1, <1>8, <1>11, <1>12 DEF RowsTyped, Comparable, Distinct

\* The rows after a scan.
LEMMA ScanRows ==
    ASSUME RowsTyped, NEW c \in Commands, Scan(c)
    PROVE  RowsTyped'
<1>1. serial \in Nat /\ MaxSerial \in Nat /\ serial < MaxSerial /\ serial' = serial + 1
      /\ UNCHANGED <<analyses, calibrations>>
  BY LedgerAssumption DEF RowsTyped, Scan
<1>2. Comparable(comparisons, serial + 1) /\ Comparable(analyses, serial + 1)
  BY <1>1, FewerRows DEF RowsTyped
<1>3. PICK after : after = comparisons' /\ Comparable(after, serial + 1)
  <2>1. CASE UNCHANGED comparisons
    BY <1>2, <2>1
  <2>2. ASSUME NEW kind \in Kinds, NEW started \in Times,
               comparisons' = comparisons \cup
                  {[kind |-> kind, started |-> started,
                    id |-> FreshId({r \in comparisons : r.kind = kind})]}
        PROVE  \E after : after = comparisons' /\ Comparable(after, serial + 1)
    <3> DEFINE row == [kind |-> kind, started |-> started,
                       id |-> FreshId({r \in comparisons : r.kind = kind})]
    <3>1. row.started \in Nat /\ row.id = FreshId({r \in comparisons : r.kind = kind})
      BY LedgerAssumption
    <3> HIDE DEF row
    <3>2. Comparable(comparisons \cup {row}, serial + 1)
      BY <1>1, <3>1, OneMoreComparison
    <3>3. comparisons' = comparisons \cup {row}
      BY <2>2 DEF row
    <3> QED BY <3>2, <3>3
  <2> QED BY <2>1, <2>2 DEF Scan
<1>4. serial + 1 \in 0 .. MaxSerial
  BY <1>1
<1> QED BY <1>1, <1>2, <1>3, <1>4 DEF RowsTyped, Comparable, Distinct

\* What a prune does to the rows, and what it reports of it.
LEMMA PruneRows ==
    ASSUME RowsTyped, NEW c \in Commands, Prune(c)
    PROVE  RowsTyped' /\ EveryDeletionIsTold'
<1>1. PICK ka \in Keeps, kc \in Keeps :
        LET gone == analyses \ Kept(ka)
            goneComparisons == comparisons \ KeptComparisons(kc)
            observed == Observed(ka, kc)
            lost == [t \in Tables |-> Taken(t, gone, goneComparisons)] IN
        /\ analyses' = analyses \ gone
        /\ calibrations' = {m \in calibrations : \A a \in gone : a.id # m.analysis}
        /\ comparisons' = comparisons \ goneComparisons
        /\ \/ pruned' = [observed |-> observed, lost |-> lost,
                         told |-> [t \in Tables |-> IF t \in observed \cup Direct THEN lost[t] ELSE 0]]
           \/ pruned' = Nothing
  BY DEF Prune
<1>2. ka \in Nat /\ kc \in Nat
  BY LedgerAssumption
<1>3. serial' = serial /\ serial \in Nat
  BY LedgerAssumption DEF Prune, RowsTyped
<1>4. analyses' \subseteq analyses /\ comparisons' \subseteq comparisons
      /\ calibrations' \subseteq calibrations
  BY <1>1
<1>5. PICK left, leftComparisons :
        /\ left = analyses' /\ leftComparisons = comparisons'
        /\ left \in SUBSET analyses /\ leftComparisons \in SUBSET comparisons
  BY <1>4
<1>6. Comparable(left, serial) /\ Distinct(left) /\ Comparable(leftComparisons, serial)
  BY <1>3, <1>5, FewerRows DEF RowsTyped
<1>7. RowsTyped'
  BY <1>3, <1>4, <1>5, <1>6 DEF RowsTyped, Comparable, Distinct
<1> DEFINE observed == Observed(ka, kc)
           lost == [t \in Tables |-> Taken(t, analyses \ Kept(ka), comparisons \ KeptComparisons(kc))]
           told == [t \in Tables |-> IF t \in observed \cup Direct THEN lost[t] ELSE 0]
<1>8. told = lost
  <2>1. ASSUME NEW t \in Tables, t \notin observed \cup Direct
        PROVE  lost[t] = 0
    BY <1>2, <2>1, UnwatchedLosesNothing
  <2>2. \A t \in Tables : told[t] = lost[t]
    <3> HIDE DEF lost
    <3> QED BY <2>1
  <2> HIDE DEF observed
  <2> QED BY <2>2
<1>9. pruned' = [observed |-> observed, lost |-> lost, told |-> told] \/ pruned' = Nothing
  BY <1>1
<1>10. EveryDeletionIsTold'
  <2> HIDE DEF observed, lost, told
  <2> QED BY <1>8, <1>9 DEF EveryDeletionIsTold
<1> QED BY <1>7, <1>10

\* The commands after a step of one of them.
LEMMA CommandsStep ==
    ASSUME CommandsTyped, analyses \subseteq Analysis, NEW c \in Commands, Writing(c)
    PROVE  CommandsTyped'
<1>1. ASSUME NEW work \in {"analyzing", "comparing", "pruning", "scanning"}, Begin(c, work)
      PROVE  CommandsTyped'
  BY <1>1 DEF Begin, CommandsTyped
<1>2. CASE Select(c)
  <2>1. PICK before \in Artifacts, after \in Artifacts, group \in Groups, a \in analyses :
          picked' = [picked EXCEPT ![c] = [analysis |-> a.id, group |-> group, after |-> after]]
    BY <1>2 DEF Select
  <2>2. [analysis |-> a.id, group |-> group, after |-> after] \in Calibration
    BY DEF Analysis, Calibration
  <2>3. at' = [at EXCEPT ![c] = "measuring"] /\ UNCHANGED lease
    BY <1>2 DEF Select
  <2> QED BY <2>1, <2>2, <2>3 DEF CommandsTyped
<1>3. CASE Fail(c) \/ Analyze(c) \/ Measure(c) \/ Scan(c) \/ Prune(c)
  <2>1. Ends(c)
    BY <1>3 DEF Fail, Analyze, Measure, Scan, Prune
  <2> QED BY <2>1, EndsTyped
<1> QED BY <1>1, <1>2, <1>3 DEF Writing

\* One step per command; the readers change none of it.
LEMMA RetentionStep == RetentionInv /\ [Next]_vars => RetentionInv'
<1> SUFFICES ASSUME RetentionInv, [Next]_vars PROVE RetentionInv'
  OBVIOUS
<1> USE DEF RetentionInv
<1>1. ASSUME NEW c \in Commands, Writing(c) PROVE RetentionInv'
  <2>1. CommandsTyped' /\ ReadersTyped'
    BY <1>1, CommandsStep, LedgerStep DEF RowsTyped, ReadersTyped
  <2>2. ASSUME NEW work, Begin(c, work) PROVE RowsTyped' /\ EveryDeletionIsTold'
    BY <2>2 DEF Begin, ledger, RowsTyped, Comparable, Distinct, EveryDeletionIsTold
  <2>3. CASE Fail(c) \/ Select(c)
    BY <2>1, <2>3 DEF Fail, Select, ledger, RowsTyped, Comparable, Distinct, EveryDeletionIsTold
  <2>4. CASE Analyze(c)
    <3>1. UNCHANGED pruned
      BY <2>4 DEF Analyze
    <3> QED BY <2>1, <2>4, <3>1, AnalyzeRows DEF EveryDeletionIsTold
  <2>5. CASE Scan(c)
    <3>1. UNCHANGED pruned
      BY <2>5 DEF Scan
    <3> QED BY <2>1, <2>5, <3>1, ScanRows DEF EveryDeletionIsTold
  <2>6. CASE Measure(c)
    <3>1. picked[c] \in Calibration
      BY <2>6 DEF Measure, CommandsTyped
    <3>2. calibrations' \subseteq Calibration /\ UNCHANGED <<analyses, comparisons, serial, pruned>>
      BY <2>6, <3>1 DEF Measure, RowsTyped
    <3> QED BY <2>1, <3>2 DEF RowsTyped, Comparable, Distinct, EveryDeletionIsTold
  <2>7. CASE Prune(c)
    BY <2>1, <2>7, PruneRows
  <2> QED BY <1>1, <2>1, <2>2, <2>3, <2>4, <2>5, <2>6, <2>7 DEF Writing
<1>2. ASSUME NEW r \in Readers, ReadingStep(r) PROVE RetentionInv'
  <2>1. UNCHANGED <<analyses, calibrations, comparisons, serial, lease, at, picked, pruned>>
    BY <1>2 DEF ReadingStep, List, Identify, Find, Load, Render, Leave, ledger
  <2>2. \E what \in {"nothing", "measurements", "missing", "id", "document", "report"} :
          \E value : Reading(r, what, value)
    BY <1>2 DEF ReadingStep, List, Identify, Find, Load, Render, Leave
  <2>3. ReadersTyped'
    BY <2>2 DEF Reading, ReadersTyped
  <2> QED BY <2>1, <2>3 DEF CommandsTyped, RowsTyped, Comparable, Distinct, EveryDeletionIsTold
<1>3. CASE UNCHANGED vars
  BY <1>3 DEF vars, CommandsTyped, ReadersTyped, RowsTyped, Comparable, Distinct, EveryDeletionIsTold
<1> QED BY <1>1, <1>2, <1>3 DEF Next

\* The step that takes analyses away, if any, is a prune, and it leaves the newest.
LEMMA LatestStays ==
    ASSUME RetentionInv, [Next]_vars, analyses' \subseteq analyses, 0 \notin Keeps
    PROVE  Newest(analyses') = Newest(analyses)
<1>1. ASSUME NEW c \in Commands, Prune(c) PROVE Newest(analyses') = Newest(analyses)
  <2>1. PICK ka \in Keeps : analyses' = analyses \ (analyses \ Kept(ka))
    BY <1>1 DEF Prune
  <2>2. ka \in Nat /\ ka # 0
    BY LedgerAssumption
  <2>3. PICK left : left = analyses' /\ left = analyses \ (analyses \ Kept(ka))
    BY <2>1
  <2>4. left \in SUBSET analyses /\ Limited(analyses, ka) \subseteq left
    BY <2>3 DEF Kept, Limited
  <2>5. Comparable(analyses, serial) /\ Distinct(analyses)
    BY DEF RetentionInv, RowsTyped
  <2>6. Newest(left) = Newest(analyses)
    BY <2>2, <2>4, <2>5, NewestStays
  <2> QED BY <2>3, <2>6 DEF Newest
<1>2. ASSUME \A c \in Commands : ~ Prune(c) PROVE analyses' = analyses
  <2>1. ASSUME NEW c \in Commands, Writing(c) PROVE analyses \subseteq analyses'
    <3>1. ASSUME NEW work, Begin(c, work) PROVE analyses \subseteq analyses'
      BY <3>1 DEF Begin, ledger
    <3>2. CASE Analyze(c)
      BY <3>2 DEF Analyze
    <3>3. CASE Fail(c) \/ Select(c) \/ Measure(c) \/ Scan(c)
      BY <3>3 DEF Fail, Select, Measure, Scan, ledger
    <3> QED BY <1>2, <2>1, <3>1, <3>2, <3>3 DEF Writing
  <2>2. ASSUME NEW r \in Readers, ReadingStep(r) PROVE analyses \subseteq analyses'
    BY <2>2 DEF ReadingStep, List, Identify, Find, Load, Render, Leave, ledger
  <2>3. CASE UNCHANGED vars
    BY <2>3 DEF vars
  <2>4. analyses \subseteq analyses'
    BY <2>1, <2>2, <2>3 DEF Next
  <2> QED BY <2>4
<1>3. CASE \A c \in Commands : ~ Prune(c)
  BY <1>2, <1>3 DEF Newest
<1> QED BY <1>1, <1>3

\* A prune tells of every row it took, also of those a foreign key took two
\* tables away, and takes nothing that a default report reads (Store::prune,
\* tables_a_prune_can_reach, latest_artifact_analysis_id).
THEOREM PrunesAreHonest == Spec => PruneIsHonest
<1>1. RetentionInv => TypeOK /\ EveryDeletionIsTold
  BY DEF RetentionInv, CommandsTyped, ReadersTyped, RowsTyped, TypeOK
<1>2. RetentionInv /\ [Next]_vars =>
        [analyses' \subseteq analyses /\ 0 \notin Keeps => Newest(analyses') = Newest(analyses)]_vars
  BY LatestStays
<1> QED BY RetentionInit, RetentionStep, <1>1, <1>2, PTL DEF Spec, PruneIsHonest, LatestIsKept

-----------------------------------------------------------------------------

\* A connected group was not held, its parent was, shares enough content with
\* it and hands on its lineage (matching_adoptions).
LEMMA ConnectedRow ==
    ASSUME NEW g, NEW contents
    PROVE  \/ Connected(g, contents, run) = Unconnected(g, contents)
           \/ \E p \in DOMAIN run :
                /\ Connected(g, contents, run) = Adopted(contents, run, p)
                /\ g \notin DOMAIN run
                /\ 2 * Cardinality(contents \cap run[p].contents) >= Cardinality(contents)
<1> DEFINE strongest == Strongest(g, contents, run)
           parent == CHOOSE p \in strongest : TRUE
<1>1. CASE g \in DOMAIN run \/ strongest = {}
  BY <1>1 DEF Connected
<1>2. CASE g \notin DOMAIN run /\ strongest # {}
  <2>1. parent \in strongest
    BY <1>2
  <2>2. parent \in Eligible(g, contents, run)
    BY <2>1 DEF Strongest
  <2>3. /\ parent \in DOMAIN run
        /\ 2 * Cardinality(contents \cap run[parent].contents) >= Cardinality(contents)
    BY <2>2 DEF Eligible, Shared
  <2>4. Connected(g, contents, run) = Adopted(contents, run, parent)
    BY <1>2 DEF Connected
  <2> QED BY <1>2, <2>3, <2>4
<1> QED BY <1>1, <1>2

\* Before the first run there are no rows.
LEMMA TypeInit == LineageInit => LineageTypeOK
BY DEF LineageInit, LineageTypeOK

\* A run written by a scan is a run: the rows of a recorded group have their
\* type whether it is connected or not.
LEMMA TypeStep == LineageTypeOK /\ [LineageNext]_run => LineageTypeOK'
<1> SUFFICES ASSUME LineageTypeOK, [LineageNext]_run PROVE LineageTypeOK'
  OBVIOUS
<1>1. ASSUME NEW g \in Fingerprints, NEW contents \in SUBSET Contents
      PROVE  Unconnected(g, contents) \in GroupRow
  BY <1>1 DEF Unconnected, GroupRow, States
<1>2. ASSUME NEW contents \in SUBSET Contents, NEW p \in DOMAIN run
      PROVE  Adopted(contents, run, p) \in GroupRow
  <2>1. run[p] \in GroupRow /\ p \in Fingerprints
    BY DEF LineageTypeOK
  <2> QED BY <2>1 DEF Adopted, GroupRow, States
<1>3. ASSUME NEW found \in Found
      PROVE  /\ DOMAIN found \subseteq Fingerprints
             /\ \A g \in DOMAIN found : found[g] \in SUBSET Contents
  BY DEF Found
<1>4. CASE Record
  <2>1. PICK found \in Found : run' = [g \in DOMAIN found |-> Connected(g, found[g], run)]
    BY <1>4 DEF Record
  <2>2. ASSUME NEW g \in DOMAIN found PROVE Connected(g, found[g], run) \in GroupRow
    <3>1. g \in Fingerprints /\ found[g] \in SUBSET Contents
      BY <1>3, <2>2
    <3>2. \/ Connected(g, found[g], run) = Unconnected(g, found[g])
          \/ \E p \in DOMAIN run : Connected(g, found[g], run) = Adopted(found[g], run, p)
      BY ConnectedRow, Zenon
    <3>3. Unconnected(g, found[g]) \in GroupRow
      BY <1>1, <3>1
    <3>4. \A p \in DOMAIN run : Adopted(found[g], run, p) \in GroupRow
      BY <1>2, <3>1
    <3> HIDE DEF Connected, Unconnected, Adopted
    <3> QED BY <3>2, <3>3, <3>4, Zenon
  <2> QED BY <1>3, <2>1, <2>2 DEF LineageTypeOK
<1>5. CASE RecordFirst
  <2>1. PICK found \in Found : run' = [g \in DOMAIN found |-> Unconnected(g, found[g])]
    BY <1>5 DEF RecordFirst
  <2> QED BY <1>1, <1>3, <2>1 DEF LineageTypeOK
<1>6. CASE UNCHANGED run
  BY <1>6 DEF LineageTypeOK
<1> QED BY <1>4, <1>5, <1>6 DEF LineageNext

\* The newest run is well typed, for every set of groups and contents.
THEOREM TypeCorrect == LineageSpec => []LineageTypeOK
<1> QED BY TypeInit, TypeStep, PTL DEF LineageSpec

\* What a step does to one group of the run it writes.
LEMMA RowOfAStep ==
    ASSUME LineageNext, NEW g \in DOMAIN run'
    PROVE  \/ run'[g].state = "new" /\ run'[g].lineage = g /\ run'[g].parent = NoGroup
           \/ \E p \in DOMAIN run :
                /\ run'[g].lineage = run[p].lineage /\ run'[g].parent = p
                /\ g \notin DOMAIN run
                /\ 2 * Cardinality(run'[g].contents \cap run[p].contents)
                     >= Cardinality(run'[g].contents)
<1>1. CASE Record
  <2>1. PICK found \in Found : run' = [h \in DOMAIN found |-> Connected(h, found[h], run)]
    BY <1>1 DEF Record
  <2>2. run'[g] = Connected(g, found[g], run)
    BY <2>1
  <2>3. CASE run'[g] = Unconnected(g, found[g])
    BY <2>3 DEF Unconnected
  <2>4. ASSUME NEW p \in DOMAIN run, run'[g] = Adopted(found[g], run, p)
        PROVE  /\ run'[g].lineage = run[p].lineage /\ run'[g].parent = p
               /\ run'[g].contents = found[g]
    BY <2>4 DEF Adopted
  <2>5. \/ run'[g] = Unconnected(g, found[g])
        \/ \E p \in DOMAIN run :
             /\ run'[g] = Adopted(found[g], run, p)
             /\ g \notin DOMAIN run
             /\ 2 * Cardinality(found[g] \cap run[p].contents) >= Cardinality(found[g])
    BY <2>2, ConnectedRow, Zenon
  <2>6. CASE \E p \in DOMAIN run :
               /\ run'[g] = Adopted(found[g], run, p)
               /\ g \notin DOMAIN run
               /\ 2 * Cardinality(found[g] \cap run[p].contents) >= Cardinality(found[g])
    <3>1. PICK p \in DOMAIN run :
               /\ run'[g] = Adopted(found[g], run, p)
               /\ g \notin DOMAIN run
               /\ 2 * Cardinality(found[g] \cap run[p].contents) >= Cardinality(found[g])
      BY <2>6
    <3>2. /\ run'[g].lineage = run[p].lineage /\ run'[g].parent = p
          /\ run'[g].contents = found[g]
      BY <2>4, <3>1
    <3> QED BY <3>1, <3>2
  <2> QED BY <2>3, <2>5, <2>6
<1>2. CASE RecordFirst
  BY <1>2 DEF RecordFirst, Unconnected
<1> QED BY <1>1, <1>2 DEF LineageNext

\* No lineage comes back from nowhere: it passes from the run before or begins
\* with the group it is named after.
THEOREM HandedOn == LineageSpec => LineagesAreHandedOn
<1>1. ASSUME LineageNext
      PROVE  \A g \in DOMAIN run' :
                \/ run'[g].lineage \in {run[p].lineage : p \in DOMAIN run}
                \/ run'[g].lineage = g /\ run'[g].state = "new"
  BY <1>1, RowOfAStep
<1> QED BY <1>1, PTL DEF LineageSpec, LineagesAreHandedOn

\* A connected group was not held before, and half of it is its parent's.
THEOREM EdgesHaveEvidence == LineageSpec => EdgesAreEvidence
<1>1. ASSUME LineageNext
      PROVE  \A g \in DOMAIN run' :
                run'[g].state = "expanded" =>
                    /\ g \notin DOMAIN run
                    /\ 2 * Cardinality(run'[g].contents \cap run[run'[g].parent].contents)
                         >= Cardinality(run'[g].contents)
  BY <1>1, RowOfAStep
<1> QED BY <1>1, PTL DEF LineageSpec, EdgesAreEvidence

\* The lineage of a connected group is its parent's, as the run before had it.
THEOREM ParentsHandOn == LineageSpec => LineageIsTheParents
<1>1. ASSUME LineageNext
      PROVE  \A g \in DOMAIN run' :
                run'[g].parent # NoGroup =>
                    run'[g].parent \in DOMAIN run /\ run'[g].lineage = run[run'[g].parent].lineage
  BY <1>1, RowOfAStep
<1> QED BY <1>1, PTL DEF LineageSpec, LineageIsTheParents

\* All of it: the rows are typed, and lineages pass on evidence, from the
\* parent, or begin.
THEOREM HonestLineage == LineageSpec => LineageIsHonest
BY TypeCorrect, HandedOn, ParentsHandOn, EdgesHaveEvidence, PTL DEF LineageIsHonest
=============================================================================
