------------------------ MODULE BaselineFile_proofs ------------------------
(***************************************************************************)
(* What BaselineFile promises, for any sites, families, partitions, settings *)
(* and rules, any number of commands and any number of scans and edits: a    *)
(* baseline is honest about what it was made from (BaselineHonest), and what  *)
(* a scan hides because of it was once shown (HiddenShown).                  *)
(***************************************************************************)
EXTENDS BaselineFile, FiniteSetTheorems, TLAPS

(***************************************************************************)
(* What a view finds, whatever the view.                                   *)
(***************************************************************************)

Names == Contracts \X (SUBSET (UNION Families))
Entries == [id : Names, n : Nat]
Trees == UNION {[S -> Codes] : S \in SUBSET Sites}
Views == [part : Partitions, tree : Trees, rule : Rules, contract : Contracts, mode : Modes,
          started : Nat, entries : SUBSET Entries, asOf : Nat]

CopiesIn(v, f) == {s \in SitesOf[v.part] : v.tree[s] \in f}
ContentsIn(v, f) == {v.tree[s] : s \in CopiesIn(v, f)}

\* A group is the copies of a family, under the contents they have.
LEMMA GroupsAreFamilies ==
    ASSUME NEW v, NEW g \in GroupsOf(v)
    PROVE  \E f \in Families : /\ Cardinality(CopiesIn(v, f)) >= 2
                               /\ g = [id |-> <<v.contract, ContentsIn(v, f)>>,
                                       n |-> Cardinality(CopiesIn(v, f)), sites |-> CopiesIn(v, f)]
BY DEF GroupsOf, GroupsIn, CopiesIn, ContentsIn

\* A view's copies can be counted.
LEMMA CopiesAreCounted ==
    ASSUME NEW v \in Views, NEW f
    PROVE  Cardinality(CopiesIn(v, f)) \in Nat
<1>1. CopiesIn(v, f) \subseteq Sites
  BY BaselineAssumption DEF CopiesIn, Views
<1> QED BY <1>1, BaselineAssumption, FS_Subset, FS_CardinalityType

\* The name of a group carries the settings and its contents.
LEMMA GroupsAreTyped ==
    ASSUME NEW v \in Views, NEW g \in GroupsOf(v)
    PROVE  /\ g.id \in Names /\ g.id[1] = v.contract
           /\ g.n \in Nat /\ g.n >= 2
<1>1. PICK f \in Families : /\ Cardinality(CopiesIn(v, f)) >= 2
                            /\ g = [id |-> <<v.contract, ContentsIn(v, f)>>,
                                    n |-> Cardinality(CopiesIn(v, f)), sites |-> CopiesIn(v, f)]
  BY GroupsAreFamilies
<1>2. ContentsIn(v, f) \subseteq UNION Families
  BY DEF ContentsIn, CopiesIn
<1>3. v.contract \in Contracts
  BY DEF Views
<1>4. g.id = <<v.contract, ContentsIn(v, f)>> /\ g.n = Cardinality(CopiesIn(v, f))
  BY <1>1
<1> QED BY <1>1, <1>2, <1>3, <1>4, CopiesAreCounted DEF Names

\* No two groups of a view have the same name.
LEMMA GroupsAreNamed ==
    ASSUME NEW v, NEW g \in GroupsOf(v), NEW h \in GroupsOf(v), g.id = h.id
    PROVE  g = h
<1>1. PICK f \in Families :
          g = [id |-> <<v.contract, ContentsIn(v, f)>>,
               n |-> Cardinality(CopiesIn(v, f)), sites |-> CopiesIn(v, f)]
  BY GroupsAreFamilies
<1>2. PICK k \in Families :
          h = [id |-> <<v.contract, ContentsIn(v, k)>>,
               n |-> Cardinality(CopiesIn(v, k)), sites |-> CopiesIn(v, k)]
  BY GroupsAreFamilies
<1>3. ContentsIn(v, f) = ContentsIn(v, k)
  BY <1>1, <1>2
<1>4. CopiesIn(v, f) = CopiesIn(v, k)
  <2>1. ASSUME NEW s \in CopiesIn(v, f) PROVE s \in CopiesIn(v, k)
    BY <1>3 DEF ContentsIn, CopiesIn
  <2>2. ASSUME NEW s \in CopiesIn(v, k) PROVE s \in CopiesIn(v, f)
    BY <1>3 DEF ContentsIn, CopiesIn
  <2> QED BY <2>1, <2>2
<1> QED BY <1>1, <1>2, <1>3, <1>4

\* Views that differ in when they started at most.
SameView(v, w) ==
    /\ v.part = w.part /\ v.tree = w.tree /\ v.rule = w.rule
    /\ v.contract = w.contract /\ v.mode = w.mode /\ v.entries = w.entries

\* They find and judge alike.
LEMMA SameFindings ==
    ASSUME NEW v, NEW w, SameView(v, w)
    PROVE  /\ GroupsOf(v) = GroupsOf(w)
           /\ \A g : Verdict(v, g) = Verdict(w, g)
           /\ Frozen(v) = Frozen(w)
           /\ Visible(v) = Visible(w)
<1>1. GroupsOf(v) = GroupsOf(w) /\ v.part = w.part
  BY DEF SameView, GroupsOf
<1>2. \A g : Verdict(v, g) = Verdict(w, g)
  BY DEF SameView, Verdict
<1>3. Frozen(v) = Frozen(w)
  BY <1>1, <1>2 DEF Frozen
<1>4. Visible(v) = Visible(w)
  BY <1>1, <1>2 DEF Visible
<1> QED BY <1>1, <1>2, <1>3, <1>4

(***************************************************************************)
(* Entries.                                                                *)
(***************************************************************************)

Reports == [part : Partitions, id : Names, n : Nat]

\* Some report of the partition listed the group with as many occurrences.
ShownIn(reports, part, e) == \E s \in reports : s.part = part /\ s.id = e.id /\ s.n >= e.n

\* Entries of one partition: made under its settings, shown, one for a group.
EntriesSound(reports, part, settings, entries) ==
    /\ \A e \in entries : e.id[1] = settings /\ e.n >= 2 /\ ShownIn(reports, part, e)
    /\ \A e \in entries : \A f \in entries : e.id = f.id => e = f

\* A recorded run was reported, and read a baseline that had been.
RunSound(reports, v) ==
    /\ Visible(v) \subseteq reports
    /\ \A e \in v.entries : ShownIn(reports, v.part, e)

\* What a baseline freezes of a run was shown: visible in that run, or hidden
\* by an entry that stands for as many.
LEMMA FrozenIsSound ==
    ASSUME NEW v \in Views, NEW reports \in SUBSET Reports, RunSound(reports, v)
    PROVE  /\ Frozen(v) \in SUBSET Entries
           /\ EntriesSound(reports, v.part, v.contract, Frozen(v))
<1>1. ASSUME NEW e \in Frozen(v)
      PROVE  \E g \in GroupsOf(v) : e = [id |-> g.id, n |-> g.n] /\ Verdict(v, g) # "rule"
  BY DEF Frozen, CouldBeFrozen
<1>2. ASSUME NEW e \in Frozen(v)
      PROVE  e \in Entries /\ e.id[1] = v.contract /\ e.n >= 2 /\ ShownIn(reports, v.part, e)
  <2>1. PICK g \in GroupsOf(v) : e = [id |-> g.id, n |-> g.n] /\ Verdict(v, g) # "rule"
    BY <1>1
  <2>2. g.id \in Names /\ g.id[1] = v.contract /\ g.n \in Nat /\ g.n >= 2
    BY GroupsAreTyped
  <2>3. e.id = g.id /\ e.n = g.n /\ e \in Entries
    BY <2>1, <2>2 DEF Entries
  <2>4. ShownIn(reports, v.part, e)
    <3>1. CASE Verdict(v, g) = "visible"
      <4>1. [part |-> v.part, id |-> g.id, n |-> g.n] \in reports
        BY <3>1 DEF RunSound, Visible
      <4> QED BY <2>2, <2>3, <4>1 DEF ShownIn
    <3>2. CASE Verdict(v, g) = "baseline"
      <4>1. Covers(v.entries, g)
        BY <3>2 DEF Verdict
      <4>2. PICK k \in v.entries : k.id = g.id /\ g.n <= k.n
        BY <4>1 DEF Covers
      <4>3. PICK s \in reports : s.part = v.part /\ s.id = k.id /\ s.n >= k.n
        BY <4>2 DEF RunSound, ShownIn
      <4>4. k.n \in Nat /\ s.n \in Nat
        BY DEF Views, Entries, Reports
      <4> QED BY <2>2, <2>3, <4>2, <4>3, <4>4 DEF ShownIn
    <3> QED BY <2>1, <3>1, <3>2 DEF Verdict
  <2> QED BY <2>2, <2>3, <2>4
<1>3. ASSUME NEW e \in Frozen(v), NEW f \in Frozen(v), e.id = f.id
      PROVE  e = f
  <2>1. PICK g \in GroupsOf(v) : e = [id |-> g.id, n |-> g.n]
    BY <1>1
  <2>2. PICK h \in GroupsOf(v) : f = [id |-> h.id, n |-> h.n]
    BY <1>1
  <2>3. g.id = h.id
    BY <1>3, <2>1, <2>2
  <2> QED BY <2>1, <2>2, <2>3, GroupsAreNamed
<1> QED BY <1>2, <1>3 DEF EntriesSound

(***************************************************************************)
(* Hiding and marking.                                                     *)
(***************************************************************************)

\* A baseline with one entry for a group hides what it would mark continuing.
LEMMA ModesFindAlike ==
    ASSUME NEW v \in Views, NEW w, v.part = w.part, v.tree = w.tree, v.rule = w.rule,
           v.contract = w.contract, v.entries = w.entries,
           v.mode = "suppress", w.mode = "compare",
           \A e \in v.entries : \A f \in v.entries : e.id = f.id => e = f
    PROVE  Findings(v) = Findings(w)
<1>1. GroupsOf(v) = GroupsOf(w)
  BY DEF GroupsOf
<1>2. ASSUME NEW g \in GroupsOf(v)
      PROVE  (Verdict(v, g) = "visible" /\ State(v, g) # "continuing")
                <=> (Verdict(w, g) = "visible" /\ State(w, g) # "continuing")
  <2> DEFINE entry == {e \in v.entries : e.id = g.id}
  <2>1. g.n \in Nat /\ \A e \in v.entries : e.n \in Nat
    BY GroupsAreTyped DEF Views, Entries
  <2>2. CASE g.sites \subseteq v.rule
    BY <2>2 DEF Verdict
  <2>3. CASE ~(g.sites \subseteq v.rule) /\ entry = {}
    <3>1. ~Covers(v.entries, g)
      BY <2>3 DEF Covers
    <3>2. Verdict(v, g) = "visible" /\ Verdict(w, g) = "visible"
      BY <2>3, <3>1 DEF Verdict
    <3>3. State(v, g) = "new" /\ State(w, g) = "new"
      BY <2>3, <3>2, Zenon DEF State, CouldBeFrozen
    <3> QED BY <3>2, <3>3
  <2>4. CASE ~(g.sites \subseteq v.rule) /\ entry # {}
    <3>1. PICK e \in v.entries : e.id = g.id
      BY <2>4
    <3>2. entry = {e}
      BY <3>1
    <3>3. Covers(v.entries, g) <=> g.n <= e.n
      BY <3>1, <3>2 DEF Covers
    <3>4. /\ Verdict(v, g) = IF g.n <= e.n THEN "baseline" ELSE "visible"
          /\ Verdict(w, g) = "visible"
      BY <2>4, <3>3 DEF Verdict
    <3>5. (\E k \in entry : g.n > k.n) <=> g.n > e.n
      BY <3>2
    <3>6. /\ State(v, g) = IF g.n > e.n THEN "expanded" ELSE "continuing"
          /\ State(w, g) = IF g.n > e.n THEN "expanded" ELSE "continuing"
      BY <2>4, <3>5 DEF State
    <3>7. g.n <= e.n <=> ~(g.n > e.n)
      BY <2>1, <3>1
    <3> QED BY <3>4, <3>6, <3>7
  <2> QED BY <2>2, <2>3, <2>4
<1> QED BY <1>1, <1>2 DEF Findings

\* Read against the view it was made from, a baseline leaves visible only what
\* it has no entry for.
LEMMA LeftHasNoEntry ==
    ASSUME NEW v \in Views, NEW entries \in SUBSET Entries,
           NEW g \in GroupsOf([v EXCEPT !.mode = "suppress", !.entries = entries]),
           Verdict([v EXCEPT !.mode = "suppress", !.entries = entries], g) = "visible"
    PROVE  /\ [id |-> g.id, n |-> g.n] \in Frozen(v)
           /\ [id |-> g.id, n |-> g.n] \notin entries
<1> DEFINE made == [v EXCEPT !.mode = "suppress", !.entries = entries]
<1>1. /\ made.part = v.part /\ made.tree = v.tree /\ made.rule = v.rule /\ made.contract = v.contract
      /\ made.mode = "suppress" /\ made.entries = entries
  BY DEF Views
<1> HIDE DEF made
<1>2. g \in GroupsOf(v)
  BY <1>1 DEF GroupsOf, made
<1>3. ~(g.sites \subseteq v.rule) /\ ~Covers(entries, g)
  BY <1>1 DEF Verdict, made
<1>4. Verdict(v, g) # "rule"
  BY <1>3 DEF Verdict
<1>5. g.n \in Nat
  BY <1>2, GroupsAreTyped
<1> QED BY <1>2, <1>3, <1>4, <1>5 DEF Frozen, CouldBeFrozen, Covers

(***************************************************************************)
(* What a baseline's text says, while runs are added and reused.           *)
(***************************************************************************)

Parts == [contract : Contracts, from : Nat, asOf : Nat, entries : SUBSET Entries]
Texts == UNION {[P -> Parts] : P \in SUBSET Partitions}
Drops == [part : Partitions, id : Names, run : Nat]

\* A partition's text: of a run of that partition, all of it sound, and
\* nothing the run froze is missing but what is gone.
PartSound(rows, reports, p, q, gone) ==
    /\ q.from \in DOMAIN rows /\ rows[q.from].part = p /\ rows[q.from].contract = q.contract
    /\ EntriesSound(reports, p, q.contract, q.entries)
    /\ \A e \in Frozen(rows[q.from]) :
          e \in q.entries \/ \E r \in gone : r.part = p /\ r.id = e.id

OfOneScan(scans, ids) == \E s \in scans : ids \subseteq s

PartsSound(rows, reports, scans, parts, gone) ==
    /\ \A p \in DOMAIN parts : PartSound(rows, reports, p, parts[p], gone)
    /\ OfOneScan(scans, {parts[p].from : p \in DOMAIN parts})

\* What an update dropped is in no group of the run it read.
AreGone(rows, drops) ==
    \A r \in drops : /\ r.run \in DOMAIN rows
                     /\ \A g \in GroupsOf(rows[r.run]) : g.id[2] # r.id[2]

\* Runs are only added, and started again.
GoOn(rows, more) ==
    /\ DOMAIN rows \subseteq DOMAIN more
    /\ \A i \in DOMAIN rows : SameView(more[i], rows[i])

\* A text that is sound stays sound.
LEMMA PartsStaySound ==
    ASSUME NEW rows, NEW more, NEW reports, NEW reports2, NEW scans, NEW scans2,
           NEW parts, NEW gone, NEW gone2,
           GoOn(rows, more), reports \subseteq reports2, scans \subseteq scans2, gone \subseteq gone2,
           PartsSound(rows, reports, scans, parts, gone)
    PROVE  PartsSound(more, reports2, scans2, parts, gone2)
<1>1. ASSUME NEW p \in DOMAIN parts
      PROVE  PartSound(more, reports2, p, parts[p], gone2)
  <2> DEFINE q == parts[p]
  <2>1. PartSound(rows, reports, p, q, gone)
    BY DEF PartsSound
  <2>2. q.from \in DOMAIN more /\ SameView(more[q.from], rows[q.from])
    BY <2>1 DEF PartSound, GoOn
  <2>3. more[q.from].part = p /\ more[q.from].contract = q.contract
    BY <2>1, <2>2 DEF PartSound, SameView
  <2>4. EntriesSound(reports2, p, q.contract, q.entries)
    BY <2>1 DEF PartSound, EntriesSound, ShownIn
  <2>5. Frozen(more[q.from]) = Frozen(rows[q.from])
    BY <2>2, SameFindings
  <2> QED BY <2>1, <2>2, <2>3, <2>4, <2>5 DEF PartSound
<1>2. OfOneScan(scans2, {parts[p].from : p \in DOMAIN parts})
  BY DEF PartsSound, OfOneScan
<1> QED BY <1>1, <1>2 DEF PartsSound

\* What is gone from a run stays gone from it.
LEMMA GoneStays ==
    ASSUME NEW rows, NEW more, NEW drops, GoOn(rows, more), AreGone(rows, drops)
    PROVE  AreGone(more, drops)
<1> SUFFICES ASSUME NEW r \in drops
             PROVE  /\ r.run \in DOMAIN more
                    /\ \A g \in GroupsOf(more[r.run]) : g.id[2] # r.id[2]
  BY DEF AreGone
<1>1. r.run \in DOMAIN more /\ GroupsOf(more[r.run]) = GroupsOf(rows[r.run])
  BY SameFindings DEF AreGone, GoOn
<1> QED BY <1>1 DEF AreGone

(***************************************************************************)
(* The inductive invariant: types.                                         *)
(***************************************************************************)

Kinds == {"create", "create --force", "update"}
Scans == [step : {"analyze"}, todo : SUBSET Partitions, mode : Modes, new : SUBSET Views,
          reused : SUBSET Nat]
Files == {Absent, Empty, Mixed} \cup {Whole(text) : text \in Texts}
Origins == UNION {[S -> Nat] : S \in SUBSET Nat}

AtNewest == [step : {"newest"}, kind : Kinds]
AtIds == [step : {"ids"}, kind : Kinds, newest : Nat]
AtOrigins == [step : {"origins"}, kind : Kinds, ids : SUBSET Nat, origins : Origins]
AtText == [step : {"open", "fill"}, kind : Kinds, parts : Texts, dropped : SUBSET Drops]

WorldTyped ==
    /\ tree \in [Sites -> Codes] /\ rule \in Rules /\ contract \in Contracts
    /\ changes \in 0 .. MaxChange /\ invocations \in 0 .. MaxInvocation

RunsTyped == runs \in Seq(Views) /\ \A i \in DOMAIN runs : runs[i].started \in 1 .. invocations

ScanTyped == scan = Idle \/ (scan \in Scans /\ IsFiniteSet(scan.new))

ReportsTyped ==
    /\ shown \in SUBSET Reports /\ published \in SUBSET (SUBSET Nat) /\ resolved \in SUBSET Drops

CommandsTyped ==
    at \in [Commands -> {Idle} \cup AtNewest \cup AtIds \cup AtOrigins \cup AtText]

BaselineTyped ==
    /\ WorldTyped /\ RunsTyped /\ ScanTyped /\ ReportsTyped /\ CommandsTyped
    /\ file \in Files

(***************************************************************************)
(* The inductive invariant: what was read is still as it was.              *)
(***************************************************************************)

RunsSound == \A i \in DOMAIN runs : RunSound(shown, runs[i])

\* A scan under way was counted, its views read entries that had been shown, and
\* the runs it reuses are recorded.
ScanSound ==
    scan # Idle =>
        /\ invocations >= 1
        /\ scan.reused \subseteq DOMAIN runs
        /\ \A v \in scan.new : \A e \in v.entries : ShownIn(shown, v.part, e)

\* What a command has read of the runs is there, and its text is sound.
CommandSound(rows, reports, scans, gone, a) ==
    /\ a.step = "ids" => a.newest \in DOMAIN rows
    /\ a.step = "origins" =>
          a.ids # {} /\ a.ids \subseteq DOMAIN rows /\ DOMAIN a.origins \subseteq a.ids
    /\ a.step \in {"open", "fill"} =>
          /\ PartsSound(rows, reports, scans, a.parts, gone \cup a.dropped)
          /\ AreGone(rows, a.dropped)

\* All that ever started at t, as far as runs and commands know, is in s.
StartedIn(rows, ats, t, s) ==
    /\ \A i \in DOMAIN rows : rows[i].started = t => i \in s
    /\ \A c \in Commands : ats[c].step = "origins" =>
          \A i \in DOMAIN ats[c].origins : ats[c].origins[i] = t => i \in s

\* While a scan is under way nothing has started with it yet.
NoneStarted(rows, ats, t) ==
    /\ \A i \in DOMAIN rows : rows[i].started # t
    /\ \A c \in Commands : ats[c].step = "origins" =>
          \A i \in DOMAIN ats[c].origins : ats[c].origins[i] # t

StartsTogether ==
    /\ \A t \in Nat : \E s \in published \cup {{}} : StartedIn(runs, at, t, s)
    /\ \A t \in Nat : t > invocations \/ (scan # Idle /\ t = invocations) => NoneStarted(runs, at, t)

BaselineInv ==
    /\ BaselineTyped
    /\ RunsSound
    /\ ScanSound
    /\ \A c \in Commands : CommandSound(runs, shown, published, resolved, at[c])
    /\ AreGone(runs, resolved)
    /\ file.kind = "whole" => PartsSound(runs, shown, published, file.parts, resolved)
    /\ StartsTogether

\* At first there is no run, no file and no command.
LEMMA BaselineInvInit == Init => BaselineInv
<1> SUFFICES ASSUME Init PROVE BaselineInv
  OBVIOUS
<1>1. BaselineTyped
  BY BaselineAssumption DEF Init, BaselineTyped, WorldTyped, RunsTyped, ScanTyped, ReportsTyped,
     CommandsTyped, Files
<1>2. RunsSound /\ ScanSound /\ AreGone(runs, resolved)
  BY DEF Init, RunsSound, ScanSound, AreGone
<1>3. ASSUME NEW c \in Commands
      PROVE  at[c].step = "idle" /\ CommandSound(runs, shown, published, resolved, at[c])
  BY DEF Init, CommandSound, Idle
<1>4. file.kind = "absent"
  BY DEF Init, Absent
<1>5. ASSUME NEW t PROVE StartedIn(runs, at, t, {}) /\ NoneStarted(runs, at, t)
  BY <1>3 DEF Init, StartedIn, NoneStarted
<1>6. StartsTogether
  BY <1>5 DEF StartsTogether
<1> QED BY <1>1, <1>2, <1>3, <1>4, <1>6 DEF BaselineInv

(***************************************************************************)
(* A command's step that touches nothing else.                             *)
(***************************************************************************)

\* The starts a command has read are those of runs, read now or before.
StartsRead(c, a) ==
    a.step = "origins" => \A i \in DOMAIN a.origins :
        \/ i \in DOMAIN runs /\ a.origins[i] = runs[i].started
        \/ at[c].step = "origins" /\ i \in DOMAIN at[c].origins /\ a.origins[i] = at[c].origins[i]

\* What commands read of the starts is consistent if their steps read it so.
LEMMA StartsStayTogether ==
    ASSUME BaselineInv, UNCHANGED <<runs, scan, invocations, published>>,
           NEW c \in Commands, NEW a, StartsRead(c, a),
           at' = [at EXCEPT ![c] = a]
    PROVE  StartsTogether'
<1>1. \A d \in Commands : at'[d] = IF d = c THEN a ELSE at[d]
  BY DEF BaselineInv, BaselineTyped, CommandsTyped
<1>2. ASSUME NEW t \in Nat PROVE \E s \in published' \cup {{}} : StartedIn(runs', at', t, s)
  <2>1. PICK s \in published \cup {{}} : StartedIn(runs, at, t, s)
    BY DEF BaselineInv, StartsTogether
  <2>2. ASSUME NEW d \in Commands, at'[d].step = "origins",
               NEW i \in DOMAIN at'[d].origins, at'[d].origins[i] = t
        PROVE  i \in s
    <3>1. CASE d # c
      BY <1>1, <2>1, <2>2, <3>1 DEF StartedIn
    <3>2. CASE d = c
      <4>1. at'[d] = a
        BY <1>1, <3>2
      <4> QED BY <2>1, <2>2, <4>1, <3>2 DEF StartedIn, StartsRead
    <3> QED BY <3>1, <3>2
  <2>3. StartedIn(runs', at', t, s)
    BY <2>1, <2>2 DEF StartedIn
  <2> QED BY <2>3
<1>3. ASSUME NEW t \in Nat, t > invocations' \/ (scan' # Idle /\ t = invocations')
      PROVE  NoneStarted(runs', at', t)
  <2>1. NoneStarted(runs, at, t)
    BY <1>3 DEF BaselineInv, StartsTogether
  <2>2. ASSUME NEW d \in Commands, at'[d].step = "origins", NEW i \in DOMAIN at'[d].origins
        PROVE  at'[d].origins[i] # t
    <3>1. CASE d # c
      BY <1>1, <2>1, <2>2, <3>1 DEF NoneStarted
    <3>2. CASE d = c
      <4>1. at'[d] = a
        BY <1>1, <3>2
      <4> QED BY <2>1, <2>2, <4>1, <3>2 DEF NoneStarted, StartsRead
    <3> QED BY <3>1, <3>2
  <2> QED BY <2>1, <2>2 DEF NoneStarted
<1> QED BY <1>2, <1>3 DEF StartsTogether

\* A step of a command keeps the invariant if what it comes to is sound, and so
\* is what it leaves of the file.
LEMMA CommandGoesOn ==
    ASSUME BaselineInv, UNCHANGED <<world, database>>, NEW c \in Commands, NEW a,
           at' = [at EXCEPT ![c] = a],
           a \in {Idle} \cup AtNewest \cup AtIds \cup AtOrigins \cup AtText,
           CommandSound(runs, shown, published, resolved', a), StartsRead(c, a),
           resolved \subseteq resolved', resolved' \in SUBSET Drops, AreGone(runs, resolved'),
           file' \in Files,
           file'.kind = "whole" => PartsSound(runs, shown, published, file'.parts, resolved')
    PROVE  BaselineInv'
<1>1. UNCHANGED <<tree, rule, contract, changes, runs, scan, invocations, shown, published>>
  BY DEF world, database
<1>2. \A d \in Commands : at'[d] = IF d = c THEN a ELSE at[d]
  BY DEF BaselineInv, BaselineTyped, CommandsTyped
<1>3. BaselineTyped'
  <2>1. CommandsTyped'
    BY DEF BaselineInv, BaselineTyped, CommandsTyped
  <2> QED BY <1>1, <2>1 DEF BaselineInv, BaselineTyped, WorldTyped, RunsTyped, ScanTyped, ReportsTyped
<1>4. ASSUME NEW d \in Commands
      PROVE  CommandSound(runs, shown, published, resolved', at'[d])
  <2>1. CASE d = c
    BY <1>2, <2>1
  <2>2. CASE d # c
    <3>1. CommandSound(runs, shown, published, resolved, at[d]) /\ at'[d] = at[d]
      BY <1>2, <2>2 DEF BaselineInv
    <3>2. GoOn(runs, runs)
      BY DEF GoOn, SameView
    <3>3. resolved \cup at[d].dropped \subseteq resolved' \cup at[d].dropped
      OBVIOUS
    <3>4. PartsSound(runs, shown, published, at[d].parts, resolved \cup at[d].dropped)
             => PartsSound(runs, shown, published, at[d].parts, resolved' \cup at[d].dropped)
      BY <3>2, <3>3, PartsStaySound
    <3> QED BY <3>1, <3>4 DEF CommandSound
  <2> QED BY <2>1, <2>2
<1>5. StartsTogether'
  BY <1>1, StartsStayTogether
<1>6. \A d \in Commands : CommandSound(runs', shown', published', resolved', at'[d])
  BY <1>1, <1>4
<1> QED BY <1>1, <1>3, <1>5, <1>6 DEF BaselineInv, RunsSound, ScanSound

\* Most steps leave the file as it is.
LEMMA CommandSteps ==
    ASSUME BaselineInv, Untouched, NEW c \in Commands, NEW a,
           at' = [at EXCEPT ![c] = a],
           a \in {Idle} \cup AtNewest \cup AtIds \cup AtOrigins \cup AtText,
           CommandSound(runs, shown, published, resolved, a), StartsRead(c, a)
    PROVE  BaselineInv'
<1>1. UNCHANGED <<world, database>> /\ file' = file /\ resolved' = resolved
  BY DEF Untouched
<1>2. /\ resolved \in SUBSET Drops /\ AreGone(runs, resolved) /\ file \in Files
      /\ file.kind = "whole" => PartsSound(runs, shown, published, file.parts, resolved)
  BY DEF BaselineInv, BaselineTyped, ReportsTyped
<1> QED BY <1>1, <1>2, CommandGoesOn

\* A command that stops has nothing in hand.
LEMMA StopStep ==
    ASSUME BaselineInv, Untouched, NEW c \in Commands, Stop(c)
    PROVE  BaselineInv'
<1>1. CommandSound(runs, shown, published, resolved, Idle) /\ StartsRead(c, Idle)
  BY DEF CommandSound, StartsRead, Idle
<1> QED BY <1>1, CommandSteps DEF Stop

\* What a command has in hand at a step.
LEMMA AtEachStep ==
    ASSUME BaselineInv, NEW c \in Commands
    PROVE  /\ at[c] \in {Idle} \cup AtNewest \cup AtIds \cup AtOrigins \cup AtText
           /\ at[c].step = "newest" => at[c] \in AtNewest
           /\ at[c].step = "ids" => at[c] \in AtIds
           /\ at[c].step = "origins" => at[c] \in AtOrigins
           /\ at[c].step \in {"open", "fill"} => at[c] \in AtText
           /\ CommandSound(runs, shown, published, resolved, at[c])
<1>1. at[c] \in {Idle} \cup AtNewest \cup AtIds \cup AtOrigins \cup AtText
  BY DEF BaselineInv, BaselineTyped, CommandsTyped
<1>2. /\ at[c] = Idle => at[c].step = "idle"
      /\ at[c] \in AtNewest => at[c].step = "newest"
      /\ at[c] \in AtIds => at[c].step = "ids"
      /\ at[c] \in AtOrigins => at[c].step = "origins"
      /\ at[c] \in AtText => at[c].step \in {"open", "fill"}
  BY DEF Idle, AtNewest, AtIds, AtOrigins, AtText
<1> QED BY <1>1, <1>2 DEF BaselineInv

\* A command begins with nothing read.
LEMMA BeginStep ==
    ASSUME BaselineInv, NEW c \in Commands, Begin(c)
    PROVE  BaselineInv'
<1>1. PICK kind \in Kinds : at' = [at EXCEPT ![c] = [step |-> "newest", kind |-> kind]]
  BY DEF Begin, Kinds
<1> DEFINE a == [step |-> "newest", kind |-> kind]
<1>2. a \in AtNewest /\ a.step = "newest"
  BY DEF AtNewest
<1>3. CommandSound(runs, shown, published, resolved, a) /\ StartsRead(c, a)
  BY <1>2 DEF CommandSound, StartsRead
<1>4. at' = [at EXCEPT ![c] = a] /\ Untouched
  BY <1>1 DEF Begin
<1> HIDE DEF a
<1> QED BY <1>2, <1>3, <1>4, CommandSteps

\* It reads the newest run,
LEMMA ReadNewestStep ==
    ASSUME BaselineInv, NEW c \in Commands, ReadNewest(c)
    PROVE  BaselineInv'
<1>1. CASE Stop(c)
  BY <1>1, StopStep DEF ReadNewest
<1>2. CASE ~Stop(c)
  <2>1. PICK i \in NewestOf(DOMAIN runs) :
            at' = [at EXCEPT ![c] = [step |-> "ids", kind |-> at[c].kind, newest |-> i]]
    BY <1>2 DEF ReadNewest
  <2> DEFINE a == [step |-> "ids", kind |-> at[c].kind, newest |-> i]
  <2>2. i \in DOMAIN runs /\ i \in Nat
    BY DEF NewestOf, BaselineInv, BaselineTyped, RunsTyped
  <2>3. at[c].kind \in Kinds
    BY AtEachStep DEF ReadNewest, AtNewest
  <2>4. a \in AtIds /\ a.step = "ids" /\ a.newest = i
    BY <2>2, <2>3 DEF AtIds
  <2>5. CommandSound(runs, shown, published, resolved, a) /\ StartsRead(c, a)
    BY <2>2, <2>4 DEF CommandSound, StartsRead
  <2>6. at' = [at EXCEPT ![c] = a] /\ Untouched
    BY <2>1 DEF ReadNewest
  <2> HIDE DEF a
  <2> QED BY <2>4, <2>5, <2>6, CommandSteps
<1> QED BY <1>1, <1>2

\* the runs that started with it,
LEMMA ReadIdsStep ==
    ASSUME BaselineInv, NEW c \in Commands, ReadIds(c)
    PROVE  BaselineInv'
<1> DEFINE ids == InvocationOf(at[c].newest)
           none == [i \in {} |-> 0]
           a == [step |-> "origins", kind |-> at[c].kind, ids |-> ids, origins |-> none]
<1>1. ids # {} /\ ids \subseteq DOMAIN runs /\ ids \in SUBSET Nat
  <2>1. at[c].newest \in DOMAIN runs
    BY AtEachStep DEF ReadIds, CommandSound
  <2> QED BY <2>1 DEF InvocationOf, BaselineInv, BaselineTyped, RunsTyped
<1>2. at[c].kind \in Kinds
  BY AtEachStep DEF ReadIds, AtIds
<1>3. none \in Origins /\ DOMAIN none = {}
  <2>1. none \in [{} -> Nat] /\ {} \in SUBSET Nat
    OBVIOUS
  <2> QED BY <2>1 DEF Origins
<1>4. at' = [at EXCEPT ![c] = a] /\ Untouched
  BY DEF ReadIds
<1> HIDE DEF ids, none
<1>5. a \in AtOrigins /\ a.step = "origins" /\ a.ids = ids /\ a.origins = none
  BY <1>1, <1>2, <1>3 DEF AtOrigins
<1> HIDE DEF a
<1>6. CommandSound(runs, shown, published, resolved, a) /\ StartsRead(c, a)
  BY <1>1, <1>3, <1>5 DEF CommandSound, StartsRead
<1> QED BY <1>4, <1>5, <1>6, CommandSteps

\* and when each of them started.
LEMMA ReadOriginStep ==
    ASSUME BaselineInv, NEW c \in Commands, ReadOrigin(c)
    PROVE  BaselineInv'
<1>1. at[c] \in AtOrigins /\ at[c].ids \subseteq DOMAIN runs /\ DOMAIN at[c].origins \subseteq at[c].ids
  BY AtEachStep DEF ReadOrigin, CommandSound
<1>2. PICK i \in at[c].ids \ DOMAIN at[c].origins :
          at' = [at EXCEPT ![c].origins =
                    [j \in DOMAIN @ \cup {i} |-> IF j = i THEN runs[i].started ELSE @[j]]]
  BY DEF ReadOrigin
<1> DEFINE old == at[c].origins
           read == [j \in DOMAIN old \cup {i} |-> IF j = i THEN runs[i].started ELSE old[j]]
           a == [step |-> "origins", kind |-> at[c].kind, ids |-> at[c].ids, origins |-> read]
<1>3. runs[i].started \in Nat /\ i \in DOMAIN runs /\ i \in Nat
  <2>1. i \in DOMAIN runs
    BY <1>1
  <2>2. invocations \in Nat
    BY BaselineAssumption DEF BaselineInv, BaselineTyped, WorldTyped
  <2> QED BY <2>1, <2>2 DEF BaselineInv, BaselineTyped, RunsTyped
<1>4. DOMAIN old \in SUBSET Nat /\ old \in [DOMAIN old -> Nat]
  BY <1>1 DEF AtOrigins, Origins
<1>5. read \in Origins /\ DOMAIN read = DOMAIN old \cup {i}
  <2>1. read \in [DOMAIN old \cup {i} -> Nat] /\ DOMAIN old \cup {i} \in SUBSET Nat
    BY <1>3, <1>4
  <2> QED BY <2>1 DEF Origins
<1>6. at' = [at EXCEPT ![c] = a]
  <2>1. [at[c] EXCEPT !.origins = read] = a
    BY <1>1 DEF AtOrigins
  <2> QED BY <1>2, <2>1
<1>7. \A j \in DOMAIN read : (j = i /\ read[j] = runs[i].started) \/ (j \in DOMAIN old /\ read[j] = old[j])
  OBVIOUS
<1> HIDE DEF read
<1>8. a \in AtOrigins /\ a.step = "origins" /\ a.ids = at[c].ids /\ a.origins = read
  BY <1>1, <1>5 DEF AtOrigins
<1> HIDE DEF a
<1>9. CommandSound(runs, shown, published, resolved, a)
  BY <1>1, <1>2, <1>5, <1>8 DEF CommandSound
<1>10. StartsRead(c, a)
  <2>1. at[c].step = "origins"
    BY DEF ReadOrigin
  <2> QED BY <1>3, <1>7, <1>8, <2>1 DEF StartsRead
<1> QED BY <1>6, <1>8, <1>9, <1>10, CommandSteps DEF ReadOrigin

(***************************************************************************)
(* The texts create and update make.                                       *)
(***************************************************************************)

\* What has been read when all starts have.
LEMMA WhatIsRead ==
    ASSUME BaselineInv, NEW c \in Commands, Read(c)
    PROVE  /\ at[c].step = "origins" /\ at[c].kind \in Kinds
           /\ at[c].ids # {} /\ at[c].ids \subseteq DOMAIN runs
           /\ at[c].origins \in [at[c].ids -> Nat]
           /\ \A i \in DOMAIN runs : i \in Nat /\ runs[i] \in Views /\ RunSound(shown, runs[i])
           /\ IsFiniteSet(at[c].ids)
           /\ shown \in SUBSET Reports
<1>1. at[c].step = "origins" /\ DOMAIN at[c].origins = at[c].ids
  BY DEF Read
<1>2. at[c] \in AtOrigins /\ at[c].ids # {} /\ at[c].ids \subseteq DOMAIN runs
  BY <1>1, AtEachStep DEF CommandSound
<1>3. at[c].kind \in Kinds /\ at[c].origins \in Origins
  BY <1>2 DEF AtOrigins
<1>4. at[c].origins \in [at[c].ids -> Nat]
  BY <1>1, <1>3 DEF Origins
<1>5. runs \in Seq(Views) /\ Len(runs) \in Nat /\ DOMAIN runs = 1 .. Len(runs)
  BY DEF BaselineInv, BaselineTyped, RunsTyped
<1>6. \A i \in DOMAIN runs : i \in Nat /\ runs[i] \in Views
  BY <1>5
<1>7. IsFiniteSet(at[c].ids)
  <2>1. IsFiniteSet(1 .. Len(runs))
    BY <1>5, FS_Interval
  <2> QED BY <1>2, <1>5, <2>1, FS_Subset
<1> QED BY <1>1, <1>2, <1>3, <1>4, <1>6, <1>7 DEF BaselineInv, RunsSound, BaselineTyped, ReportsTyped

\* The run of a partition, when there is one.
LEMMA RunOfPartition ==
    ASSUME BaselineInv, NEW c \in Commands, Read(c), NEW p, RunsOf(c, p) # {}
    PROVE  RunOf(c, p) \in at[c].ids /\ RunOf(c, p) \in DOMAIN runs /\ runs[RunOf(c, p)].part = p
<1>1. RunOf(c, p) \in RunsOf(c, p)
  BY DEF RunOf
<1> QED BY <1>1, WhatIsRead DEF RunsOf

\* Runs whose starts were read alike, though at different times, are of one
\* scan: whatever started with a scan, then or later, is among what it published.
LEMMA ReadOfOneScan ==
    ASSUME BaselineInv, NEW c \in Commands, Read(c), OneInvocation(c)
    PROVE  OfOneScan(published, at[c].ids)
<1> DEFINE ids == at[c].ids
           starts == Range(at[c].origins)
<1>1. ids # {} /\ at[c].origins \in [ids -> Nat] /\ IsFiniteSet(ids)
  BY WhatIsRead
<1>2. at[c].origins \in Surjection(ids, starts)
  BY <1>1 DEF Range, Surjection
<1>3. IsFiniteSet(starts)
  BY <1>1, <1>2, FS_Surjection
<1>4. PICK t : starts = {t}
  BY <1>3, FS_Singleton DEF OneInvocation
<1>5. \A i \in ids : at[c].origins[i] = t
  BY <1>1, <1>4 DEF Range
<1>6. t \in Nat
  BY <1>1, <1>5
<1>7. PICK s \in published \cup {{}} : StartedIn(runs, at, t, s)
  BY <1>6 DEF BaselineInv, StartsTogether
<1>8. ids \subseteq s
  BY <1>1, <1>5, <1>7, WhatIsRead DEF StartedIn
<1>9. s \in published
  BY <1>1, <1>8
<1> QED BY <1>8, <1>9 DEF OfOneScan

\* What create derives from the runs it read is sound, and typed.
LEMMA DerivedIsSound ==
    ASSUME BaselineInv, NEW c \in Commands, Read(c), OneInvocation(c)
    PROVE  LET parts == [p \in {runs[i].part : i \in at[c].ids} |-> Derived(RunOf(c, p))]
           IN  parts \in Texts /\ PartsSound(runs, shown, published, parts, resolved \cup {})
<1> DEFINE P == {runs[i].part : i \in at[c].ids}
           parts == [p \in P |-> Derived(RunOf(c, p))]
<1>1. P \subseteq Partitions
  BY WhatIsRead DEF Views
<1>2. ASSUME NEW p \in P
      PROVE  /\ parts[p] \in Parts
             /\ PartSound(runs, shown, p, parts[p], resolved \cup {})
             /\ parts[p].from \in at[c].ids
  <2> DEFINE j == RunOf(c, p)
  <2>1. RunsOf(c, p) # {}
    BY DEF RunsOf
  <2>2. j \in at[c].ids /\ j \in DOMAIN runs /\ runs[j].part = p
    BY <2>1, RunOfPartition
  <2>3. j \in Nat /\ runs[j] \in Views /\ RunSound(shown, runs[j]) /\ shown \in SUBSET Reports
    BY <2>2, WhatIsRead
  <2>4. parts[p] = Derived(j)
    OBVIOUS
  <2> HIDE DEF j, parts
  <2>5. /\ parts[p].from = j /\ parts[p].contract = runs[j].contract
        /\ parts[p].entries = Frozen(runs[j]) /\ parts[p].asOf = j
    BY <2>4 DEF Derived
  <2>6. /\ Frozen(runs[j]) \in SUBSET Entries
        /\ EntriesSound(shown, runs[j].part, runs[j].contract, Frozen(runs[j]))
    BY <2>3, FrozenIsSound
  <2>7. runs[j].contract \in Contracts
    BY <2>3 DEF Views
  <2>8. parts[p] \in Parts
    BY <2>3, <2>4, <2>6, <2>7 DEF Derived, Parts
  <2>9. PartSound(runs, shown, p, parts[p], resolved \cup {})
    BY <2>2, <2>5, <2>6 DEF PartSound
  <2> QED BY <2>2, <2>5, <2>8, <2>9
<1>3. DOMAIN parts = P
  OBVIOUS
<1>4. parts \in Texts
  <2>1. parts \in [P -> Parts]
    BY <1>2
  <2> QED BY <1>1, <2>1 DEF Texts
<1> HIDE DEF parts, P
<1>5. OfOneScan(published, {parts[p].from : p \in DOMAIN parts})
  BY <1>2, <1>3, ReadOfOneScan DEF OfOneScan
<1>6. PartsSound(runs, shown, published, parts, resolved \cup {})
  BY <1>2, <1>3, <1>5 DEF PartsSound
<1> QED BY <1>4, <1>6 DEF parts, P

\* A file that is a whole document, and what it says of each partition.
LEMMA WholeFile ==
    ASSUME BaselineInv, file.kind = "whole"
    PROVE  /\ file.parts \in Texts
           /\ PartsSound(runs, shown, published, file.parts, resolved)
           /\ DOMAIN file.parts \subseteq Partitions
           /\ \A p \in DOMAIN file.parts :
                 /\ file.parts[p] \in Parts
                 /\ PartSound(runs, shown, p, file.parts[p], resolved)
<1>1. file \in Files
  BY DEF BaselineInv, BaselineTyped
<1>2. PICK text \in Texts : file = Whole(text)
  BY <1>1 DEF Files, Absent, Empty, Mixed
<1>3. file.parts = text
  BY <1>2 DEF Whole
<1>4. PICK P \in SUBSET Partitions : file.parts \in [P -> Parts]
  BY <1>3 DEF Texts
<1> QED BY <1>3, <1>4 DEF BaselineInv, PartsSound

\* What an update makes of one partition is sound, and what it drops of it is gone.
LEMMA UpdatedIsSound ==
    ASSUME BaselineInv, NEW c \in Commands, Read(c), file.kind = "whole",
           \A i \in at[c].ids : Describes(runs[i].part, runs[i].contract),
           NEW p \in DOMAIN file.parts
    PROVE  /\ Updated(c, p) \in Parts /\ Updated(c, p).from = file.parts[p].from
           /\ PartSound(runs, shown, p, Updated(c, p), resolved \cup Dropped(c))
           /\ \A e \in file.parts[p].entries \ Updated(c, p).entries :
                 /\ e.id \in Names /\ Updated(c, p).asOf \in DOMAIN runs
                 /\ \A g \in GroupsOf(runs[Updated(c, p).asOf]) : g.id[2] # e.id[2]
<1> DEFINE q == file.parts[p]
           u == Updated(c, p)
           j == RunOf(c, p)
<1>1. q \in Parts /\ PartSound(runs, shown, p, q, resolved) /\ p \in Partitions
  BY WholeFile
<1>2. ASSUME NEW e \in q.entries, e \notin u.entries
      PROVE  \E r \in Dropped(c) : r.part = p /\ r.id = e.id
  <2>1. [part |-> p, id |-> e.id, run |-> u.asOf] \in Dropped(c)
    BY <1>2 DEF Dropped
  <2> QED BY <2>1
<1>3. CASE RunsOf(c, p) = {}
  <2>1. u = q
    BY <1>3 DEF Updated
  <2>2. PartSound(runs, shown, p, u, resolved \cup Dropped(c))
    BY <1>1, <2>1 DEF PartSound
  <2> QED BY <1>1, <2>1, <2>2
<1>4. CASE RunsOf(c, p) # {}
  <2>1. j \in at[c].ids /\ j \in DOMAIN runs /\ runs[j].part = p
    BY <1>4, RunOfPartition
  <2>2. j \in Nat /\ runs[j] \in Views
    BY <2>1, WhatIsRead
  <2>3. q.contract = runs[j].contract
    BY <2>1 DEF Describes
  <2>4. u = [q EXCEPT !.entries = Pruned(@, runs[j]), !.asOf = j]
    BY <1>4 DEF Updated
  <2> HIDE DEF q, u, j
  <2>5. /\ u.from = q.from /\ u.contract = q.contract
        /\ u.entries = Pruned(q.entries, runs[j]) /\ u.asOf = j
    BY <1>1, <2>4 DEF Parts
  <2>6. u.entries \subseteq q.entries
    BY <2>5 DEF Pruned
  <2>7. u \in Parts
    BY <1>1, <2>2, <2>4, <2>5, <2>6 DEF Parts
  <2>8. PartSound(runs, shown, p, u, resolved \cup Dropped(c))
    <3>1. EntriesSound(shown, p, u.contract, u.entries)
      BY <1>1, <2>5, <2>6 DEF PartSound, EntriesSound
    <3>2. ASSUME NEW e \in Frozen(runs[u.from])
          PROVE  e \in u.entries \/ \E r \in resolved \cup Dropped(c) : r.part = p /\ r.id = e.id
      BY <1>1, <1>2, <2>5 DEF PartSound
    <3> QED BY <1>1, <2>5, <3>1, <3>2 DEF PartSound
  <2>9. ASSUME NEW e \in q.entries, e \notin u.entries
        PROVE  /\ e.id \in Names /\ u.asOf \in DOMAIN runs
               /\ \A g \in GroupsOf(runs[u.asOf]) : g.id[2] # e.id[2]
    <3>1. e.id \in Names
      BY <1>1 DEF Parts, Entries
    <3>2. e.id[1] = runs[j].contract
      BY <1>1, <2>3 DEF PartSound, EntriesSound
    <3>3. ASSUME NEW g \in GroupsOf(runs[j]), g.id[2] = e.id[2]
          PROVE  FALSE
      <4>1. g.id \in Names /\ g.id[1] = runs[j].contract
        BY <2>2, GroupsAreTyped
      <4>2. g.id = e.id
        BY <3>1, <3>2, <3>3, <4>1 DEF Names
      <4> QED BY <2>5, <2>9, <4>2 DEF Pruned
    <3> QED BY <2>1, <2>5, <3>1, <3>3
  <2> QED BY <2>5, <2>7, <2>8, <2>9 DEF q, u
<1> QED BY <1>3, <1>4

\* What an update writes is sound, and what it dropped is gone.
LEMMA UpdateIsSound ==
    ASSUME BaselineInv, NEW c \in Commands, Read(c),
           \A i \in at[c].ids : Describes(runs[i].part, runs[i].contract)
    PROVE  LET parts == [p \in DOMAIN file.parts |-> Updated(c, p)]
           IN  /\ parts \in Texts /\ Dropped(c) \in SUBSET Drops
               /\ PartsSound(runs, shown, published, parts, resolved \cup Dropped(c))
               /\ AreGone(runs, Dropped(c))
<1> DEFINE parts == [p \in DOMAIN file.parts |-> Updated(c, p)]
<1>1. file.kind = "whole"
  BY WhatIsRead DEF Describes
<1>2. DOMAIN file.parts \in SUBSET Partitions
  BY <1>1, WholeFile
<1>3. \A p \in DOMAIN file.parts :
        /\ Updated(c, p) \in Parts /\ Updated(c, p).from = file.parts[p].from
        /\ PartSound(runs, shown, p, Updated(c, p), resolved \cup Dropped(c))
        /\ \A e \in file.parts[p].entries \ Updated(c, p).entries :
              /\ e.id \in Names /\ Updated(c, p).asOf \in DOMAIN runs
              /\ \A g \in GroupsOf(runs[Updated(c, p).asOf]) : g.id[2] # e.id[2]
  BY <1>1, UpdatedIsSound
<1>4. parts \in Texts
  <2>1. parts \in [DOMAIN file.parts -> Parts]
    BY <1>3
  <2> QED BY <1>2, <2>1 DEF Texts
<1>5. PartsSound(runs, shown, published, parts, resolved \cup Dropped(c))
  <2>1. \A p \in DOMAIN parts : PartSound(runs, shown, p, parts[p], resolved \cup Dropped(c))
    BY <1>3
  <2>2. \A p \in DOMAIN file.parts : parts[p].from = file.parts[p].from
    BY <1>3
  <2>3. OfOneScan(published, {file.parts[p].from : p \in DOMAIN file.parts})
    BY <1>1, WholeFile DEF PartsSound
  <2>4. DOMAIN parts = DOMAIN file.parts
    OBVIOUS
  <2> HIDE DEF parts
  <2>5. {parts[p].from : p \in DOMAIN parts} = {file.parts[p].from : p \in DOMAIN file.parts}
    BY <2>2, <2>4
  <2> QED BY <2>1, <2>3, <2>5 DEF PartsSound
<1>6. ASSUME NEW r \in Dropped(c)
      PROVE  /\ r \in Drops /\ r.run \in DOMAIN runs
             /\ \A g \in GroupsOf(runs[r.run]) : g.id[2] # r.id[2]
  <2>0. PICK p \in DOMAIN file.parts :
            r \in {[part |-> p, id |-> e.id, run |-> Updated(c, p).asOf] :
                      e \in file.parts[p].entries \ Updated(c, p).entries}
    BY DEF Dropped
  <2>1. PICK e \in file.parts[p].entries \ Updated(c, p).entries :
            r = [part |-> p, id |-> e.id, run |-> Updated(c, p).asOf]
    BY <2>0
  <2>2. r.part = p /\ r.id = e.id /\ r.run = Updated(c, p).asOf
    BY <2>1
  <2>3. r.run \in Nat
    BY <1>3, <2>2, WhatIsRead
  <2>4. r \in Drops
    BY <1>2, <1>3, <2>1, <2>2, <2>3 DEF Drops
  <2> QED BY <1>3, <2>2, <2>4
<1> HIDE DEF parts
<1>7. AreGone(runs, Dropped(c)) /\ Dropped(c) \in SUBSET Drops
  BY <1>6 DEF AreGone
<1> QED BY <1>4, <1>5, <1>7 DEF parts

\* A text that is ready is written next.
LEMMA ReadyStep ==
    ASSUME BaselineInv, Untouched, NEW c \in Commands, at[c].kind \in Kinds,
           NEW parts \in Texts, NEW dropped \in SUBSET Drops, Ready(c, parts, dropped),
           PartsSound(runs, shown, published, parts, resolved \cup dropped), AreGone(runs, dropped)
    PROVE  BaselineInv'
<1> DEFINE a == [step |-> "open", kind |-> at[c].kind, parts |-> parts, dropped |-> dropped]
<1>1. a \in AtText /\ a.step = "open" /\ a.parts = parts /\ a.dropped = dropped
  BY DEF AtText
<1>2. at' = [at EXCEPT ![c] = a]
  BY DEF Ready
<1> HIDE DEF a
<1>3. CommandSound(runs, shown, published, resolved, a) /\ StartsRead(c, a)
  BY <1>1 DEF CommandSound, StartsRead
<1> QED BY <1>1, <1>2, <1>3, CommandSteps

\* Create stops, or has a sound text.
LEMMA CreateStep ==
    ASSUME BaselineInv, NEW c \in Commands, Create(c)
    PROVE  BaselineInv'
<1> DEFINE parts == [p \in {runs[i].part : i \in at[c].ids} |-> Derived(RunOf(c, p))]
<1>1. CASE ~OneInvocation(c)
  BY <1>1, StopStep DEF Create
<1>2. CASE OneInvocation(c)
  <2>1. Read(c) /\ Untouched /\ Ready(c, parts, {})
    BY <1>2 DEF Create
  <2>2. at[c].kind \in Kinds
    BY <2>1, WhatIsRead
  <2>3. parts \in Texts /\ PartsSound(runs, shown, published, parts, resolved \cup {})
    BY <1>2, <2>1, DerivedIsSound
  <2>4. AreGone(runs, {})
    BY DEF AreGone
  <2> HIDE DEF parts
  <2> QED BY <2>1, <2>2, <2>3, <2>4, ReadyStep
<1> QED BY <1>1, <1>2

\* So does update.
LEMMA UpdateStep ==
    ASSUME BaselineInv, NEW c \in Commands, Update(c)
    PROVE  BaselineInv'
<1> DEFINE parts == [p \in DOMAIN file.parts |-> Updated(c, p)]
           known == \A i \in at[c].ids : Describes(runs[i].part, runs[i].contract)
<1>1. CASE ~known
  BY <1>1, StopStep DEF Update
<1>2. CASE known
  <2>1. Read(c) /\ Untouched /\ Ready(c, parts, Dropped(c))
    BY <1>2 DEF Update
  <2>2. at[c].kind \in Kinds
    BY <2>1, WhatIsRead
  <2>3. /\ parts \in Texts /\ Dropped(c) \in SUBSET Drops
        /\ PartsSound(runs, shown, published, parts, resolved \cup Dropped(c))
        /\ AreGone(runs, Dropped(c))
    BY <1>2, <2>1, UpdateIsSound
  <2> HIDE DEF parts
  <2> QED BY <2>1, <2>2, <2>3, ReadyStep
<1> QED BY <1>1, <1>2

\* Opening the file empties it, and keeps the text in hand.
LEMMA OpenStep ==
    ASSUME BaselineInv, NEW c \in Commands, Open(c)
    PROVE  BaselineInv'
<1>1. CASE at[c].kind = "create" /\ file # Absent
  BY <1>1, StopStep DEF Open, Untouched
<1>2. CASE ~(at[c].kind = "create" /\ file # Absent)
  <2> DEFINE a == [at[c] EXCEPT !.step = "fill"]
  <2>1. at[c] \in AtText /\ CommandSound(runs, shown, published, resolved, at[c]) /\ at[c].step = "open"
    BY AtEachStep DEF Open
  <2>2. at' = [at EXCEPT ![c] = a] /\ file' = Empty /\ UNCHANGED <<world, database, resolved>>
    BY <1>2 DEF Open
  <2>3. a \in AtText /\ a.step = "fill" /\ a.parts = at[c].parts /\ a.dropped = at[c].dropped
    BY <2>1 DEF AtText
  <2> HIDE DEF a
  <2>4. CommandSound(runs, shown, published, resolved, a) /\ StartsRead(c, a)
    BY <2>1, <2>3 DEF CommandSound, StartsRead
  <2>5. file' \in Files /\ file'.kind # "whole"
    BY <2>2 DEF Files, Empty
  <2>6. resolved \in SUBSET Drops /\ AreGone(runs, resolved)
    BY DEF BaselineInv, BaselineTyped, ReportsTyped
  <2> QED BY <2>2, <2>3, <2>4, <2>5, <2>6, CommandGoesOn
<1> QED BY <1>1, <1>2

\* What is written is the text in hand, or over another's something unreadable.
LEMMA FillStep ==
    ASSUME BaselineInv, NEW c \in Commands, Fill(c)
    PROVE  BaselineInv'
<1>1. at[c] \in AtText /\ CommandSound(runs, shown, published, resolved, at[c]) /\ at[c].step = "fill"
  BY AtEachStep DEF Fill
<1>2. /\ at' = [at EXCEPT ![c] = Idle] /\ UNCHANGED <<world, database>>
      /\ resolved' = resolved \cup at[c].dropped
      /\ file' = Whole(at[c].parts) \/ file' = Mixed
  BY DEF Fill, Stop
<1>3. PartsSound(runs, shown, published, at[c].parts, resolved') /\ AreGone(runs, at[c].dropped)
  BY <1>1, <1>2 DEF CommandSound
<1>4. at[c].parts \in Texts /\ at[c].dropped \in SUBSET Drops
  BY <1>1 DEF AtText
<1>5. /\ resolved \subseteq resolved' /\ resolved' \in SUBSET Drops
      /\ AreGone(runs, resolved')
  BY <1>2, <1>3, <1>4 DEF BaselineInv, BaselineTyped, ReportsTyped, AreGone
<1>6. file' \in Files /\ (file'.kind = "whole" => file'.parts = at[c].parts)
  BY <1>2, <1>4 DEF Files, Whole, Mixed
<1>7. CommandSound(runs, shown, published, resolved', Idle) /\ StartsRead(c, Idle)
  BY DEF CommandSound, StartsRead, Idle
<1> QED BY <1>2, <1>3, <1>5, <1>6, <1>7, CommandGoesOn

\* Every step of a command.
LEMMA CommandStep ==
    ASSUME BaselineInv, NEW c \in Commands, Command(c)
    PROVE  BaselineInv'
<1>1. CASE Crash(c)
  BY <1>1, StopStep DEF Crash
<1> QED BY <1>1, BeginStep, ReadNewestStep, ReadIdsStep, ReadOriginStep, CreateStep, UpdateStep,
           OpenStep, FillStep DEF Command

(***************************************************************************)
(* The user and the scans.                                                 *)
(***************************************************************************)

\* Nothing recorded depends on the tree, the rules or the settings of now.
LEMMA ChangeStep ==
    ASSUME BaselineInv, Change
    PROVE  BaselineInv'
<1>1. UNCHANGED <<runs, scan, invocations, shown, published, at, file, resolved>>
  BY DEF Change, database
<1>2. WorldTyped'
  <2>1. WorldTyped /\ changes' \in 0 .. MaxChange
    BY BaselineAssumption DEF Change, BaselineInv, BaselineTyped, WorldTyped
  <2>2. tree' \in [Sites -> Codes] /\ rule' \in Rules /\ contract' \in Contracts
    BY <2>1 DEF Change, WorldTyped
  <2> QED BY <1>1, <2>1, <2>2 DEF WorldTyped
<1>3. BaselineTyped'
  BY <1>1, <1>2 DEF BaselineInv, BaselineTyped, RunsTyped, ScanTyped, ReportsTyped, CommandsTyped
<1>4. StartsTogether'
  BY <1>1 DEF BaselineInv, StartsTogether
<1> QED BY <1>1, <1>3, <1>4 DEF BaselineInv, RunsSound, ScanSound

\* A scan that starts has a start of its own.
LEMMA StartStep ==
    ASSUME BaselineInv, Start
    PROVE  BaselineInv'
<1>1. /\ UNCHANGED <<tree, rule, contract, changes, runs, shown, published, at, file, resolved>>
      /\ invocations' = invocations + 1 /\ invocations < MaxInvocation /\ scan = Idle
  BY DEF Start, world
<1>2. PICK parts \in SUBSET Partitions, mode \in Modes :
          scan' = [step |-> "analyze", todo |-> parts, mode |-> mode, new |-> {}, reused |-> {}]
  BY DEF Start
<1>3. scan' \in Scans /\ IsFiniteSet(scan'.new) /\ scan'.new = {} /\ scan'.reused = {}
  BY <1>2, FS_EmptySet DEF Scans
<1>4. invocations \in Nat /\ invocations' \in 0 .. MaxInvocation
  BY <1>1, BaselineAssumption DEF BaselineInv, BaselineTyped, WorldTyped
<1>5. BaselineTyped'
  <2>1. WorldTyped'
    BY <1>1, <1>4 DEF BaselineInv, BaselineTyped, WorldTyped
  <2>2. RunsTyped'
    BY <1>1, <1>4 DEF BaselineInv, BaselineTyped, RunsTyped
  <2> QED BY <1>1, <1>3, <2>1, <2>2 DEF BaselineInv, BaselineTyped, ScanTyped, ReportsTyped, CommandsTyped
<1>6. ScanSound'
  BY <1>1, <1>3, <1>4 DEF ScanSound
<1>7. StartsTogether'
  <2>1. \A t \in Nat : t > invocations' \/ (scan' # Idle /\ t = invocations') => t > invocations
    BY <1>1, <1>4
  <2> QED BY <1>1, <2>1 DEF BaselineInv, StartsTogether
<1> QED BY <1>1, <1>5, <1>6, <1>7 DEF BaselineInv, RunsSound

\* What an analysis makes of a partition is a view, and reads what was shown.
LEMMA ViewIsSound ==
    ASSUME BaselineInv, NEW part \in Partitions, NEW mode \in Modes,
           mode = "none" \/ Describes(part, contract)
    PROVE  /\ View(part, mode) \in Views
           /\ \A e \in View(part, mode).entries : ShownIn(shown, View(part, mode).part, e)
<1> DEFINE entries == IF mode = "none" THEN {} ELSE file.parts[part].entries
           asOf == IF mode = "none" THEN 0 ELSE file.parts[part].asOf
<1>1. /\ entries \in SUBSET Entries /\ asOf \in Nat
      /\ \A e \in entries : ShownIn(shown, part, e)
  <2>1. CASE mode = "none"
    BY <2>1
  <2>2. CASE mode # "none"
    <3>1. file.kind = "whole" /\ part \in DOMAIN file.parts
      BY <2>2 DEF Describes
    <3>2. file.parts[part] \in Parts /\ PartSound(runs, shown, part, file.parts[part], resolved)
      BY <3>1, WholeFile
    <3> QED BY <2>2, <3>2 DEF Parts, PartSound, EntriesSound
  <2> QED BY <2>1, <2>2
<1>2. Restrict(tree, SitesOf[part]) \in Trees
  <2>1. SitesOf[part] \in SUBSET Sites
    BY BaselineAssumption
  <2>2. Restrict(tree, SitesOf[part]) \in [SitesOf[part] -> Codes]
    BY <2>1 DEF Restrict, BaselineInv, BaselineTyped, WorldTyped
  <2> QED BY <2>1, <2>2 DEF Trees
<1>3. rule \in Rules /\ contract \in Contracts
  BY DEF BaselineInv, BaselineTyped, WorldTyped
<1>4. View(part, mode) = [part |-> part, tree |-> Restrict(tree, SitesOf[part]), rule |-> rule,
                          contract |-> contract, mode |-> mode, started |-> 0,
                          entries |-> entries, asOf |-> asOf]
  BY DEF View
<1> HIDE DEF entries, asOf
<1>5. View(part, mode).entries = entries /\ View(part, mode).part = part
  BY <1>4
<1> QED BY <1>1, <1>2, <1>3, <1>4, <1>5 DEF Views

\* A scan gives up, or has one more partition analyzed.
LEMMA AnalyzeStep ==
    ASSUME BaselineInv, Analyze
    PROVE  BaselineInv'
<1>1. UNCHANGED <<tree, rule, contract, changes, runs, invocations, shown, published, at, file, resolved>>
  BY DEF Analyze, world
<1>2. scan # Idle /\ scan \in Scans /\ IsFiniteSet(scan.new)
  BY DEF Analyze, BaselineInv, BaselineTyped, ScanTyped, Idle
<1>3. ScanTyped' /\ ScanSound'
  <2>1. CASE scan' = Idle
    BY <2>1 DEF ScanTyped, ScanSound
  <2>2. CASE scan' # Idle
    <3>1. PICK part \in scan.todo :
              /\ scan.mode = "none" \/ Describes(part, contract)
              /\ LET view == View(part, scan.mode)
                 IN scan' = [scan EXCEPT !.todo = @ \ {part},
                              !.reused = @ \cup Reusable(view),
                              !.new = @ \cup (IF Reusable(view) = {} THEN {view} ELSE {})]
      BY <2>2 DEF Analyze
    <3> DEFINE view == View(part, scan.mode)
               again == Reusable(view)
               new == IF again = {} THEN {view} ELSE {}
    <3>2. part \in Partitions /\ scan.mode \in Modes
      BY <1>2 DEF Scans
    <3>3. view \in Views /\ \A e \in view.entries : ShownIn(shown, view.part, e)
      BY <3>1, <3>2, ViewIsSound
    <3>4. again \subseteq DOMAIN runs /\ again \in SUBSET Nat
      BY DEF Reusable, NewestOf, Compatible, BaselineInv, BaselineTyped, RunsTyped
    <3>5. IsFiniteSet(new)
      BY FS_EmptySet, FS_Singleton
    <3>6. scan' = [scan EXCEPT !.todo = @ \ {part}, !.reused = @ \cup again, !.new = @ \cup new]
      BY <3>1
    <3>7. new \in SUBSET Views /\ \A v \in new : \A e \in v.entries : ShownIn(shown, v.part, e)
      BY <3>3
    <3> HIDE DEF view, again, new
    <3>8. scan'.reused = scan.reused \cup again /\ scan'.new = scan.new \cup new
      BY <1>2, <3>6 DEF Scans
    <3>9. scan' \in Scans
      BY <1>2, <3>4, <3>6, <3>7 DEF Scans
    <3>10. IsFiniteSet(scan'.new)
      BY <1>2, <3>5, <3>8, FS_Union
    <3>11. scan'.reused \subseteq DOMAIN runs
      BY <1>2, <3>4, <3>8 DEF BaselineInv, ScanSound
    <3>12. \A v \in scan'.new : \A e \in v.entries : ShownIn(shown, v.part, e)
      BY <1>2, <3>7, <3>8 DEF BaselineInv, ScanSound
    <3>13. invocations' >= 1
      BY <1>1, <1>2 DEF BaselineInv, ScanSound
    <3> QED BY <1>1, <3>9, <3>10, <3>11, <3>12, <3>13 DEF ScanTyped, ScanSound
  <2> QED BY <2>1, <2>2
<1>4. BaselineTyped'
  BY <1>1, <1>3 DEF BaselineInv, BaselineTyped, WorldTyped, RunsTyped, ReportsTyped, CommandsTyped
<1>5. StartsTogether'
  BY <1>1, <1>2 DEF BaselineInv, StartsTogether
<1> QED BY <1>1, <1>3, <1>4, <1>5 DEF BaselineInv, RunsSound

(***************************************************************************)
(* Publication.                                                            *)
(***************************************************************************)

\* What a scan publishes: the runs that were, some of them started again, and
\* a run for each of its views.
LEMMA WhatIsPublished ==
    ASSUME BaselineInv, Publish
    PROVE  /\ scan \in Scans /\ scan # Idle /\ scan.reused \subseteq DOMAIN runs
           /\ invocations >= 1
           /\ \A v \in scan.new : v \in Views /\ \A e \in v.entries : ShownIn(shown, v.part, e)
           /\ invocations \in Nat /\ runs' \in Seq(Views)
           /\ GoOn(runs, runs')
           /\ \A i \in DOMAIN runs :
                 runs'[i].started = IF i \in scan.reused THEN invocations ELSE runs[i].started
           /\ \A i \in DOMAIN runs' \ DOMAIN runs :
                 \E v \in scan.new : SameView(runs'[i], v) /\ runs'[i].started = invocations
<1>1. scan # Idle /\ scan \in Scans /\ IsFiniteSet(scan.new)
  BY DEF Publish, BaselineInv, BaselineTyped, ScanTyped, Idle
<1>2. invocations >= 1 /\ scan.reused \subseteq DOMAIN runs /\ scan.new \subseteq Views
  BY <1>1 DEF BaselineInv, ScanSound, Scans
<1>3. \A v \in scan.new : \A e \in v.entries : ShownIn(shown, v.part, e)
  BY <1>1 DEF BaselineInv, ScanSound
<1>4. invocations \in Nat
  BY BaselineAssumption DEF BaselineInv, BaselineTyped, WorldTyped
<1>5. runs \in Seq(Views)
  BY DEF BaselineInv, BaselineTyped, RunsTyped
<1> DEFINE n == Cardinality(scan.new)
           moved == [i \in DOMAIN runs |->
                        IF i \in scan.reused THEN [runs[i] EXCEPT !.started = invocations] ELSE runs[i]]
           Added(order) == [k \in DOMAIN order |-> [order[k] EXCEPT !.started = invocations]]
<1>6. PICK order \in [1 .. n -> scan.new] : runs' = moved \o Added(order)
  BY DEF Publish, Stamp
<1>7. n \in Nat
  BY <1>1, FS_CardinalityType
<1> DEFINE added == Added(order)
<1>8. ASSUME NEW v \in Views
      PROVE  LET again == [v EXCEPT !.started = invocations]
             IN again \in Views /\ SameView(again, v) /\ again.started = invocations
  BY <1>4 DEF Views, SameView
<1>9. /\ moved \in Seq(Views) /\ Len(moved) = Len(runs) /\ Len(runs) \in Nat
      /\ DOMAIN runs = 1 .. Len(runs)
  <2>1. Len(runs) \in Nat /\ DOMAIN runs = 1 .. Len(runs) /\ \A i \in DOMAIN runs : runs[i] \in Views
    BY <1>5
  <2>2. moved \in [1 .. Len(runs) -> Views] /\ DOMAIN moved = 1 .. Len(runs)
    BY <1>8, <2>1
  <2> HIDE DEF moved
  <2> QED BY <2>1, <2>2
<1>10. added \in [1 .. n -> Views] /\ DOMAIN added = 1 .. n
  BY <1>2, <1>6, <1>8
<1>11. added \in Seq(Views) /\ Len(added) = n
  BY <1>7, <1>10
<1>12. ASSUME NEW i \in DOMAIN runs
       PROVE  /\ SameView(moved[i], runs[i])
              /\ moved[i].started = IF i \in scan.reused THEN invocations ELSE runs[i].started
  <2>1. runs[i] \in Views
    BY <1>5
  <2>2. moved[i] = IF i \in scan.reused THEN [runs[i] EXCEPT !.started = invocations] ELSE runs[i]
    OBVIOUS
  <2>3. SameView(runs[i], runs[i])
    BY DEF SameView
  <2> QED BY <1>8, <2>1, <2>2, <2>3
<1>13. ASSUME NEW k \in 1 .. n
       PROVE  \E v \in scan.new : SameView(added[k], v) /\ added[k].started = invocations
  <2>1. order[k] \in scan.new /\ order[k] \in Views
    BY <1>2, <1>6
  <2>2. added[k] = [order[k] EXCEPT !.started = invocations]
    BY <1>6
  <2> QED BY <1>8, <2>1, <2>2
<1> HIDE DEF moved, added
<1>14. runs' = moved \o added
  BY <1>6 DEF added
<1>15. /\ runs' \in Seq(Views) /\ DOMAIN runs' = 1 .. Len(runs) + n
       /\ \A i \in 1 .. Len(runs) : runs'[i] = moved[i]
       /\ \A i \in Len(runs) + 1 .. Len(runs) + n : runs'[i] = added[i - Len(runs)]
  BY <1>7, <1>9, <1>11, <1>14
<1>16. DOMAIN runs \subseteq DOMAIN runs'
  BY <1>7, <1>9, <1>15
<1>17. GoOn(runs, runs')
  BY <1>9, <1>12, <1>15, <1>16 DEF GoOn
<1>18. ASSUME NEW i \in DOMAIN runs' \ DOMAIN runs
       PROVE  \E v \in scan.new : SameView(runs'[i], v) /\ runs'[i].started = invocations
  <2>1. i \in Len(runs) + 1 .. Len(runs) + n /\ i - Len(runs) \in 1 .. n
    BY <1>7, <1>9, <1>15
  <2> QED BY <1>13, <1>15, <2>1
<1>19. \A i \in DOMAIN runs :
          runs'[i].started = IF i \in scan.reused THEN invocations ELSE runs[i].started
  BY <1>9, <1>12, <1>15
<1> QED BY <1>1, <1>2, <1>3, <1>4, <1>15, <1>17, <1>18, <1>19

\* A scan leaves a recorded run for each view, and its report in what was shown.
LEMMA PublishStep ==
    ASSUME BaselineInv, Publish
    PROVE  BaselineInv'
<1>1. /\ UNCHANGED <<tree, rule, contract, changes, invocations, at, file, resolved>>
      /\ scan' = Idle
      /\ published' = published \cup {scan.reused \cup (DOMAIN runs' \ DOMAIN runs)}
      /\ shown' = shown \cup (UNION {Visible(runs'[i]) : i \in scan.reused})
                        \cup (UNION {Visible(view) : view \in scan.new})
  BY DEF Publish, world
<1>2. /\ scan \in Scans /\ scan # Idle /\ scan.reused \subseteq DOMAIN runs
      /\ invocations >= 1
      /\ \A v \in scan.new : v \in Views /\ \A e \in v.entries : ShownIn(shown, v.part, e)
      /\ invocations \in Nat /\ runs' \in Seq(Views)
      /\ GoOn(runs, runs')
      /\ \A i \in DOMAIN runs :
            runs'[i].started = IF i \in scan.reused THEN invocations ELSE runs[i].started
      /\ \A i \in DOMAIN runs' \ DOMAIN runs :
            \E v \in scan.new : SameView(runs'[i], v) /\ runs'[i].started = invocations
  BY WhatIsPublished
<1>3. ASSUME NEW i \in DOMAIN runs' PROVE i \in Nat /\ runs'[i] \in Views
  BY <1>2
<1>4. NoneStarted(runs, at, invocations)
  BY <1>2 DEF BaselineInv, StartsTogether
<1>5. RunsTyped'
  <2>1. ASSUME NEW i \in DOMAIN runs' PROVE runs'[i].started \in 1 .. invocations
    <3>1. CASE i \in DOMAIN runs
      BY <1>2, <3>1 DEF BaselineInv, BaselineTyped, RunsTyped
    <3>2. CASE i \notin DOMAIN runs
      <4>1. runs'[i].started = invocations
        BY <1>2, <3>2
      <4> QED BY <1>2, <4>1
    <3> QED BY <3>1, <3>2
  <2> QED BY <1>1, <1>2, <2>1 DEF RunsTyped
<1>6. /\ shown \subseteq shown' /\ shown' \in SUBSET Reports
      /\ \A i \in scan.reused : Visible(runs'[i]) \subseteq shown'
      /\ \A v \in scan.new : Visible(v) \subseteq shown'
  <2>1. ASSUME NEW v \in Views PROVE Visible(v) \subseteq Reports
    <3>1. v.part \in Partitions
      BY DEF Views
    <3> QED BY <3>1, GroupsAreTyped DEF Visible, Reports
  <2>2. \A i \in scan.reused : Visible(runs'[i]) \subseteq Reports
    BY <1>2, <1>3, <2>1 DEF GoOn
  <2>3. \A v \in scan.new : Visible(v) \subseteq Reports
    BY <1>2, <2>1
  <2>4. shown \in SUBSET Reports
    BY DEF BaselineInv, BaselineTyped, ReportsTyped
  <2> DEFINE again == UNION {Visible(runs'[i]) : i \in scan.reused}
             first == UNION {Visible(view) : view \in scan.new}
  <2>5. again \subseteq Reports /\ \A i \in scan.reused : Visible(runs'[i]) \subseteq again
    BY <2>2
  <2>6. first \subseteq Reports /\ \A v \in scan.new : Visible(v) \subseteq first
    BY <2>3
  <2>7. shown' = shown \cup again \cup first
    BY <1>1
  <2> HIDE DEF again, first
  <2> QED BY <2>4, <2>5, <2>6, <2>7
<1>7. published \subseteq published' /\ published' \in SUBSET (SUBSET Nat)
  BY <1>1, <1>2, <1>3 DEF BaselineInv, BaselineTyped, ReportsTyped, GoOn
<1>8. BaselineTyped'
  BY <1>1, <1>5, <1>6, <1>7
  DEF BaselineInv, BaselineTyped, WorldTyped, ScanTyped, ReportsTyped, CommandsTyped
<1>9. RunsSound'
  <2>1. ASSUME NEW i \in DOMAIN runs' PROVE RunSound(shown', runs'[i])
    <3>1. CASE i \in DOMAIN runs
      <4>1. SameView(runs'[i], runs[i]) /\ RunSound(shown, runs[i])
        BY <1>2, <3>1 DEF GoOn, BaselineInv, RunsSound
      <4>2. Visible(runs'[i]) = Visible(runs[i])
        BY <4>1, SameFindings
      <4> QED BY <1>6, <4>1, <4>2 DEF RunSound, SameView, ShownIn
    <3>2. CASE i \notin DOMAIN runs
      <4>1. PICK v \in scan.new : SameView(runs'[i], v)
        BY <1>2, <3>2
      <4>2. Visible(runs'[i]) = Visible(v)
        BY <4>1, SameFindings
      <4>3. \A e \in v.entries : ShownIn(shown, v.part, e)
        BY <1>2
      <4> QED BY <1>6, <4>1, <4>2, <4>3 DEF RunSound, SameView, ShownIn
    <3> QED BY <3>1, <3>2
  <2> QED BY <2>1 DEF RunsSound
<1>10. ScanSound'
  BY <1>1 DEF ScanSound
<1>11. ASSUME NEW c \in Commands
       PROVE  CommandSound(runs', shown', published', resolved, at[c])
  <2>1. CommandSound(runs, shown, published, resolved, at[c]) /\ DOMAIN runs \subseteq DOMAIN runs'
    BY <1>2 DEF BaselineInv, GoOn
  <2>2. at[c].step \in {"open", "fill"} =>
           /\ PartsSound(runs', shown', published', at[c].parts, resolved \cup at[c].dropped)
           /\ AreGone(runs', at[c].dropped)
    BY <1>2, <1>6, <1>7, <2>1, PartsStaySound, GoneStays DEF CommandSound
  <2> QED BY <2>1, <2>2 DEF CommandSound
<1>12. \A c \in Commands : CommandSound(runs', shown', published', resolved', at'[c])
  BY <1>1, <1>11
<1>13. AreGone(runs', resolved')
  BY <1>1, <1>2, GoneStays DEF BaselineInv
<1>14. file'.kind = "whole" => PartsSound(runs', shown', published', file'.parts, resolved')
  BY <1>1, <1>2, <1>6, <1>7, PartsStaySound DEF BaselineInv
<1>15. StartsTogether'
  <2>1. ASSUME NEW t \in Nat PROVE \E s \in published' \cup {{}} : StartedIn(runs', at, t, s)
    <3>1. CASE t = invocations
      <4> DEFINE s == scan.reused \cup (DOMAIN runs' \ DOMAIN runs)
      <4>1. \A i \in DOMAIN runs' : runs'[i].started = t => i \in s
        BY <1>2, <1>4, <3>1 DEF NoneStarted
      <4>2. s \in published' /\ StartedIn(runs', at, t, s)
        BY <1>1, <1>4, <3>1, <4>1 DEF NoneStarted, StartedIn
      <4> QED BY <4>2
    <3>2. CASE t # invocations
      <4>1. PICK s \in published \cup {{}} : StartedIn(runs, at, t, s)
        BY DEF BaselineInv, StartsTogether
      <4>2. \A i \in DOMAIN runs' : runs'[i].started = t => i \in s
        BY <1>2, <3>2, <4>1 DEF StartedIn
      <4>3. StartedIn(runs', at, t, s)
        BY <4>1, <4>2 DEF StartedIn
      <4> QED BY <1>7, <4>3
    <3> QED BY <3>1, <3>2
  <2>2. ASSUME NEW t \in Nat, t > invocations PROVE NoneStarted(runs', at, t)
    <3>1. NoneStarted(runs, at, t) /\ t # invocations
      BY <1>2, <2>2 DEF BaselineInv, StartsTogether
    <3>2. \A i \in DOMAIN runs' : runs'[i].started # t
      BY <1>2, <3>1 DEF NoneStarted
    <3> QED BY <3>1, <3>2 DEF NoneStarted
  <2> QED BY <1>1, <2>1, <2>2 DEF StartsTogether
<1> QED BY <1>8, <1>9, <1>10, <1>12, <1>13, <1>14, <1>15 DEF BaselineInv

(***************************************************************************)
(* The theorems.                                                           *)
(***************************************************************************)

\* Every step keeps the invariant.
LEMMA BaselineInvStep == BaselineInv /\ [Next]_baselineVars => BaselineInv'
<1> SUFFICES ASSUME BaselineInv, [Next]_baselineVars PROVE BaselineInv'
  OBVIOUS
<1>1. CASE \E c \in Commands : Command(c)
  BY <1>1, CommandStep
<1>2. CASE UNCHANGED baselineVars
  <2>1. UNCHANGED <<tree, rule, contract, changes, runs, scan, invocations, shown, published,
                    at, file, resolved>>
    BY <1>2 DEF baselineVars, world, database
  <2> QED BY <2>1
      DEF BaselineInv, BaselineTyped, WorldTyped, RunsTyped, ScanTyped, ReportsTyped, CommandsTyped,
          RunsSound, ScanSound, StartsTogether
<1> QED BY <1>1, <1>2, ChangeStep, StartStep, AnalyzeStep, PublishStep DEF Next

\* The invariant holds of every reachable state.
LEMMA BaselineInvAlways == Spec => []BaselineInv
<1> QED BY BaselineInvInit, BaselineInvStep, PTL DEF Spec

\* Types: the invariant's, read as the model states them.
LEMMA BaselineTypes == BaselineInv => TypeOK
<1> SUFFICES ASSUME BaselineInv PROVE TypeOK
  OBVIOUS
<1>1. WorldTyped
  BY DEF BaselineInv, BaselineTyped
<1>2. \A i \in DOMAIN runs : /\ runs[i].part \in Partitions /\ runs[i].mode \in Modes
                             /\ runs[i].started \in 1..invocations
  <2>1. \A i \in DOMAIN runs : runs[i] \in Views /\ runs[i].started \in 1..invocations
    BY DEF BaselineInv, BaselineTyped, RunsTyped
  <2> QED BY <2>1 DEF Views
<1>3. scan.step \in {"idle", "analyze"}
  BY DEF BaselineInv, BaselineTyped, ScanTyped, Scans, Idle
<1>4. file.kind \in {"absent", "empty", "mixed", "whole"}
  BY DEF BaselineInv, BaselineTyped, Files, Absent, Empty, Mixed, Whole
<1>5. file.kind = "whole" =>
         \A p \in DOMAIN file.parts :
            /\ file.parts[p].from \in DOMAIN runs /\ runs[file.parts[p].from].part = p
            /\ \A e \in file.parts[p].entries : e.n >= 2
  BY WholeFile DEF PartSound, EntriesSound
<1>6. ASSUME NEW c \in Commands
      PROVE  at[c].step \in {"idle", "newest", "ids", "origins", "open", "fill"}
  BY AtEachStep DEF Idle, AtNewest, AtIds, AtOrigins, AtText
<1> QED BY <1>1, <1>2, <1>3, <1>4, <1>5, <1>6 DEF TypeOK, WorldTyped

\* What a baseline leaves visible of what it was made from has been dropped.
LEMMA NothingLeftOut == BaselineInv => WhatIsLeftCameAfter
<1> SUFFICES ASSUME BaselineInv, file.kind = "whole", NEW p \in DOMAIN file.parts,
                    NEW g \in GroupsOf([runs[file.parts[p].from] EXCEPT
                                            !.mode = "suppress", !.entries = file.parts[p].entries]),
                    Verdict([runs[file.parts[p].from] EXCEPT
                                !.mode = "suppress", !.entries = file.parts[p].entries], g) = "visible"
             PROVE  \E r \in resolved : r.part = p /\ r.id = g.id
  BY DEF WhatIsLeftCameAfter
<1> DEFINE q == file.parts[p]
           v == runs[q.from]
<1>1. q \in Parts /\ PartSound(runs, shown, p, q, resolved)
  BY WholeFile
<1>2. v \in Views /\ q.entries \in SUBSET Entries
  BY <1>1 DEF Parts, PartSound, BaselineInv, BaselineTyped, RunsTyped
<1>3. [id |-> g.id, n |-> g.n] \in Frozen(v) /\ [id |-> g.id, n |-> g.n] \notin q.entries
  BY <1>2, LeftHasNoEntry
<1> QED BY <1>1, <1>3 DEF PartSound

\* Hiding and marking come to the same.
LEMMA ModesComeToTheSame == BaselineInv => ModesAgree
<1> SUFFICES ASSUME BaselineInv, NEW p \in Partitions, Describes(p, contract)
             PROVE  Findings(View(p, "suppress")) = Findings(View(p, "compare"))
  BY DEF ModesAgree
<1> DEFINE v == View(p, "suppress")
           w == View(p, "compare")
           entries == file.parts[p].entries
<1>1. v \in Views
  BY ViewIsSound DEF Modes
<1>2. /\ v.part = p /\ v.tree = Restrict(tree, SitesOf[p]) /\ v.rule = rule
      /\ v.contract = contract /\ v.entries = entries /\ v.mode = "suppress"
  BY DEF View
<1>3. /\ w.part = p /\ w.tree = Restrict(tree, SitesOf[p]) /\ w.rule = rule
      /\ w.contract = contract /\ w.entries = entries /\ w.mode = "compare"
  BY DEF View
<1>4. \A e \in entries : \A f \in entries : e.id = f.id => e = f
  BY WholeFile DEF Describes, PartSound, EntriesSound
<1> HIDE DEF v, w, entries
<1>5. Findings(v) = Findings(w)
  BY <1>1, <1>2, <1>3, <1>4, ModesFindAlike
<1> QED BY <1>5 DEF v, w

\* The invariant is the honesty of a baseline, and what keeps it.
LEMMA InvariantIsHonest == BaselineInv => BaselineIsHonest
<1> SUFFICES ASSUME BaselineInv PROVE BaselineIsHonest
  OBVIOUS
<1>1. CreatedFromOneScan
  BY WholeFile DEF PartsSound, OfOneScan, CreatedFromOneScan
<1>2. ResolvedIsGone
  BY DEF BaselineInv, AreGone, ResolvedIsGone
<1> QED BY <1>1, <1>2, BaselineTypes, NothingLeftOut, ModesComeToTheSame DEF BaselineIsHonest

\* Whatever commands, scans and edits came before, a baseline is of one scan,
\* hides of it what it froze and nothing else, means the same in both modes,
\* and has dropped only what is gone.
THEOREM BaselineHonest == Spec => []BaselineIsHonest
<1> QED BY BaselineInvAlways, InvariantIsHonest, PTL

\* A scan hides because of the baseline only what a report showed.
LEMMA HidesWhatWasShown ==
    ASSUME BaselineInv, Publish, NEW i \in DOMAIN runs' \ DOMAIN runs,
           NEW g \in GroupsOf(runs'[i]), Verdict(runs'[i], g) = "baseline"
    PROVE  \E s \in shown : s.part = runs'[i].part /\ s.id = g.id /\ s.n >= g.n
<1>1. PICK v \in scan.new : SameView(runs'[i], v)
  BY WhatIsPublished
<1>2. v \in Views /\ \A e \in v.entries : ShownIn(shown, v.part, e)
  BY WhatIsPublished
<1>3. g \in GroupsOf(v) /\ Verdict(v, g) = "baseline"
  BY <1>1, SameFindings
<1>4. PICK e \in v.entries : e.id = g.id /\ g.n <= e.n
  BY <1>3 DEF Verdict, Covers
<1>5. PICK s \in shown : s.part = v.part /\ s.id = e.id /\ s.n >= e.n
  BY <1>2, <1>4 DEF ShownIn
<1>6. g.n \in Nat /\ e.n \in Nat /\ s.n \in Nat
  BY <1>2, <1>3, GroupsAreTyped DEF Views, Entries, Reports, BaselineInv, BaselineTyped, ReportsTyped
<1>7. s.part = runs'[i].part /\ s.id = g.id /\ s.n >= g.n
  BY <1>1, <1>4, <1>5, <1>6 DEF SameView
<1> QED BY <1>7

\* Only a publication records runs.
LEMMA OnlyScansRecord ==
    ASSUME [Next]_baselineVars, ~Publish
    PROVE  runs' = runs
<1>1. CASE \E c \in Commands : Command(c)
  BY <1>1 DEF Command, Begin, ReadNewest, ReadIds, ReadOrigin, Create, Update, Open, Fill, Crash,
     Untouched, database
<1> QED BY <1>1 DEF Next, Change, Start, Analyze, baselineVars, database

\* A group a scan hides because of the baseline was visible in an earlier
\* report with at least as many occurrences, whatever edits, rules, refreshes
\* and updates led to it.
THEOREM HiddenShown == Spec => HiddenWasShown
<1> DEFINE Shown == \A i \in DOMAIN runs' \ DOMAIN runs : \A g \in GroupsOf(runs'[i]) :
                       Verdict(runs'[i], g) = "baseline" =>
                          \E s \in shown : s.part = runs'[i].part /\ s.id = g.id /\ s.n >= g.n
<1>1. BaselineInv /\ [Next]_baselineVars => [Shown]_baselineVars
  <2> SUFFICES ASSUME BaselineInv, [Next]_baselineVars PROVE Shown
    OBVIOUS
  <2>1. CASE Publish
    BY <2>1, HidesWhatWasShown
  <2>2. CASE ~Publish
    BY <2>2, OnlyScansRecord
  <2> QED BY <2>1, <2>2
<1> QED BY <1>1, BaselineInvAlways, PTL DEF Spec, HiddenWasShown
=============================================================================
