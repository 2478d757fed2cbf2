---------------------------- MODULE BaselineFile ----------------------------
(***************************************************************************)
(* cli/baseline.rs, cli/baseline_command.rs, cli/scan/baseline.rs: the file   *)
(* of accepted findings, the commands that write it from recorded scans, and  *)
(* the scans that read it.                                                    *)
(*                                                                           *)
(* A tree gives each site a content; the contents of a family are similar, so *)
(* the sites of a family are one clone group, named by the contents it holds. *)
(* A partition (build variant) sees some of the sites.  The commands take no  *)
(* lease: they read the database one statement at a time and rewrite the file *)
(* in place.  Completed runs are never deleted, only given a later start by   *)
(* the scans that reuse them.                                                 *)
(***************************************************************************)
EXTENDS Naturals, Sequences, FiniteSets, Functions

CONSTANTS
    Commands,       \* processes that run baseline create or baseline update
    Sites, Families, Partitions,
    SitesOf,        \* the sites a partition's build variant sees
    Rules,          \* the sites the other suppression rules may hide
    Contracts,      \* detector versions and minimum token window
    StartTree,
    NoCode, Nothing,
    MaxInvocation,  \* scans in a behaviour
    MaxChange       \* edits of the tree, the rules or the detector's settings

Codes == {NoCode} \cup UNION Families

ASSUME BaselineAssumption ==
    /\ IsFiniteSet(Sites) /\ Contracts # {}
    /\ NoCode \notin UNION Families /\ SitesOf \in [Partitions -> SUBSET Sites]
    /\ Rules \subseteq SUBSET Sites /\ StartTree \in [Sites -> Codes]
    /\ MaxInvocation \in Nat /\ MaxChange \in Nat

VARIABLES
    tree, rule, contract, changes,
    runs,           \* completed runs, by row id
    scan,           \* the scan that holds the lease
    invocations,    \* scans started
    at,             \* what each baseline command has read
    file,           \* the baseline file
    shown,          \* groups some report listed as visible
    resolved,       \* entries an update dropped
    published       \* the runs of each published scan

world == <<tree, rule, contract, changes>>
database == <<runs, scan, invocations, shown, published>>
baselineVars == <<world, database, at, file, resolved>>

Modes == {"none", "suppress", "compare"}
Idle == [step |-> "idle"]

-----------------------------------------------------------------------------
(* What a scan of one partition finds, and how it judges it *)

GroupsIn(part, source, settings) ==
    LET Copies(family) == {s \in SitesOf[part] : source[s] \in family}
    IN {[id |-> <<settings, {source[s] : s \in Copies(f)}>>,
         n |-> Cardinality(Copies(f)), sites |-> Copies(f)] :
            f \in {f \in Families : Cardinality(Copies(f)) >= 2}}

GroupsOf(view) == GroupsIn(view.part, view.tree, view.contract)

\* baseline_rule
Covers(entries, group) == \E e \in entries : e.id = group.id /\ group.n <= e.n

\* evaluate_suppression: the baseline decides last.
Verdict(view, group) ==
    IF group.sites \subseteq view.rule THEN "rule"
    ELSE IF view.mode = "suppress" /\ Covers(view.entries, group) THEN "baseline" ELSE "visible"

\* Mutant: what a rule hides is frozen with the rest.
FreezesAll(verdict) == TRUE

CouldBeFrozen(verdict) == verdict # "rule"

\* BaselinePartition::delta, apply_baseline
State(view, group) ==
    LET entry == {e \in view.entries : e.id = group.id}
        freezable == CouldBeFrozen(Verdict(view, group))
    IN IF view.mode = "none" \/ (entry = {} /\ ~freezable) THEN Nothing
       ELSE IF entry = {} THEN "new"
       ELSE IF \E e \in entry : group.n > e.n THEN "expanded" ELSE "continuing"

\* What --fail-on-findings counts.
Findings(view) ==
    {g \in GroupsOf(view) : Verdict(view, g) = "visible" /\ State(view, g) # "continuing"}

\* BaselinePartition::from_run
\* Mutant: an entry counts contents where it should count occurrences.
ContentsCounted(view) ==
    {[id |-> g.id, n |-> Cardinality(g.id[2])] :
        g \in {g \in GroupsOf(view) : CouldBeFrozen(Verdict(view, g))}}

Frozen(view) ==
    {[id |-> g.id, n |-> g.n] : g \in {g \in GroupsOf(view) : CouldBeFrozen(Verdict(view, g))}}

-----------------------------------------------------------------------------
(* The file *)

Absent == [kind |-> "absent"]
Empty == [kind |-> "empty"]
Mixed == [kind |-> "mixed"]
Whole(parts) == [kind |-> "whole", parts |-> parts]

\* Baseline::load reads nothing but a whole document; compatibility compares
\* the settings the entries were made under.
Describes(part, settings) ==
    /\ file.kind = "whole"
    /\ part \in DOMAIN file.parts
    /\ file.parts[part].contract = settings

-----------------------------------------------------------------------------
(* The user *)

Change ==
    /\ changes < MaxChange
    /\ changes' = changes + 1
    /\ \/ /\ \E s \in Sites, c \in Codes :
               tree[s] # c /\ tree' = [tree EXCEPT ![s] = c]
          /\ UNCHANGED <<rule, contract>>
       \/ rule' \in Rules \ {rule} /\ UNCHANGED <<tree, contract>>
       \/ contract' \in Contracts \ {contract} /\ UNCHANGED <<tree, rule>>
    /\ UNCHANGED <<database, at, file, resolved>>

-----------------------------------------------------------------------------
(* A scan *)

Start ==
    /\ scan = Idle /\ invocations < MaxInvocation
    /\ invocations' = invocations + 1
    /\ \E parts \in SUBSET Partitions \ {{}}, mode \in Modes :
          scan' = [step |-> "analyze", todo |-> parts, mode |-> mode, new |-> {}, reused |-> {}]
    /\ UNCHANGED <<world, runs, shown, published, at, file, resolved>>

\* A scan's row for a partition, not started until it is published.
View(part, mode) ==
    [part |-> part, tree |-> Restrict(tree, SitesOf[part]), rule |-> rule, contract |-> contract,
     mode |-> mode, started |-> 0,
     entries |-> IF mode = "none" THEN {} ELSE file.parts[part].entries,
     asOf |-> IF mode = "none" THEN 0 ELSE file.parts[part].asOf]

\* SCAN_RUN_RECENCY
Later(i, j) == runs[i].started > runs[j].started \/ (runs[i].started = runs[j].started /\ i > j)
NewestOf(ids) == {i \in ids : \A j \in ids \ {i} : Later(i, j)}

\* latest_compatible_run: reuse_config_hash covers the settings and the rules,
\* the baseline's own among them.
Compatible(view) ==
    {i \in DOMAIN runs : /\ runs[i].part = view.part /\ runs[i].contract = view.contract
                         /\ runs[i].rule = view.rule
                         /\ (runs[i].mode = "suppress") = (view.mode = "suppress")}

\* reusable_run
Reusable(view) ==
    {i \in NewestOf(Compatible(view)) :
        /\ runs[i].mode = view.mode /\ runs[i].entries = view.entries
        /\ runs[i].tree = view.tree}

\* The file is loaded again for each partition.
Analyze ==
    /\ scan.step = "analyze" /\ scan.todo # {}
    /\ \E part \in scan.todo :
          IF scan.mode # "none" /\ ~Describes(part, contract)
          THEN scan' = Idle
          ELSE LET view == View(part, scan.mode)
               IN scan' = [scan EXCEPT !.todo = @ \ {part},
                            !.reused = @ \cup Reusable(view),
                            !.new = @ \cup (IF Reusable(view) = {} THEN {view} ELSE {})]
    /\ UNCHANGED <<world, runs, invocations, shown, published, at, file, resolved>>

Visible(view) == {[part |-> view.part, id |-> g.id, n |-> g.n] :
                    g \in {g \in GroupsOf(view) : Verdict(view, g) = "visible"}}

\* rfc3339_now: scans hold the lease in turn, a microsecond tells them apart.
Stamp(invocation) == invocation

\* finalize: one transaction.
Publish ==
    /\ scan.step = "analyze" /\ scan.todo = {}
    /\ LET now == Stamp(invocations)
           moved == [i \in DOMAIN runs |->
                        IF i \in scan.reused THEN [runs[i] EXCEPT !.started = now] ELSE runs[i]]
           Row(view) == [view EXCEPT !.started = now]
       IN \E order \in {q \in [1..Cardinality(scan.new) -> scan.new] : IsInjective(q)} :
             /\ runs' = moved \o [k \in DOMAIN order |-> Row(order[k])]
             /\ published' = published \cup {scan.reused \cup (DOMAIN runs' \ DOMAIN runs)}
             /\ shown' = shown \cup (UNION {Visible(runs'[i]) : i \in scan.reused})
                               \cup (UNION {Visible(view) : view \in scan.new})
    /\ scan' = Idle
    /\ UNCHANGED <<world, invocations, at, file, resolved>>

-----------------------------------------------------------------------------
(* baseline create and baseline update *)

Stop(c) == at' = [at EXCEPT ![c] = Idle]
\* What was read is done with: the text is ready.
Ready(c, parts, dropped) ==
    at' = [at EXCEPT ![c] = [step |-> "open", kind |-> at[c].kind, parts |-> parts, dropped |-> dropped]]
Untouched == UNCHANGED <<world, database, file, resolved>>

Begin(c) ==
    /\ at[c] = Idle
    /\ \E kind \in {"create", "create --force", "update"} :
          at' = [at EXCEPT ![c] = [step |-> "newest", kind |-> kind]]
    /\ Untouched

\* latest_completed_invocation: the newest run, the ids of its invocation, and
\* each origin are statements of their own.
ReadNewest(c) ==
    /\ at[c].step = "newest"
    /\ IF runs = <<>> THEN Stop(c)
       ELSE \E i \in NewestOf(DOMAIN runs) :
               at' = [at EXCEPT ![c] = [step |-> "ids", kind |-> at[c].kind, newest |-> i]]
    /\ Untouched

InvocationOf(run) == {i \in DOMAIN runs : runs[i].started = runs[run].started}

ReadIds(c) ==
    /\ at[c].step = "ids"
    /\ at' = [at EXCEPT ![c] = [step |-> "origins", kind |-> at[c].kind,
                               ids |-> InvocationOf(at[c].newest), origins |-> [i \in {} |-> 0]]]
    /\ Untouched

ReadOrigin(c) ==
    /\ at[c].step = "origins"
    /\ \E i \in at[c].ids \ DOMAIN at[c].origins :
          /\ \A j \in at[c].ids \ DOMAIN at[c].origins : i <= j
          /\ at' = [at EXCEPT ![c].origins =
                        [j \in DOMAIN @ \cup {i} |-> IF j = i THEN runs[i].started ELSE @[j]]]
    /\ Untouched

Read(c) == at[c].step = "origins" /\ DOMAIN at[c].origins = at[c].ids

\* Baseline::from_runs
OneInvocation(c) == Cardinality(Range(at[c].origins)) = 1

\* The run a partition's entries are taken from.
RunsOf(c, p) == {i \in at[c].ids : runs[i].part = p}
RunOf(c, p) == CHOOSE i \in RunsOf(c, p) : TRUE

Derived(from) == [contract |-> runs[from].contract, from |-> from, asOf |-> from,
                  entries |-> Frozen(runs[from])]

Create(c) ==
    /\ Read(c) /\ at[c].kind # "update"
    /\ IF OneInvocation(c)
       THEN Ready(c, [p \in {runs[i].part : i \in at[c].ids} |-> Derived(RunOf(c, p))], {})
       ELSE Stop(c)
    /\ Untouched

\* BaselinePartition::prune
Pruned(entries, view) == {e \in entries : \E g \in GroupsOf(view) : g.id = e.id}

\* A partition the scan did not run keeps what it has.
Updated(c, p) ==
    IF RunsOf(c, p) = {} THEN file.parts[p]
    ELSE [file.parts[p] EXCEPT !.entries = Pruned(@, runs[RunOf(c, p)]), !.asOf = RunOf(c, p)]

Dropped(c) ==
    UNION {{[part |-> p, id |-> e.id, run |-> Updated(c, p).asOf] :
               e \in file.parts[p].entries \ Updated(c, p).entries} : p \in DOMAIN file.parts}

Update(c) ==
    /\ Read(c) /\ at[c].kind = "update"
    /\ IF \A i \in at[c].ids : Describes(runs[i].part, runs[i].contract)
       THEN Ready(c, [p \in DOMAIN file.parts |-> Updated(c, p)], Dropped(c))
       ELSE Stop(c)
    /\ Untouched

\* write_output: a forced file is truncated, another must be new.
Open(c) ==
    /\ at[c].step = "open"
    /\ IF at[c].kind = "create" /\ file # Absent
       THEN Stop(c) /\ UNCHANGED file
       ELSE at' = [at EXCEPT ![c].step = "fill"] /\ file' = Empty
    /\ UNCHANGED <<world, database, resolved>>

\* Over what another command wrote since, a shorter text leaves its end.
Fill(c) ==
    /\ at[c].step = "fill"
    /\ file' \in {Whole(at[c].parts)} \cup (IF file = Empty THEN {} ELSE {Mixed})
    /\ resolved' = resolved \cup at[c].dropped
    /\ Stop(c)
    /\ UNCHANGED <<world, database>>

\* The process dies, or the disk is full, at any step.
Crash(c) == at[c] # Idle /\ Stop(c) /\ Untouched

Command(c) ==
    \/ Begin(c) \/ ReadNewest(c) \/ ReadIds(c) \/ ReadOrigin(c) \/ Create(c) \/ Update(c)
    \/ Open(c) \/ Fill(c) \/ Crash(c)

Init ==
    /\ tree = StartTree /\ rule \in Rules /\ changes = 0
    /\ contract = CHOOSE k \in Contracts : TRUE
    /\ runs = <<>> /\ scan = Idle /\ invocations = 0 /\ shown = {} /\ published = {}
    /\ at = [c \in Commands |-> Idle] /\ file = Absent /\ resolved = {}

Next == Change \/ Start \/ Analyze \/ Publish \/ \E c \in Commands : Command(c)

Spec == Init /\ [][Next]_baselineVars

-----------------------------------------------------------------------------
(* Properties *)

\* Types: runs are views with a start, the file is absent, whole or torn, its
\* entries stand for at least two occurrences.
TypeOK ==
    /\ tree \in [Sites -> Codes]
    /\ rule \in Rules /\ contract \in Contracts
    /\ changes \in 0..MaxChange /\ invocations \in 0..MaxInvocation
    /\ \A i \in DOMAIN runs : /\ runs[i].part \in Partitions /\ runs[i].mode \in Modes
                              /\ runs[i].started \in 1..invocations
    /\ scan.step \in {"idle", "analyze"}
    /\ file.kind \in {"absent", "empty", "mixed", "whole"}
    /\ file.kind = "whole" =>
         \A p \in DOMAIN file.parts :
            /\ file.parts[p].from \in DOMAIN runs /\ runs[file.parts[p].from].part = p
            /\ \A e \in file.parts[p].entries : e.n >= 2
    /\ \A c \in Commands :
         at[c].step \in {"idle", "newest", "ids", "origins", "open", "fill"}

\* What a baseline hides was once shown: whatever sequence of edits, rules,
\* refreshes and updates led to it, a group a scan hides because of the
\* baseline was visible in an earlier report with at least as many
\* occurrences.  baseline.rs, from_run: a baseline records what was visible.
HiddenWasShown ==
    [][\A i \in DOMAIN runs' \ DOMAIN runs : \A g \in GroupsOf(runs'[i]) :
          Verdict(runs'[i], g) = "baseline" =>
             \E s \in shown : s.part = runs'[i].part /\ s.id = g.id /\ s.n >= g.n]_baselineVars

\* Read against the tree, the rules and the settings a baseline was made from,
\* it leaves nothing visible but what an update dropped from it in between:
\* "what is left is what came after the baseline" (baselines.md).
WhatIsLeftCameAfter ==
    file.kind = "whole" =>
       \A p \in DOMAIN file.parts :
          LET made == [runs[file.parts[p].from] EXCEPT !.mode = "suppress",
                                                       !.entries = file.parts[p].entries]
          IN \A g \in GroupsOf(made) :
                Verdict(made, g) = "visible" => \E r \in resolved : r.part = p /\ r.id = g.id

\* The exit status of --fail-on-findings is the same whether the baseline
\* hides what it froze or only marks it.
ModesAgree ==
    \A p \in Partitions :
       Describes(p, contract) => Findings(View(p, "suppress")) = Findings(View(p, "compare"))

\* An update drops an entry only when the duplication is gone from the scan it
\* read: never because the scan ran under other settings or because a rule
\* hides the group now.
ResolvedIsGone ==
    \A r \in resolved : \A g \in GroupsOf(runs[r.run]) : g.id[2] # r.id[2]

\* A baseline never mixes scans, even when one that reuses some of the runs is
\* published while they are being read.
CreatedFromOneScan ==
    file.kind = "whole" =>
       \E s \in published : {file.parts[p].from : p \in DOMAIN file.parts} \subseteq s

\* Whatever commands, scans and edits came before, a baseline is honest about
\* what it was made from: it is of one scan, hides there what it froze and
\* nothing else, means the same in both modes, and has dropped only what is
\* gone (baseline.rs, baseline_command.rs).
BaselineIsHonest ==
    /\ TypeOK
    /\ WhatIsLeftCameAfter
    /\ ModesAgree
    /\ CreatedFromOneScan
    /\ ResolvedIsGone
=============================================================================
