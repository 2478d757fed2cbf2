----------------------------- MODULE CloneGrouping -----------------------------
(***************************************************************************)
(* The middle of a structural scan: posting lists propose pairs of units      *)
(* (candidate.rs), pairs no build can hold are dropped (pairs.rs), whole       *)
(* families of the rest are verified (analysis.rs), accepted pairs are grouped *)
(* around medoids (grouping.rs), what no group holds or describes is carried   *)
(* out as a pair of contents (pairs.rs), and a group that is a longer one at a  *)
(* smaller cut is folded into it.  Groups and pairs are findings, identified   *)
(* by content.                                                               *)
(*                                                                           *)
(* A unit is an index, its normalized content a number, its preprocessor arm   *)
(* one of a single conditional, its place the units it sits in.  How alike two *)
(* units are depends on their contents.  The same program is analysed once for every trial: with          *)
(* allowances of its own, with units discovered in one order or the other.     *)
(***************************************************************************)
EXTENDS Naturals, FiniteSets, Sequences, SequencesExt, FiniteSetsExt

CONSTANTS
    Units,             \* 1..n, in the order they were discovered
    Keys,              \* normalized contents: numbers, in key order
    Arms,              \* where a unit may sit: "none", "dead", or an arm
    Accept,            \* type3_min_composite
    Floor,             \* medoid_min_similarity, min_pairwise_similarity
    PostingCap, SamplingThreshold, SampleSize,
    Inputs             \* programs, and the allowances of their trials

Same == 10             \* the similarity of a unit and its copy
Size == Cardinality(Units)
Allowances == [budget : Nat, verified : Nat, limit : Nat, reversed : BOOLEAN]

\* Where the units of a program sit: the units around each one, the unit each is
\* a part of (a closure of the declaration around it), and the bytes it covers.
Nestings ==
    {n \in [around : [Units -> SUBSET Units], declaration : [Units -> Units], bytes : [Units -> Nat]] :
        \A u \in Units : LET d == n.declaration[u] IN d \in n.around[u] \cup {u} /\ n.declaration[d] = d}

\* A program is the content, the arm and the place of every unit, how alike every
\* two contents are, and posting lists: sets of contents, in key order.
ASSUME GroupingAssumption ==
    /\ IsFiniteSet(Units) /\ Units = 1..Size /\ Keys \subseteq Nat
    /\ Accept \in 1..Same /\ Floor \in 1..Accept /\ SampleSize \in Nat \ {0}
    /\ Inputs \subseteq
            [content : [Units -> Keys], arm : [Units -> Arms], nesting : Nestings,
             alike : [kSubset(2, Keys) -> 0..Same], lists : Seq(SUBSET Keys), trials : Seq(Allowances) \ {<<>>}]

VARIABLES
    input,     \* the program, as first discovered
    trial,     \* the trial under way
    phase,     \* what it is about to do
    pairs,     \* candidate pairs, then accepted ones
    pieces,    \* pieces of components the ceiling cut
    todo,      \* sets of units still to be refined
    part,      \* the one being refined: its medoid, what it keeps, what it ejects
    groups,    \* groups so far: a medoid and members
    reports    \* the findings of every trial so far

groupingVars == <<input, trial, phase, pairs, pieces, todo, part, groups, reports>>

Idle == [medoid |-> 0, kept |-> {}, rest |-> {}]
Allowed == input.trials[trial]
Limit == Max({Allowed.limit, 2})            \* piece_limit

Place(u) == IF Allowed.reversed THEN Size + 1 - u ELSE u
Key(u) == input.content[Place(u)]
Arm(u) == input.arm[Place(u)]
Around(u) == {v \in Units : Place(v) \in input.nesting.around[Place(u)]}
Declaration(u) == Place(input.nesting.declaration[Place(u)])
Alike(u, v) == IF Key(u) = Key(v) THEN Same ELSE input.alike[{Key(u), Key(v)}]
UnitPairs(S) == {p \in S \X S : p[1] < p[2]}
Ends(p) == {p[1], p[2]}

Phases == {"propose", "verify", "carve", "refine", "trim", "report", "done"}

GroupsTypeOK ==
    /\ phase \in Phases /\ trial \in DOMAIN input.trials /\ pairs \subseteq UnitPairs(Units)
    /\ \A p \in pieces \cup todo : p \subseteq Units /\ p # {}
    /\ \A p, q \in todo \cup {g.members : g \in groups} \cup ({part.kept, part.rest} \ {{}}) :
            p # q => p \cap q = {}
    /\ part.kept # {} <=> phase = "trim" /\ part.medoid \in part.kept
    /\ \A g \in groups : g.medoid \in g.members /\ Cardinality(g.members) >= 2

(***************************************************************************)
(* candidate::generate and lift_to_unit_pairs.                              *)
(***************************************************************************)

Postings(list) == {u \in Units : Key(u) \in list}

PairsWithin(list) == Cardinality(UnitPairs(Postings(list)))

Eligible(list) == Cardinality(Postings(list)) \in 2..PostingCap

\* Rarest first; SortSeq is stable, and lists come in key order.
ByLength ==
    LET lists == input.lists
        key(i) == Cardinality(Postings(lists[i])) * (Len(lists) + 1) + i
        order == SetToSortSeq({i \in DOMAIN lists : Eligible(lists[i])}, LAMBDA i, j : key(i) < key(j))
    IN [n \in DOMAIN order |-> lists[order[n]]]

\* PairBudget: lists are taken whole, up to the first that does not fit.
Taken ==
    FoldLeft(LAMBDA taken, list :
        IF taken.open /\ taken.left >= PairsWithin(list)
        THEN [taken EXCEPT !.lists = @ \cup {list}, !.left = @ - PairsWithin(list)]
        ELSE [taken EXCEPT !.open = FALSE],
        [lists |-> {}, left |-> Allowed.budget, open |-> TRUE], ByLength).lists

\* ArmPath::can_coexist.
Coexist(u, v) == "dead" \notin {Arm(u), Arm(v)} /\ ("none" \in {Arm(u), Arm(v)} \/ Arm(u) = Arm(v))

\* One stretch of code, seen at two levels.
Encloses(u, v) == u \in Around(v) \/ v \in Around(u)

Propose ==
    /\ phase = "propose"
    /\ pairs' = {p \in UNION {UnitPairs(Postings(list)) : list \in Taken} :
                    ~Encloses(p[1], p[2]) /\ Coexist(p[1], p[2])}
    /\ phase' = "verify"
    /\ UNCHANGED <<input, trial, pieces, todo, part, groups, reports>>

(***************************************************************************)
(* verify_pairs and connected_components.                                   *)
(***************************************************************************)

\* The units that pairs connect with u: the least set they do not lead out of.
Component(u) ==
    LET closed(S) == u \in S /\ \A p \in pairs : p[1] \in S <=> p[2] \in S
    IN {v \in Units : \A S \in SUBSET Units : closed(S) => v \in S}

Components == {Component(p[1]) : p \in pairs}

Within(component) == {p \in pairs : p[1] \in component}

\* verification_components: whole families, in the order of their first unit.
Selected ==
    FoldLeft(LAMBDA selected, component :
        IF Cardinality(selected \cup Within(component)) <= Allowed.verified
        THEN selected \cup Within(component) ELSE selected,
        {}, SetToSortSeq(Components, LAMBDA c, d : Min(c) < Min(d)))

Verify ==
    /\ phase = "verify"
    /\ pairs' = {p \in pairs : p \in Selected /\ Alike(p[1], p[2]) >= Accept}
    /\ phase' = "carve"
    /\ UNCHANGED <<input, trial, pieces, todo, part, groups, reports>>

Similarity(u, v) ==
    IF u = v THEN Same ELSE IF {<<u, v>>, <<v, u>>} \cap pairs # {} THEN Alike(u, v) ELSE 0

(***************************************************************************)
(* grouping::group.                                                         *)
(***************************************************************************)

KeysOf(members) == {Key(u) : u \in members}

\* Classes of one key are laid out in key order, and never separated; the
\* piece a class is in starts where the last one did, or with the class
\* itself when both would exceed the ceiling.
Starts(component) ==
    LET class(u) == Cardinality(KeysOf({v \in component : Key(v) <= Key(u)}))
        start[n \in 1..Size] ==
            IF n = 1 THEN 1
            ELSE IF Cardinality({u \in component : class(u) \in start[n - 1]..n}) > Limit
                 THEN n ELSE start[n - 1]
    IN [u \in component |-> start[class(u)]]

\* refinable_pieces.
Pieces(component) ==
    IF Cardinality(component) <= Limit THEN {component}
    ELSE LET start == Starts(component)
         IN {{v \in component : start[v] = start[u]} : u \in component}

Carve ==
    /\ phase = "carve"
    /\ todo' = UNION {Pieces(c) : c \in Components}
    /\ pieces' = UNION {Pieces(c) : c \in {c \in Components : Cardinality(c) > Limit}}
    /\ phase' = "refine"
    /\ UNCHANGED <<input, trial, pairs, part, groups, reports>>

Before(u, v) == Key(u) < Key(v) \/ (Key(u) = Key(v) /\ u < v)

\* Of n candidates in key order, counted from 0, those that are looked at.
Sampled(n) ==
    IF n <= SampleSize THEN 0..(n - 1)
    ELSE IF SampleSize = 1 THEN {(n - 1) \div 2}
    ELSE {(i * (n - 1)) \div (SampleSize - 1) : i \in 0..(SampleSize - 1)}

Position(u, set) == Cardinality({v \in set : Before(v, u)})

\* The candidates of select_medoid: beyond the threshold, a sample spread
\* over the keys.
Candidates(set) ==
    IF Cardinality(set) <= SamplingThreshold THEN set
    ELSE LET first == {u \in set : \A v \in set : Key(u) = Key(v) => u <= v}
         IN {u \in first : Position(u, first) \in Sampled(Cardinality(first))}

\* The sum of what u has in common with every other.
Total(u, set) == Cardinality({s \in (set \ {u}) \X (1..Same) : s[2] <= Similarity(u, s[1])})

\* The greatest total; of equals, the smallest key.
Medoid(set) ==
    CHOOSE u \in Candidates(set) : \A v \in Candidates(set) \ {u} :
        Total(u, set) > Total(v, set) \/ (Total(u, set) = Total(v, set) /\ Before(u, v))

\* refine_component: what is too far from the medoid is ejected.
Refine ==
    /\ phase = "refine"
    /\ \E set \in todo :
        /\ \A other \in todo : Min(set) <= Min(other)
        /\ todo' = todo \ {set}
        /\ IF Cardinality(set) < 2 THEN UNCHANGED <<part, phase>>
           ELSE LET medoid == Medoid(set)
                    kept == {u \in set : Similarity(u, medoid) >= Floor}
                IN /\ part' = [medoid |-> medoid, kept |-> kept, rest |-> set \ kept]
                   /\ phase' = "trim"
    /\ UNCHANGED <<input, trial, pairs, pieces, groups, reports>>

\* The order complete_linkage_trim looks at pairs in: the least alike first,
\* then by keys, then in the order they were listed in.
Worse(p, q) ==
    LET s == Similarity(p[1], p[2])
        t == Similarity(q[1], q[2])
        tied == s = t /\ Key(p[1]) = Key(q[1])
    IN \/ s < t
       \/ s = t /\ Key(p[1]) < Key(q[1])
       \/ tied /\ Key(p[2]) < Key(q[2])
       \/ tied /\ Key(p[2]) = Key(q[2]) /\ (p[1] < q[1] \/ (p[1] = q[1] /\ p[2] < q[2]))

WorstPair ==
    LET listed == {p \in part.kept \X part.kept : Before(p[1], p[2])}
    IN CHOOSE p \in listed : \A q \in listed \ {p} : Worse(p, q)

\* Mutant: only what is too far from the medoid is too far.
NeverLoose == FALSE

Loose == Cardinality(part.kept) >= 2 /\ Similarity(WorstPair[1], WorstPair[2]) < Floor

Victim(left, right) ==
    IF left = part.medoid THEN right
    ELSE IF right = part.medoid THEN left
    ELSE IF \/ Total(left, part.kept) < Total(right, part.kept)
            \/ Total(left, part.kept) = Total(right, part.kept) /\ Key(left) >= Key(right)
         THEN left ELSE right

\* One turn of complete_linkage_trim.
Trim ==
    /\ phase = "trim" /\ Loose
    /\ LET victim == Victim(WorstPair[1], WorstPair[2])
       IN part' = [part EXCEPT !.kept = @ \ {victim}, !.rest = @ \cup {victim}]
    /\ UNCHANGED <<input, trial, phase, pairs, pieces, todo, groups, reports>>

\* build_group; what was ejected is refined among itself.
Build ==
    /\ phase = "trim" /\ ~Loose
    /\ groups' = groups \cup IF Cardinality(part.kept) < 2 THEN {} ELSE {[medoid |-> part.medoid, members |-> part.kept]}
    /\ todo' = todo \cup ({part.rest} \ {{}})
    /\ part' = Idle /\ phase' = "refine"
    /\ UNCHANGED <<input, trial, pairs, pieces, reports>>

(***************************************************************************)
(* What is reported.                                                        *)
(***************************************************************************)

Severed(p) == \E c, d \in pieces : p[1] \in c /\ p[2] \in d /\ c # d

\* unrepresented_pairs: accepted, and in no group together.
Unrepresented(p) ==
    ~Severed(p) /\ ~\E g \in groups : p[1] \in g.members /\ p[2] \in g.members

\* The class of a pair, as far as identity goes: copies, or near copies.
Class(keys) == IF Cardinality(keys) = 1 THEN "copies" ELSE "near"

\* Mutant: a finding is identified by its canonical content.
CanonicalOnly(canonical, keys) == <<Class(keys), canonical>>

\* structural_clone_group_fingerprint: the class, the canonical content and
\* the set of contents.
Identity(canonical, keys) == <<Class(keys), canonical, keys>>

\* already_described: a unit that is like one end has the other end around it,
\* or inside, and a group says so of the two.
Describes(g, p) ==
    \E side \in Ends(p), other \in Ends(p) :
        side # other /\ side \in g.members /\ \E peer \in g.members \ {other} : Encloses(peer, other)

Described(p) == \E g \in groups : Describes(g, p)

Bytes(g) == SumFunctionOnSet([u \in Units |-> input.nesting.bytes[Place(u)]], g.members)

\* Group g is group h at a smaller cut: its members are parts of as many members
\* of h, fewer bytes in all, and it makes no stricter claim.
AccountsFor(h, g) ==
    /\ ~(Class(KeysOf(h.members)) = "near" /\ Class(KeysOf(g.members)) = "copies")
    /\ Bytes(h) > Bytes(g)
    /\ \A u \in g.members : Declaration(u) \in h.members /\ Declaration(u) \in Around(u) \cup {u}
    /\ \A u, v \in g.members : Declaration(u) = Declaration(v) => u = v

\* contained_groups, the widest cover first; what accounts for a group holds
\* declarations, no other group accounts for it, and the order is no matter.
Folded == {g \in groups : \E h \in groups \ {g} : AccountsFor(h, g)}

GroupFindings ==
    {[id |-> Identity(Key(g.medoid), KeysOf(g.members)), members |-> g.members, split |-> FALSE] :
        g \in groups \ Folded}

\* One finding for all carried-out pairs of the same two contents, if one of them
\* is not described; it is made before groups are folded.
PairFindings ==
    LET carried == {p \in pairs : Unrepresented(p)}
    IN {[id |-> Identity(Min(keys), keys), split |-> TRUE,
         members |-> UNION {Ends(p) : p \in {p \in carried : KeysOf(Ends(p)) = keys}}] :
            keys \in {KeysOf(Ends(p)) : p \in {p \in carried : ~Described(p)}}}

Findings == GroupFindings \cup PairFindings

Settle ==
    /\ phase = "refine" /\ todo = {}
    /\ reports' = [reports EXCEPT ![trial] = Findings]
    /\ phase' = "report"
    /\ UNCHANGED <<input, trial, pairs, pieces, todo, part, groups>>

(***************************************************************************)
(* Trials.                                                                  *)
(***************************************************************************)

GroupingInit ==
    /\ input \in Inputs /\ trial = 1 /\ phase = "propose" /\ pairs = {} /\ pieces = {} /\ todo = {}
    /\ part = Idle /\ groups = {} /\ reports = [t \in DOMAIN input.trials |-> {}]

NextTrial ==
    /\ phase = "report"
    /\ IF trial = Len(input.trials) THEN phase' = "done" /\ UNCHANGED <<trial, pairs, pieces, groups>>
       ELSE trial' = trial + 1 /\ phase' = "propose" /\ pairs' = {} /\ pieces' = {} /\ groups' = {}
    /\ UNCHANGED <<input, todo, part, reports>>

GroupingNext == Propose \/ Verify \/ Carve \/ Refine \/ Trim \/ Build \/ Settle \/ NextTrial

GroupingSpec == GroupingInit /\ [][GroupingNext]_groupingVars

(***************************************************************************)
(* Properties.                                                             *)
(***************************************************************************)

Reported == phase = "report"

\* Every two members of a group were compared and found alike, whoever the
\* medoid was (complete_linkage_trim).
GroupsAreCohesive ==
    \A g \in groups : \A u, v \in g.members : Similarity(u, v) >= Floor

\* No accepted pair is left out of groups on both sides, when no ceiling is
\* the reason (refine_component regroups what it ejects).
LeftoversAreApart ==
    Reported => \A p \in pairs : Severed(p) \/ \E g \in groups : Ends(p) \cap g.members # {}

\* A group is reported, or one that holds its declarations.
Stands(g) ==
    \E f \in reports[trial] :
        ~f.split /\ (g.members \subseteq f.members \/ {Declaration(u) : u \in g.members} \subseteq f.members)

\* Every accepted pair the ceiling did not cut is reported: as a carried-out pair,
\* or by a group that holds it or that describes it, at its own or at a longer cut
\* (unrepresented_pairs carries out before groups are folded, so what it leaves
\* to a group could go with the group).
NothingVerifiedIsLost ==
    Reported => \A p \in pairs :
        \/ Severed(p)
        \/ \E f \in reports[trial] : f.split /\ Ends(p) \subseteq f.members
        \/ \E g \in groups : (Ends(p) \subseteq g.members \/ Describes(g, p)) /\ Stands(g)

\* Copies are reported by one group, whatever the budgets, the ceiling and the
\* near copies around them are.
CopiesStayTogether ==
    Reported => \A g \in groups : \A u \in g.members, v \in Units :
        Key(u) = Key(v) /\ Coexist(u, v) => v \in g.members

\* Two findings of a report never share an identity: normalize_identities
\* fails the scan if they do.
FindingsHaveTheirOwnIds ==
    Reported => \A f, h \in reports[trial] : f.id = h.id => f = h

Known(findings) == {f.id : f \in findings}

\* The order units are discovered in changes no identity.
UnitOrderDoesNotMatter ==
    phase = "done" => \A i, j \in DOMAIN input.trials :
        [input.trials[i] EXCEPT !.reversed = TRUE] = [input.trials[j] EXCEPT !.reversed = TRUE]
            => Known(reports[i]) = Known(reports[j])

\* Groups stand for what was verified: every two members are alike, no accepted
\* pair is lost, and what no group holds or describes is carried out in pairs
\* (grouping.rs, pairs.rs).
GroupsAreTrue ==
    /\ GroupsTypeOK
    /\ GroupsAreCohesive
    /\ NothingVerifiedIsLost
    /\ LeftoversAreApart
=============================================================================
