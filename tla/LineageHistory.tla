--------------------------- MODULE LineageHistory ---------------------------
(***************************************************************************)
(* groups/lineage.rs: how the groups of a run continue those of the run     *)
(* before it.  Every scan records its groups unconnected and then, in the    *)
(* same transaction, connects new ones to the strongest predecessor.         *)
(*                                                                           *)
(* A group is its fingerprint, a number so that two compare; a lineage is    *)
(* named by the fingerprint it began with (group_lineage_id).                *)
(***************************************************************************)
EXTENDS Naturals, FiniteSets

CONSTANTS
    Fingerprints,   \* of groups
    Contents,       \* member contents
    NoGroup

ASSUME LineageAssumption ==
    /\ Fingerprints \subseteq Nat /\ IsFiniteSet(Contents) /\ NoGroup \notin Fingerprints

VARIABLE run    \* the newest completed run: what it records of each of its groups

States == {"new", "expanded"}
GroupRow == [contents : SUBSET Contents, state : States, lineage : Fingerprints,
             parent : Fingerprints \cup {NoGroup}]

\* What a scan finds: groups and their members' contents.
Found == UNION {[held -> SUBSET Contents \ {{}}] : held \in SUBSET Fingerprints}

LineageTypeOK ==
    /\ run = [g \in DOMAIN run |-> run[g]] /\ DOMAIN run \subseteq Fingerprints
    /\ \A g \in DOMAIN run : run[g] \in GroupRow

Unconnected(g, contents) ==
    [contents |-> contents, state |-> "new", lineage |-> g, parent |-> NoGroup]

Shared(contents, prior, p) == Cardinality(contents \cap prior[p].contents)

Eligible(g, contents, prior) ==
    {p \in DOMAIN prior \ {g} :
        /\ Shared(contents, prior, p) > 0
        /\ 2 * Shared(contents, prior, p) >= Cardinality(contents)}

\* The one predecessor that shares the most, the smallest among equals.
Strongest(g, contents, prior) ==
    LET eligible == Eligible(g, contents, prior) IN
    {p \in eligible : \A q \in eligible :
        \/ Shared(contents, prior, p) > Shared(contents, prior, q)
        \/ Shared(contents, prior, p) = Shared(contents, prior, q) /\ p <= q}

Adopted(contents, prior, p) ==
    [contents |-> contents, state |-> "expanded", lineage |-> prior[p].lineage, parent |-> p]

\* Mutant: the edge is named after the predecessor, not after its lineage.
ConnectedToGroup(g, contents, prior) ==
    LET strongest == Strongest(g, contents, prior) IN
    IF g \in DOMAIN prior \/ strongest = {} THEN Unconnected(g, contents)
    ELSE [Adopted(contents, prior, CHOOSE p \in strongest : TRUE)
            EXCEPT !.lineage = CHOOSE p \in strongest : TRUE]

\* matching_adoptions and apply_lineage_adoptions_tx on a group just recorded.
Connected(g, contents, prior) ==
    LET strongest == Strongest(g, contents, prior) IN
    IF g \in DOMAIN prior \/ strongest = {} THEN Unconnected(g, contents)
    ELSE Adopted(contents, prior, CHOOSE p \in strongest : TRUE)

\* A scan with a comparable run before it.
Record ==
    \E found \in Found :
        run' = [g \in DOMAIN found |-> Connected(g, found[g], run)]

\* A scan without one: the first, or the first of a new question.
RecordFirst ==
    \E found \in Found :
        run' = [g \in DOMAIN found |-> Unconnected(g, found[g])]

LineageInit == run = [g \in {} |-> Unconnected(g, {})]
LineageNext == Record \/ RecordFirst
LineageSpec == LineageInit /\ [][LineageNext]_run

(***************************************************************************)
(* Properties.                                                             *)
(***************************************************************************)

\* A lineage passes from run to run or begins: none that the run before did not
\* hold comes back under a group that is not the one it is named after.
LineagesAreHandedOn ==
    [][\A g \in DOMAIN run' :
        \/ run'[g].lineage \in {run[p].lineage : p \in DOMAIN run}
        \/ run'[g].lineage = g /\ run'[g].state = "new"]_run

\* A group that names a parent continues that parent's history: the lineage
\* the parent had in the run before, which may be older than the parent.
LineageIsTheParents ==
    [][\A g \in DOMAIN run' :
        run'[g].parent # NoGroup =>
            run'[g].parent \in DOMAIN run /\ run'[g].lineage = run[run'[g].parent].lineage]_run

\* A group is connected only when at least half of its content comes from its
\* parent, and a group the run before held is not reported as connected
\* (matching_adoptions).
EdgesAreEvidence ==
    [][\A g \in DOMAIN run' :
        run'[g].state = "expanded" =>
            /\ g \notin DOMAIN run
            /\ 2 * Cardinality(run'[g].contents \cap run[run'[g].parent].contents)
                 >= Cardinality(run'[g].contents)]_run

\* Lineages are honest: handed on or begun, the parent's own, and on evidence
\* (matching_adoptions).
LineageIsHonest == []LineageTypeOK /\ LineagesAreHandedOn /\ LineageIsTheParents /\ EdgesAreEvidence
=============================================================================
