---------------------------- MODULE DominatorTree ----------------------------
(***************************************************************************)
(* artifact/src/metrics/callgraph.rs: the immediate dominators of a call     *)
(* graph below a virtual root (dominator_tree, depth_first_tree,             *)
(* lengauer_tarjan), and what is read off the tree: the bytes each symbol    *)
(* retains and the toolchain code each function holds.                       *)
(*                                                                           *)
(* Symbols are 1..Symbols in fingerprint order, vertex 0 is the virtual root. *)
(* The graph is one that carries sizes (CallGraph says when), so every call  *)
(* and every root is a symbol.  Positions are places in the depth-first       *)
(* order; the arrays of the code are functions on positions.                 *)
(***************************************************************************)
EXTENDS Integers, FiniteSets, FiniteSetsExt

CONSTANTS
    Symbols,        \* how many symbols there are
    None,           \* no position
    SelfCalls,      \* bound: functions may call themselves
    Kinds           \* bound: what names may say of a function

TreeAssumption ==
    /\ Symbols \in Nat \ {0} /\ None \notin 0..Symbols /\ SelfCalls \in BOOLEAN
    /\ Kinds \subseteq {"toolchain", "global", "owned"}

Symbol == 1..Symbols
Vertex == 0..Symbols
Bytes == [s \in Symbol |-> 2 ^ (s - 1)]     \* bound: sums of sizes tell symbols apart

VARIABLES
    calls,      \* calls[v]: the successors of vertex v; calls[0] are the roots
    kind,       \* kind[s]: toolchain by name, unqualified, or another owner's
    stage,      \* which loop runs
    vertices,   \* vertices[p]: the vertex at position p
    parents,    \* parents[p]: its parent in the depth-first tree, a position
    node,       \* the position whose turn it is
    semi,       \* semi[p]: the semidominator so far
    forest,     \* the union-find forest: ancestors and labels
    buckets,    \* buckets[p]: positions whose semidominator is p
    immediate   \* immediate[p]: the immediate dominator, in the end

graphVars == <<calls, kind>>
treeVars == <<vertices, parents>>
vars == <<graphVars, treeVars, stage, node, semi, forest, buckets, immediate>>

Positions == DOMAIN vertices
Last == Cardinality(Positions) - 1
Found == {vertices[p] : p \in Positions}
PositionOf(v) == CHOOSE p \in Positions : vertices[p] = v

TypeOK ==
    /\ calls \in [Vertex -> SUBSET Symbol] /\ kind \in [Symbol -> Kinds]
    /\ stage \in {"walk", "link", "settle", "done"}
    /\ Positions = 0..Last /\ vertices[0] = 0 /\ Cardinality(Found) = Last + 1
    /\ parents[0] = None /\ \A p \in 1..Last : parents[p] \in 0..(p - 1)
    /\ stage # "walk" =>
        /\ \A p \in Positions : semi[p] \in 0..p /\ forest.labels[p] \in Positions
        /\ \A p \in Positions : immediate[p] \in (0..p) \cup {None}
        /\ UNION {buckets[p] : p \in Positions} \subseteq Positions

(***************************************************************************)
(* The depth-first tree.                                                   *)
(***************************************************************************)

Unseen(p) == calls[vertices[p]] \ Found

\* The positions on the stack of the walk: the last one found and its parents.
Chain == LET up[p \in Positions] == IF p = 0 THEN {0} ELSE {p} \cup up[parents[p]] IN up[Last]

\* depth_first_tree, one vertex found: edges are taken in order, and one that
\* leads nowhere new is passed over.
Discover ==
    /\ stage = "walk"
    /\ \E p \in Chain :
        /\ Unseen(p) # {} /\ \A q \in Chain : q > p => Unseen(q) = {}
        /\ vertices' = [q \in 0..(Last + 1) |-> IF q > Last THEN Min(Unseen(p)) ELSE vertices[q]]
        /\ parents' = [q \in 0..(Last + 1) |-> IF q > Last THEN p ELSE parents[q]]
    /\ UNCHANGED <<graphVars, stage, node, semi, forest, buckets, immediate>>

\* dominator_tree: the walk is over and lengauer_tarjan starts at the last vertex.
StartLinking ==
    /\ stage = "walk" /\ \A p \in Chain : Unseen(p) = {}
    /\ stage' = "link" /\ node' = Last
    /\ semi' = [p \in Positions |-> p]
    /\ forest' = [ancestors |-> [p \in Positions |-> None], labels |-> [p \in Positions |-> p]]
    /\ buckets' = [p \in Positions |-> {}]
    /\ immediate' = [p \in Positions |-> None]
    /\ UNCHANGED <<graphVars, treeVars>>

(***************************************************************************)
(* lengauer_tarjan.                                                        *)
(***************************************************************************)

Predecessors(p) == {PositionOf(v) : v \in {u \in Found : vertices[p] \in calls[u]}}

\* The way from p up to the top of its tree, the top left out.
Path(f, p) ==
    LET path[q \in Positions] ==
            IF f.ancestors[q] = None THEN {} ELSE {q} \cup path[f.ancestors[q]]
    IN path[p]

\* lt_compress, from the top down: every position on the path is hung below the
\* top of its tree, with the label of the least semidominator above it.
Compress(f, p, s) ==
    MapThenFoldSet(LAMBDA q, g :
            LET above == g.ancestors[q]
            IN IF g.ancestors[above] = None THEN g
               ELSE [g EXCEPT !.ancestors[q] = g.ancestors[above],
                              !.labels[q] = IF s[g.labels[above]] < s[@] THEN g.labels[above] ELSE @],
        f, LAMBDA q : q, Max, Path(f, p))

\* lt_eval, and the forest it leaves.
Eval(f, p, s) ==
    IF f.ancestors[p] = None THEN [forest |-> f, label |-> p]
    ELSE LET grown == Compress(f, p, s) IN [forest |-> grown, label |-> grown.labels[p]]

\* The first inner loop: the semidominator of n from its predecessors.
Semidominator(n) ==
    FoldSet(LAMBDA p, before :
            LET e == Eval(before.forest, p, before.semi)
            IN [forest |-> e.forest, semi |-> [before.semi EXCEPT ![n] = Min({@, before.semi[e.label]})]],
        [forest |-> forest, semi |-> semi], Predecessors(n))

\* The second: what waits in the bucket of n's parent is given its dominator,
\* or one that has the same dominator.
Emptied(f, s, above, members) ==
    FoldSet(LAMBDA m, before :
            LET e == Eval(before.forest, m, s)
            IN [forest |-> e.forest,
                immediate |-> [before.immediate EXCEPT ![m] = IF s[e.label] < s[m] THEN e.label ELSE above]],
        [forest |-> f, immediate |-> immediate], members)

\* One turn of the main loop.
Link ==
    /\ stage = "link" /\ node > 0
    /\ LET above == parents[node]
           found == Semidominator(node)
           filled == [buckets EXCEPT ![found.semi[node]] = @ \cup {node}]
           linked == [found.forest EXCEPT !.ancestors[node] = above]
           emptied == Emptied(linked, found.semi, above, filled[above])
       IN /\ semi' = found.semi
          /\ buckets' = [filled EXCEPT ![above] = {}]
          /\ forest' = emptied.forest /\ immediate' = emptied.immediate
    /\ node' = node - 1
    /\ UNCHANGED <<graphVars, treeVars, stage>>

StartSettling ==
    /\ stage = "link" /\ node = 0
    /\ stage' = "settle" /\ node' = 1
    /\ UNCHANGED <<graphVars, treeVars, semi, forest, buckets, immediate>>

\* The last loop, in depth-first order.
Settle ==
    /\ stage = "settle"
    /\ IF node > Last
       THEN stage' = "done" /\ UNCHANGED <<node, immediate>>
       ELSE /\ immediate' = [immediate EXCEPT ![node] =
                                IF @ # None /\ @ # semi[node] THEN immediate[@] ELSE @]
            /\ node' = node + 1 /\ stage' = stage
    /\ UNCHANGED <<graphVars, treeVars, semi, forest, buckets>>

Init ==
    /\ calls \in {g \in [Vertex -> SUBSET Symbol] :
            g[0] # {} /\ (SelfCalls \/ \A s \in Symbol : s \notin g[s])}
    /\ kind \in [Symbol -> Kinds]
    /\ stage = "walk" /\ vertices = [p \in {0} |-> 0] /\ parents = [p \in {0} |-> None]
    /\ node = 0 /\ semi = <<>> /\ forest = <<>> /\ buckets = <<>> /\ immediate = <<>>

Next == Discover \/ StartLinking \/ Link \/ StartSettling \/ Settle

Spec == Init /\ [][Next]_vars

(***************************************************************************)
(* What is read off the tree.                                              *)
(***************************************************************************)

\* retained_sizes: from the last position on, each adds what it retains to its
\* immediate dominator's.
Retained(p) ==
    LET retained[q \in Positions] ==
            (IF q = 0 THEN 0 ELSE Bytes[vertices[q]])
                + MapThenSumSet(LAMBDA r : retained[r], {r \in Positions : r > q /\ immediate[r] = q})
    IN retained[p]

Parent(p) == IF immediate[p] = None THEN 0 ELSE immediate[p]

\* Mutant: toolchain code below toolchain code is held by what it is reached from.
HeldByParent ==
    LET held[p \in Positions] ==
            LET above == held[Parent(p)]
                named == kind[vertices[p]] = "toolchain"
                absorbed == ~named /\ above.toolchain /\ kind[vertices[p]] = "global"
            IN IF p = 0 THEN [toolchain |-> FALSE, holder |-> None, head |-> 0]
               ELSE IF ~named /\ ~absorbed THEN [toolchain |-> FALSE, holder |-> p, head |-> 0]
               ELSE [toolchain |-> TRUE,
                     holder |-> IF Parent(p) = 0 THEN None ELSE Parent(p),
                     head |-> IF above.toolchain THEN above.head ELSE p]
    IN held

\* toolchain_holdings, in depth-first order: named toolchain code, and
\* unqualified code whose immediate dominator is toolchain code, is held by what
\* holds its dominator and entered through the same head.
Held ==
    LET held[p \in Positions] ==
            LET above == held[Parent(p)]
                named == kind[vertices[p]] = "toolchain"
                absorbed == ~named /\ above.toolchain /\ kind[vertices[p]] = "global"
            IN IF p = 0 THEN [toolchain |-> FALSE, holder |-> None, head |-> 0]
               ELSE IF ~named /\ ~absorbed THEN [toolchain |-> FALSE, holder |-> p, head |-> 0]
               ELSE [toolchain |-> TRUE, holder |-> above.holder,
                     head |-> IF above.toolchain THEN above.head ELSE p]
    IN held

\* shared_toolchain: who calls a symbol from outside it.
Callers(v) == {u \in Found \ {0, v} : v \in calls[u]}

(***************************************************************************)
(* Properties.                                                             *)
(***************************************************************************)

\* What can still be reached when vertex v is taken away.
ReachableWithout(v) ==
    LET reached[n \in 0..(Symbols + 1)] ==
            IF n = 0 THEN {0} \ {v}
            ELSE LET before == reached[n - 1] IN before \cup (UNION {calls[u] : u \in before} \ {v})
    IN reached[Symbols + 1]

Dominators(v) == {d \in Found \ {v} : v \notin ReachableWithout(d)}

\* The walk finds what the roots reach, and the immediate dominator of a symbol
\* is the nearest of all those whose removal cuts it off (lengauer_tarjan).
TreeIsDominance ==
    stage = "done" =>
        /\ Found = ReachableWithout(None)
        /\ LET dominators == [v \in Found |-> Dominators(v)]
           IN \A p \in 1..Last :
                LET near == vertices[immediate[p]]
                IN dominators[vertices[p]] = {near} \cup dominators[near]

\* A symbol retains exactly the bytes that its removal makes unreachable, each
\* once, whatever other ways there are between them (retained_sizes).
RetainedIsWhatDies ==
    stage = "done" => \A p \in 1..Last :
        Retained(p) = MapThenSumSet(LAMBDA s : Bytes[s], Found \ (ReachableWithout(vertices[p]) \cup {0}))

\* Toolchain code is held by the nearest other code that it dies with, and is
\* shared when it outlives every function that is not toolchain code.
HoldersHold ==
    stage = "done" => LET held == Held
                          others == {vertices[q] : q \in {r \in 1..Last : ~held[r].toolchain}} IN
        \A p \in {q \in 1..Last : held[q].toolchain} :
            LET fatal == {v \in others : vertices[p] \notin ReachableWithout(v)}
            IN IF held[p].holder = None THEN fatal = {}
               ELSE LET holder == vertices[held[p].holder]
                    IN fatal = {holder} \cup (Dominators(holder) \cap others)

\* The entry of shared toolchain code is a root or is called by two functions at
\* least (shared_toolchain), so the report never names one caller to blame.
SharedHeadsAreShared ==
    stage = "done" => LET held == Held IN
        \A p \in {q \in 1..Last : held[q].toolchain /\ held[q].holder = None} :
            LET head == vertices[held[p].head]
            IN head \in calls[0] \/ Cardinality(Callers(head)) >= 2

\* The tree is the graph's dominators, what is read off it is what would die
\* with a symbol, and toolchain code is held by whom every path to it passes
\* (dominator_tree, retained_sizes, toolchain_holders).
TreeIsExact ==
    /\ TypeOK
    /\ TreeIsDominance
    /\ RetainedIsWhatDies
    /\ HoldersHold
    /\ SharedHeadsAreShared
=============================================================================
