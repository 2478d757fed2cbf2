------------------------- MODULE MCArtifactAnalysis -------------------------
(***************************************************************************)
(* The derivations from one artifact's symbols and calls, each over small    *)
(* artifacts of every shape: what may be said of an incomplete graph, its     *)
(* dominators with and without toolchain code, the dependencies roots share,  *)
(* and the identities of symbols in two builds.  A behaviour is of one of     *)
(* them, its subject.                                                        *)
(***************************************************************************)
EXTENDS SharedDependencies, CallGraph, SymbolIdentity, FiniteSetsExt, TLC

CONSTANTS
    s1, s2, s3, f, g, h, a, b,
    MaxTraits   \* bound: calls, and symbols rooted, sized or resolved unlike the rest

VARIABLES
    subject,
    \* DominatorTree
    tCalls, kind, stage, vertices, parents, node, semi, forest, buckets, immediate

ThreeSymbols == {s1, s2, s3}
ThreeFunctions == {f, g, h}
TwoContents == {a, b}

Plain == INSTANCE DominatorTree WITH
    calls <- tCalls, Symbols <- 4, SelfCalls <- FALSE, Kinds <- {"owned"}
Toolchain == INSTANCE DominatorTree WITH
    calls <- tCalls, Symbols <- 3, SelfCalls <- FALSE,
    Kinds <- {"toolchain", "global", "owned"}

ASSUME ArtifactAnalysisAssumption == Plain!TreeAssumption /\ Toolchain!TreeAssumption

\* SymbolIdentity: programs of four symbols, up to renaming, in two codes.
FourMembers == 1 .. 4
TwoNewcomers == 5 .. 6
ThreeCodes == 1 .. 3

PlainTraits(symbols) == [x \in symbols |-> "plain"]
SmallPrograms ==
    {p \in [place : {[x \in Members |-> x]},
            code : {c \in [Members -> 1 .. 2] : \A x, y \in Members : x < y => c[x] <= c[y]},
            trait : {PlainTraits(Members)} \cup
                {[PlainTraits(Members) EXCEPT ![x] = t] : x \in Members, t \in Traits},
            calls : UNION {kSubset(n, (Members \X Members)) : n \in 0 .. MaxTraits}] :
        /\ \A e \in p.calls : e[1] # e[2]
        /\ Cardinality(p.calls) + Cardinality({x \in Members : p.trait[x] # "plain"}) <= MaxTraits}

\* Two neighbours laid out the other way round; a group of copies laid out first.
LaidOut(p) == {[p EXCEPT !.place[x] = x + 1, !.place[x + 1] = x] : x \in 1 .. 3}
JoinedBy(p) ==
    {[place |-> [x \in 1 .. 6 |-> IF x \in Newcomers THEN x - 4 ELSE x + 2],
      code |-> [x \in 1 .. 6 |-> IF x \in Newcomers THEN 3 ELSE p.code[x]],
      trait |-> [x \in 1 .. 6 |-> IF x \in Newcomers THEN "plain" ELSE p.trait[x]],
      calls |-> p.calls \cup c] : c \in SUBSET {<<5, 6>>}}
SmallRebuilds ==
    UNION {{<<p, q>> : q \in LaidOut(p) \cup JoinedBy(p)} : p \in SmallPrograms}

treeVars ==
    <<tCalls, kind, stage, vertices, parents, node, semi, forest, buckets, immediate>>

Trees == {"plain", "toolchain"}

\* The other subjects are at one first state.
NoWalk == successors = [s \in Symbols |-> {}] /\ roots = {} /\ WalkInit
NoGraph ==
    /\ format = "wasm" /\ capable = FALSE /\ collected = Functions /\ exported = {}
    /\ references = {} /\ content = [x \in Functions |-> a] /\ GraphInit
NoTree ==
    /\ tCalls = [v \in 0 .. 3 |-> {1} \ {v}] /\ kind = [s \in 1 .. 3 |-> "owned"]
    /\ Toolchain!Init

\* Bounds: symbols that call others, functions up to renaming, and one entry
\* into a graph of four symbols.
Bounded ==
    /\ \A x \in Symbols : x \notin successors[x]
    /\ Functions \ collected \subseteq {h} /\ content[f] = a
    /\ subject = "plain" => \E x \in 1 .. 4 : tCalls[0] = {x}

AnalysisInit ==
    /\ subject \in {"shared", "graph", "identity"} \cup Trees
    /\ IF subject = "shared" THEN WalkInit ELSE NoWalk
    /\ IF subject = "graph" THEN GraphInit ELSE NoGraph
    /\ subject = "plain" => Plain!Init
    /\ subject = "toolchain" => Toolchain!Init
    /\ subject \notin Trees => NoTree
    /\ IdentityInit
    /\ Bounded

AnalysisNext ==
    \/ /\ subject = "shared" /\ Visit
       /\ UNCHANGED <<subject, graphVars, treeVars, identityVars>>
    \/ /\ subject = "graph" /\ GraphNext
       /\ UNCHANGED <<subject, walkVars, treeVars, identityVars>>
    \/ /\ subject = "plain" /\ Plain!Next
       /\ UNCHANGED <<subject, walkVars, graphVars, identityVars>>
    \/ /\ subject = "toolchain" /\ Toolchain!Next
       /\ UNCHANGED <<subject, walkVars, graphVars, identityVars>>
    \/ /\ subject = "identity" /\ IdentityNext
       /\ UNCHANGED <<subject, walkVars, graphVars, treeVars>>

AnalysisSpec == AnalysisInit /\ [][AnalysisNext]_<<subject, walkVars, graphVars, treeVars, identityVars>>

\* In small graphs nothing is lost: dominators, retained sizes and toolchain holders
\* are those of the graph (dominator_tree, retained_sizes, toolchain_holders), and
\* copies that take file order to separate are exchanged by a symmetry (refine).
SmallIsExact ==
    /\ subject = "plain" => Plain!TreeIsExact
    /\ subject = "toolchain" => Toolchain!TreeIsExact
    /\ subject = "identity" => ConnectedTiesAreAlike
=============================================================================
