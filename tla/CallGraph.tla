------------------------------ MODULE CallGraph ------------------------------
(***************************************************************************)
(* artifact/src/metrics/callgraph.rs: what one walk of an artifact's local    *)
(* call graph establishes (CallGraph::from_ir), and the two verdicts read off *)
(* it: which symbols are dead, and whether sizes may be derived at all.       *)
(*                                                                           *)
(* The state is a program together with what a parser recorded of it.  The    *)
(* program is extended one call at a time, so every state is an artifact.     *)
(* A call knows its true callee; the code sees it only when it is resolved.   *)
(***************************************************************************)
EXTENDS Naturals, FiniteSets

CONSTANTS
    Functions,      \* the functions of a program
    Contents,       \* what their bytes may be: the fingerprints of symbols
    Outside,        \* a callee in another artifact
    MaxCalls,       \* bound: calls of a program
    MaxUncollected, \* bound: functions the parser found no symbol for
    MaxReferences   \* bound: functions whose address is taken

ASSUME GraphAssumption ==
    /\ IsFiniteSet(Functions) /\ Outside \notin Functions
    /\ {MaxCalls, MaxUncollected, MaxReferences} \subseteq Nat

VARIABLES
    format,     \* wasm or native: the container
    capable,    \* the backend establishes call edges
    content,    \* content[f]: the fingerprint of function f
    collected,  \* functions that have a symbol
    exported,   \* symbols marked as exported, and entry points
    references, \* indirect_references
    calls       \* the calls, with their true callees

graphVars == <<format, capable, content, collected, exported, references, calls>>

Reasons == {"table", "import", "indirect", "missing"}
Call == [caller : Functions, callee : Functions \cup {Outside}, how : Reasons \cup {"resolved", "silent"}]

GraphTypeOK ==
    /\ format \in {"wasm", "native"} /\ capable \in BOOLEAN
    /\ content \in [Functions -> Contents]
    /\ collected \subseteq Functions /\ exported \subseteq Functions /\ references \subseteq Functions
    /\ calls \subseteq Call /\ \A c \in calls : c.how = "resolved" => c.callee # Outside

(***************************************************************************)
(* CallGraph::from_ir.                                                     *)
(***************************************************************************)

Named(functions) == {content[f] : f \in functions}
Sizes == Named(collected)

Roots == Named(exported \cup references)

Edges == {<<content[c.caller], content[c.callee]>> : c \in {d \in calls : d.how = "resolved"}}

LocalDispatch(how) ==
    CASE how = "table" -> "ThroughRecordedRoots"
      [] how \in {"indirect", "missing"} -> "PossiblyLocal"
      [] how = "import" -> IF format = "wasm" THEN "ProvablyExternal" ELSE "PossiblyLocal"

\* What the walk could not establish.
Observations ==
    LET dispatches == {LocalDispatch(c.how) : c \in {d \in calls : d.how \in Reasons}}
        endpoints == Named({c.caller : c \in calls} \cup {c.callee : c \in {d \in calls : d.how = "resolved"}})
    IN {o \in {"UnfollowedDispatch", "DispatchThroughRecordedRoots", "AmbiguousIdentity", "EndpointWithoutSymbol"} :
            \/ o = "UnfollowedDispatch" /\ ("PossiblyLocal" \in dispatches \/ \E c \in calls : c.how = "silent")
            \/ o = "DispatchThroughRecordedRoots" /\ "ThroughRecordedRoots" \in dispatches
            \/ o = "AmbiguousIdentity" /\ Cardinality(Sizes) < Cardinality(collected)
            \/ o = "EndpointWithoutSymbol" /\ ~(endpoints \subseteq Sizes)}

\* What a walk that follows the edges finds of a set of symbols or functions,
\* from where it starts: what no closed set that holds the start leaves out.
ClosedUnder(edges, set) == \A e \in edges : e[1] \in set => e[2] \in set
Closure(all, start, edges) ==
    {x \in all : \A set \in SUBSET all : start \subseteq set /\ ClosedUnder(edges, set) => x \in set}

Reachable == Closure(Contents, Roots, Edges)

(***************************************************************************)
(* The verdicts.                                                           *)
(***************************************************************************)

\* dead_code_candidates: no answer without call edges or without a root.
HasDeadCode == capable /\ Roots # {}
DeadCode == [symbols |-> Sizes \ Reachable, definitive |-> Observations = {}]

\* Mutant: what makes a size wrong is left to the dead-code verdict.
OnlyDispatchWithdraws ==
    capable /\ Roots # {} /\ Roots \subseteq Sizes /\ "UnfollowedDispatch" \notin Observations

\* size_unavailability has nothing to say.
SizesAvailable ==
    /\ capable
    /\ Observations \subseteq {"DispatchThroughRecordedRoots"}
    /\ Roots # {} /\ Roots \subseteq Sizes

\* retained_bytes; bound: a symbol has one byte.
RetainedBytes == Cardinality(Reachable)

(***************************************************************************)
(* Programs.                                                               *)
(***************************************************************************)

\* What the parsers mean by what they record: a table dispatch reaches a recorded
\* reference or leaves, an import of a WebAssembly module leaves, and the
\* rest may reach anything.
Recorded(c) ==
    CASE c.how = "resolved" -> c.callee \in Functions
      [] c.how = "table" -> format = "wasm" /\ c.callee \in references \cup {Outside}
      [] c.how = "import" -> format = "wasm" => c.callee = Outside
      [] c.how = "indirect" -> format = "native"
      [] c.how \in {"missing", "silent"} -> TRUE

AddCall ==
    /\ Cardinality(calls) < MaxCalls
    /\ \E c \in Call \ calls : Recorded(c) /\ calls' = calls \cup {c}
    /\ UNCHANGED <<format, capable, content, collected, exported, references>>

\* What has no symbol shares its content with nothing that has one.
KeptApart(t, symbols) == \A g \in Functions \ symbols, h \in symbols : t[g] # t[h]

GraphInit ==
    /\ format \in {"wasm", "native"} /\ capable \in BOOLEAN
    /\ collected \in {s \in SUBSET Functions : Cardinality(Functions \ s) <= MaxUncollected}
    /\ exported \in SUBSET Functions
    /\ references \in {s \in SUBSET Functions : Cardinality(s) <= MaxReferences}
    /\ content \in {t \in [Functions -> Contents] : KeptApart(t, collected)}
    /\ calls = {}

GraphNext == AddCall

GraphSpec == GraphInit /\ [][GraphNext]_graphVars

(***************************************************************************)
(* Properties.                                                             *)
(***************************************************************************)

\* What the program can really run.
Live ==
    Closure(Functions \cup {Outside}, exported \cup references, {<<c.caller, c.callee>> : c \in calls})
        \ {Outside}

\* A symbol in a definitive report is the symbol of no function that can run
\* (dead_code_candidates).
ProvenDeadIsDead ==
    HasDeadCode /\ DeadCode.definitive => DeadCode.symbols \cap Named(Live \cap collected) = {}

\* Sizes that are given are those of what can run, each function once
\* (size_unavailability, classify_sizes_from_duplicates).
RetainedIsLive == SizesAvailable => RetainedBytes = Cardinality(Live) /\ Live \subseteq collected

\* A proof that code is dead and withdrawn sizes never meet in one report, where
\* the roots are symbols (withdrawn_size_reason).
ProofsComeWithSizes ==
    HasDeadCode /\ DeadCode.definitive /\ Roots \subseteq Sizes => SizesAvailable

\* What a report says of a graph is right although edges are missing from it:
\* what it proves dead cannot run, sizes are of what can, and the two never
\* contradict each other (metrics/callgraph.rs).
GraphIsHonest ==
    /\ GraphTypeOK
    /\ ProvenDeadIsDead
    /\ RetainedIsLive
    /\ ProofsComeWithSizes
=============================================================================
