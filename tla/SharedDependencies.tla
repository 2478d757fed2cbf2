-------------------------- MODULE SharedDependencies --------------------------
(***************************************************************************)
(* artifact/src/metrics/callgraph.rs, shared_dependency_bytes: one walk that  *)
(* finds the symbols more than one root reaches.  A symbol carries the one    *)
(* root that reached it so far, or the mark that several did, and is looked   *)
(* at again when its mark changes.                                            *)
(*                                                                           *)
(* The order in which marks are taken off the pending stack is left open.     *)
(***************************************************************************)
CONSTANTS
    Symbols,    \* the symbols of a graph that carries sizes
    Several,    \* the mark of a symbol that several roots reach
    None        \* no mark

ASSUME SharedAssumption == Several \notin Symbols /\ None \notin Symbols /\ Several # None

VARIABLES
    successors, \* successors[s]: the symbols s calls
    roots,      \* the roots
    state,      \* state[s]: the root that reached s, Several or None
    pending     \* symbols to look at, with the mark that arrives

walkVars == <<successors, roots, state, pending>>

Marks == roots \cup {Several}

WalkTypeOK ==
    /\ successors \in [Symbols -> SUBSET Symbols] /\ roots \subseteq Symbols
    /\ state \in [Symbols -> Marks \cup {None}] /\ pending \subseteq Symbols \X Marks

\* Mutant: a symbol that has been reached is not looked at again.
VisitOnce ==
    /\ \E p \in pending :
        LET symbol == p[1]
            arriving == p[2]
            seen == state[symbol]
        IN IF seen # None
           THEN /\ state' = [state EXCEPT ![symbol] = IF seen = arriving THEN seen ELSE Several]
                /\ pending' = pending \ {p}
           ELSE /\ state' = [state EXCEPT ![symbol] = arriving]
                /\ pending' = (pending \ {p}) \cup {<<t, arriving>> : t \in successors[symbol]}
    /\ UNCHANGED <<successors, roots>>

\* One turn of the loop.
Visit ==
    /\ \E p \in pending :
        LET symbol == p[1]
            arriving == p[2]
            seen == state[symbol]
            next == IF seen = None THEN arriving ELSE Several
        IN IF seen = Several \/ seen = arriving
           THEN pending' = pending \ {p} /\ UNCHANGED state
           ELSE /\ state' = [state EXCEPT ![symbol] = next]
                /\ pending' = (pending \ {p}) \cup {<<t, next>> : t \in successors[symbol]}
    /\ UNCHANGED <<successors, roots>>

WalkInit ==
    /\ successors \in [Symbols -> SUBSET Symbols] /\ roots \in SUBSET Symbols
    /\ state = [s \in Symbols |-> None]
    /\ pending = {<<r, r>> : r \in roots}

WalkSpec == WalkInit /\ [][Visit]_walkVars
WalkFairSpec == WalkSpec /\ WF_walkVars(Visit)

\* The symbols whose sizes are summed.
Shared == {s \in Symbols : state[s] = Several}

(***************************************************************************)
(* Properties.                                                             *)
(***************************************************************************)

Closed(c) == \A s \in c : successors[s] \subseteq c

\* What r reaches: what is in every closed set that holds r.
Reached(r) == {s \in Symbols : \A c \in SUBSET Symbols : r \in c /\ Closed(c) => s \in c}

ReachedTwice ==
    {s \in Symbols : \E q, r \in roots : q # r /\ s \in Reached(q) /\ s \in Reached(r)}

\* Whatever the order, the walk ends with exactly the symbols that two roots
\* reach, and never takes a symbol for shared that one root alone reaches
\* (shared_dependency_bytes).
SharedIsReachedTwice == Shared \subseteq ReachedTwice /\ (pending = {} => Shared = ReachedTwice)

\* A symbol is looked at again at most once: its mark rises (shared_dependency_bytes).
MarksOnlyRise ==
    [][\A s \in Symbols : state'[s] # state[s] =>
        (state[s] = None) \/ (state[s] \in roots /\ state'[s] = Several)]_walkVars

=============================================================================
