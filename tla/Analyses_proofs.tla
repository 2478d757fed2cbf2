------------------------- MODULE Analyses_proofs -------------------------
(***************************************************************************)
(* What the analyses of a scan compute: of an artifact's call graph, and of   *)
(* units that look alike.                                                    *)
(*                                                                           *)
(* The walk of shared_dependency_bytes is correct for every graph, every set  *)
(* of roots and every order of the pending stack (WalkIsCorrect).  Its         *)
(* inductive invariant says two things of a mark.  It is deserved: the root it  *)
(* names reaches the symbol, and two do where it is Several.  And it is handed  *)
(* on: a successor has the mark, has Several, or is about to be looked at with  *)
(* it.  When nothing is pending, the symbols that carry a root or Several are   *)
(* closed under calls, so they hold all the root reaches.                     *)
(*                                                                           *)
(* What is said of a graph from which edges are missing is right for every     *)
(* program and whatever a parser records of it within what it means            *)
(* (GraphHonest).  The invariant says that what is recorded of a call is meant, *)
(* and that what has no symbol shares its content with nothing that has one.   *)
(* Then the functions whose content is reached are closed under the true        *)
(* calls, so they hold all that can run, unless a dispatch was not followed.   *)
(*                                                                           *)
(* Clone groups stand for what was verified, for every program, every budget    *)
(* and every ceiling (GroupsTrue).  The invariant divides the units: no unit   *)
(* is in two groups, in two sets that are still to be refined, or in one and    *)
(* in hand.  What is kept in hand is close to the medoid, and where only the    *)
(* medoid is kept everything else is far from it.  So an accepted pair that no  *)
(* ceiling cut stays in one set until an end of it is in a group.              *)
(*                                                                           *)
(* Identities name symbols across builds, for every program, every other order *)
(* of its symbols and all unrelated code that joins it (IdentitiesLasting).      *)
(* The invariant keeps the two builds in step: a member has the same colour in  *)
(* both, and is refined in both or in neither.  A colour stands for one        *)
(* content, so what joins ties with no member; and a component that is still   *)
(* refined has gained a colour in every round, so the rounds end.             *)
(***************************************************************************)
EXTENDS SharedDependencies, CallGraph, CloneGrouping, SymbolIdentity, FiniteSetTheorems, TLAPS

(***************************************************************************)
(* The walk.                                                               *)
(***************************************************************************)

Deserves(s, mark) ==
    /\ mark \in roots => s \in Reached(mark)
    /\ mark = Several => s \in ReachedTwice

Deserved ==
    /\ \A s \in Symbols : Deserves(s, state[s])
    /\ \A p \in pending : Deserves(p[1], p[2])

\* A mark arrives, or has arrived.
Arrives(t, mark) == <<t, mark>> \in pending \/ state[t] \in {mark, Several}

HandedOn ==
    /\ \A s \in Symbols : state[s] # None => \A t \in successors[s] : Arrives(t, state[s])
    /\ \A r \in roots : Arrives(r, r)

WalkInv == WalkTypeOK /\ Deserved /\ HandedOn

\* What a root reaches is closed under calls, and so is what two roots reach.
LEMMA ReachedIsClosed ==
    ASSUME WalkTypeOK, NEW s \in Symbols, NEW t \in successors[s]
    PROVE  /\ t \in Symbols
           /\ \A r \in roots : s \in Reached(r) => t \in Reached(r)
           /\ s \in ReachedTwice => t \in ReachedTwice
<1>1. t \in Symbols
  BY DEF WalkTypeOK
<1>2. ASSUME NEW r \in roots, s \in Reached(r)
      PROVE  t \in Reached(r)
  BY <1>1, <1>2 DEF Reached, Closed
<1>3. ASSUME s \in ReachedTwice
      PROVE  t \in ReachedTwice
  <2>1. PICK q \in roots, r \in roots : q # r /\ s \in Reached(q) /\ s \in Reached(r)
    BY <1>3 DEF ReachedTwice
  <2>2. t \in Reached(q) /\ t \in Reached(r)
    BY <2>1, <1>2
  <2>. QED
    BY <1>1, <2>1, <2>2 DEF ReachedTwice
<1>. QED
  BY <1>1, <1>2, <1>3

\* A symbol's mark is deserved by its successors too.
LEMMA SuccessorsDeserve ==
    ASSUME WalkTypeOK, NEW s \in Symbols, NEW t \in successors[s], NEW mark, Deserves(s, mark)
    PROVE  Deserves(t, mark)
BY ReachedIsClosed DEF Deserves

\* The marks and what is pending before anything is visited.
LEMMA WalkInvInit == WalkInit => WalkInv
<1>. SUFFICES ASSUME WalkInit PROVE WalkInv
  OBVIOUS
<1>1. WalkTypeOK
  BY SharedAssumption DEF WalkInit, WalkTypeOK, Marks
<1>2. ASSUME NEW r \in roots
      PROVE  Deserves(r, r)
  BY <1>1, SharedAssumption DEF Deserves, Reached, WalkTypeOK
<1>3. Deserved
  <2>1. \A s \in Symbols : Deserves(s, state[s])
    BY SharedAssumption DEF WalkInit, Deserves
  <2>2. ASSUME NEW p \in pending
        PROVE  Deserves(p[1], p[2])
    <3>1. PICK r \in roots : p = <<r, r>>
      BY DEF WalkInit
    <3>. QED
      BY <3>1, <1>2
  <2>. QED
    BY <2>1, <2>2 DEF Deserved
<1>4. HandedOn
  BY DEF WalkInit, HandedOn, Arrives
<1>. QED
  BY <1>1, <1>3, <1>4 DEF WalkInv

\* What one turn of the loop does to the marks and to what is pending.
LEMMA WalkInvStep == WalkInv /\ [Visit]_walkVars => WalkInv'
<1>. SUFFICES ASSUME WalkInv, [Visit]_walkVars
              PROVE  WalkInv'
  OBVIOUS
<1>. USE SharedAssumption
<1>1. CASE UNCHANGED walkVars
  BY <1>1 DEF walkVars, WalkInv, WalkTypeOK, Marks, Deserved, Deserves, Reached, ReachedTwice, Closed, HandedOn, Arrives
<1>2. CASE Visit
  <2>. PICK p \in pending :
        LET symbol == p[1]
            arriving == p[2]
            seen == state[symbol]
            next == IF seen = None THEN arriving ELSE Several
        IN IF seen = Several \/ seen = arriving
           THEN pending' = pending \ {p} /\ UNCHANGED state
           ELSE /\ state' = [state EXCEPT ![symbol] = next]
                /\ pending' = (pending \ {p}) \cup {<<t, next>> : t \in successors[symbol]}
    BY <1>2 DEF Visit
  <2>. DEFINE symbol == p[1]
              arriving == p[2]
              next == IF state[symbol] = None THEN arriving ELSE Several
  <2>1. /\ symbol \in Symbols /\ arriving \in Marks /\ p = <<symbol, arriving>>
        /\ WalkTypeOK /\ Deserved /\ HandedOn
        /\ successors' = successors /\ roots' = roots
        /\ successors[symbol] \subseteq Symbols
    BY <1>2 DEF WalkInv, WalkTypeOK, Visit
  <2>2. \A s, m : Deserves(s, m)' <=> Deserves(s, m)
    BY <2>1 DEF Deserves, Reached, ReachedTwice, Closed
  <2>3. CASE state[symbol] = Several \/ state[symbol] = arriving
    <3>1. pending' = pending \ {p} /\ state' = state
      BY <2>3
    <3>2. WalkTypeOK'
      BY <2>1, <3>1 DEF WalkTypeOK, Marks
    <3>3. Deserved'
      BY <2>1, <2>2, <3>1 DEF Deserved
    <3>4. ASSUME NEW t, NEW m, Arrives(t, m)
          PROVE  Arrives(t, m)'
      BY <2>1, <2>3, <3>1, <3>4 DEF Arrives
    <3>5. HandedOn'
      BY <2>1, <3>1, <3>4 DEF HandedOn
    <3>. QED
      BY <3>2, <3>3, <3>5 DEF WalkInv
  <2>4. CASE ~(state[symbol] = Several \/ state[symbol] = arriving)
    <3>1. /\ state' = [state EXCEPT ![symbol] = next]
          /\ pending' = (pending \ {p}) \cup {<<t, next>> : t \in successors[symbol]}
      BY <2>4
    <3>2. next \in Marks /\ (state[symbol] = None \/ next = Several)
      BY <2>1 DEF Marks
    <3>3. WalkTypeOK'
      BY <2>1, <3>1, <3>2 DEF WalkTypeOK, Marks
    <3>4. Deserves(symbol, next)
      <4>1. Deserves(symbol, state[symbol]) /\ Deserves(symbol, arriving)
        BY <2>1 DEF Deserved
      <4>2. CASE state[symbol] = None
        BY <4>1, <4>2
      <4>3. CASE state[symbol] # None /\ arriving = Several
        BY <4>1, <4>3
      <4>4. CASE state[symbol] # None /\ arriving # Several
        <5>1. state[symbol] \in roots /\ arriving \in roots /\ state[symbol] # arriving
          BY <2>1, <2>4, <4>4 DEF WalkTypeOK, Marks
        <5>2. symbol \in ReachedTwice
          BY <2>1, <4>1, <5>1 DEF Deserves, ReachedTwice
        <5>3. next = Several /\ Several \notin roots
          BY <2>1, <4>4 DEF WalkTypeOK
        <5>. QED
          BY <5>2, <5>3 DEF Deserves
      <4>. QED
        BY <4>2, <4>3, <4>4
    <3>5. Deserved'
      <4>1. ASSUME NEW s \in Symbols
            PROVE  Deserves(s, state'[s])
        BY <2>1, <3>1, <3>4 DEF Deserved, WalkTypeOK
      <4>2. ASSUME NEW q \in pending'
            PROVE  Deserves(q[1], q[2])
        <5>1. CASE q \in pending
          BY <2>1, <5>1 DEF Deserved
        <5>2. CASE q \notin pending
          <6>1. PICK t \in successors[symbol] : q = <<t, next>>
            BY <3>1, <5>2
          <6>. QED
            BY <2>1, <3>4, <6>1, SuccessorsDeserve
        <5>. QED
          BY <5>1, <5>2
      <4>. QED
        BY <2>2, <4>1, <4>2 DEF Deserved
    <3>6. ASSUME NEW t \in Symbols, NEW m \in Marks, Arrives(t, m)
          PROVE  Arrives(t, m)'
      <4>1. CASE t # symbol
        BY <2>1, <3>1, <3>6, <4>1 DEF Arrives, WalkTypeOK
      <4>2. CASE t = symbol /\ m = arriving
        BY <2>1, <3>1, <4>2 DEF Arrives, WalkTypeOK
      <4>3. CASE t = symbol /\ m # arriving /\ <<t, m>> \in pending
        BY <2>1, <3>1, <4>3 DEF Arrives
      <4>4. CASE t = symbol /\ state[t] \in {m, Several}
        BY <2>1, <3>1, <3>2, <4>4 DEF Arrives, WalkTypeOK, Marks
      <4>. QED
        BY <3>6, <4>1, <4>2, <4>3, <4>4 DEF Arrives
    <3>7. HandedOn'
      <4>1. ASSUME NEW s \in Symbols, state'[s] # None, NEW t \in successors[s]
            PROVE  Arrives(t, state[s])'
        <5>1. CASE s = symbol
          BY <2>1, <3>1, <4>1, <5>1 DEF Arrives, WalkTypeOK
        <5>2. CASE s # symbol
          <6>1. state'[s] = state[s] /\ state[s] \in Marks /\ t \in Symbols
            BY <2>1, <3>1, <4>1, <5>2 DEF WalkTypeOK
          <6>2. Arrives(t, state[s])
            BY <2>1, <4>1, <6>1 DEF HandedOn
          <6>. QED
            BY <3>6, <6>1, <6>2 DEF Arrives
        <5>. QED
          BY <5>1, <5>2
      <4>2. ASSUME NEW r \in roots
            PROVE  Arrives(r, r)'
        <5>1. r \in Symbols /\ r \in Marks /\ Arrives(r, r)
          BY <2>1 DEF HandedOn, WalkTypeOK, Marks
        <5>. QED
          BY <3>6, <5>1
      <4>. QED
        BY <2>1, <4>1, <4>2 DEF HandedOn, Arrives
    <3>. QED
      BY <3>3, <3>5, <3>7 DEF WalkInv
  <2>. QED
    BY <2>3, <2>4
<1>. QED
  BY <1>1, <1>2

\* What the invariant says when nothing is pending.
LEMMA WalkInvMeans == WalkInv => SharedIsReachedTwice
<1>. SUFFICES ASSUME WalkInv PROVE SharedIsReachedTwice
  OBVIOUS
<1>. USE SharedAssumption
<1>1. Shared \subseteq ReachedTwice
  BY DEF WalkInv, Deserved, Deserves, Shared
<1>2. ASSUME pending = {}, NEW s \in ReachedTwice
      PROVE  s \in Shared
  <2>. DEFINE carries(r) == {u \in Symbols : state[u] \in {r, Several}}
  <2>1. ASSUME NEW r \in roots
        PROVE  r \in carries(r) /\ Closed(carries(r))
    <3>1. r \in Symbols /\ state[r] \in {r, Several}
      BY <1>2 DEF WalkInv, HandedOn, Arrives, WalkTypeOK
    <3>2. ASSUME NEW u \in carries(r), NEW t \in successors[u]
          PROVE  t \in carries(r)
      <4>1. t \in Symbols /\ u \in Symbols /\ state[u] # None
        BY <3>1 DEF WalkInv, WalkTypeOK
      <4>2. state[t] \in {state[u], Several}
        BY <1>2, <4>1 DEF WalkInv, HandedOn, Arrives
      <4>. QED
        BY <4>1, <4>2
    <3>. QED
      BY <3>1, <3>2 DEF Closed
  <2>2. PICK q \in roots, r \in roots : q # r /\ s \in Reached(q) /\ s \in Reached(r)
    BY DEF ReachedTwice
  <2>3. s \in carries(q) /\ s \in carries(r)
    <3>1. carries(q) \in SUBSET Symbols /\ carries(r) \in SUBSET Symbols
      OBVIOUS
    <3>. QED
      BY <2>1, <2>2, <3>1 DEF Reached
  <2>. QED
    BY <2>2, <2>3 DEF Shared
<1>. QED
  BY <1>1, <1>2 DEF SharedIsReachedTwice, Shared

\* Every order of the walk keeps the marks well typed and ends with exactly
\* the symbols that two roots reach (shared_dependency_bytes).
THEOREM WalkIsCorrect == WalkSpec => [](WalkTypeOK /\ SharedIsReachedTwice)
<1>1. WalkInv => WalkTypeOK /\ SharedIsReachedTwice
  BY WalkInvMeans DEF WalkInv
<1>. QED
  BY <1>1, WalkInvInit, WalkInvStep, PTL DEF WalkSpec

\* A mark changes at most twice: from none to a root or Several, and from a
\* root to Several.
THEOREM RisingMarks == WalkSpec => MarksOnlyRise
<1>. DEFINE Rises == \A s \in Symbols : state'[s] # state[s] =>
                        (state[s] = None) \/ (state[s] \in roots /\ state'[s] = Several)
<1>1. WalkInv /\ [Visit]_walkVars => [Rises]_walkVars
  <2>. SUFFICES ASSUME WalkInv, Visit PROVE Rises
    BY DEF walkVars
  <2>1. PICK p \in pending :
        LET symbol == p[1]
            arriving == p[2]
            seen == state[symbol]
            next == IF seen = None THEN arriving ELSE Several
        IN IF seen = Several \/ seen = arriving
           THEN pending' = pending \ {p} /\ UNCHANGED state
           ELSE /\ state' = [state EXCEPT ![symbol] = next]
                /\ pending' = (pending \ {p}) \cup {<<t, next>> : t \in successors[symbol]}
    BY DEF Visit
  <2>2. state \in [Symbols -> roots \cup {Several, None}]
    BY DEF WalkInv, WalkTypeOK, Marks
  <2>. QED
    BY <2>1, <2>2
<1>. QED
  BY <1>1, WalkInvInit, WalkInvStep, PTL DEF WalkSpec, MarksOnlyRise

(***************************************************************************)
(* The graph.                                                              *)
(***************************************************************************)

GraphInv ==
    /\ GraphTypeOK
    /\ \A c \in calls : Recorded(c)
    /\ KeptApart(content, collected)

\* What a walk finds holds where it starts, is closed, and is the least such set.
LEMMA ClosureIsLeast ==
    ASSUME NEW all, NEW start \in SUBSET all, NEW edges \in SUBSET (all \X all)
    PROVE  /\ start \subseteq Closure(all, start, edges) /\ Closure(all, start, edges) \subseteq all
           /\ ClosedUnder(edges, Closure(all, start, edges))
           /\ \A set \in SUBSET all :
                 start \subseteq set /\ ClosedUnder(edges, set) => Closure(all, start, edges) \subseteq set
<1>1. start \subseteq Closure(all, start, edges) /\ Closure(all, start, edges) \subseteq all
  BY DEF Closure
<1>2. ASSUME NEW e \in edges, e[1] \in Closure(all, start, edges)
      PROVE  e[2] \in Closure(all, start, edges)
  <2>1. e[2] \in all
    OBVIOUS
  <2>2. ASSUME NEW set \in SUBSET all, start \subseteq set, ClosedUnder(edges, set)
        PROVE  e[2] \in set
    BY <1>2, <2>2 DEF Closure, ClosedUnder
  <2> QED
    BY <2>1, <2>2 DEF Closure
<1>3. ASSUME NEW set \in SUBSET all, start \subseteq set, ClosedUnder(edges, set)
      PROVE  Closure(all, start, edges) \subseteq set
  BY <1>3 DEF Closure
<1> QED
  BY <1>1, <1>2, <1>3 DEF ClosedUnder

\* The walks of the code and of the program are such.
LEMMA WalksAreWalks ==
    ASSUME GraphTypeOK
    PROVE  /\ Roots \in SUBSET Contents /\ Edges \in SUBSET (Contents \X Contents)
           /\ exported \cup references \in SUBSET (Functions \cup {Outside})
           /\ {<<c.caller, c.callee>> : c \in calls} \in
                 SUBSET ((Functions \cup {Outside}) \X (Functions \cup {Outside}))
<1>1. content \in [Functions -> Contents] /\ calls \subseteq Call
      /\ exported \subseteq Functions /\ references \subseteq Functions
  BY DEF GraphTypeOK
<1>2. Roots \in SUBSET Contents
  BY <1>1 DEF Roots, Named
<1>3. ASSUME NEW c \in calls
      PROVE  /\ c.caller \in Functions /\ c.callee \in Functions \cup {Outside}
             /\ c.how = "resolved" => c.callee \in Functions
  BY <1>1 DEF GraphTypeOK, Call
<1>4. Edges \in SUBSET (Contents \X Contents)
  BY <1>1, <1>3 DEF Edges
<1> QED
  BY <1>1, <1>2, <1>3, <1>4

\* What a call that leaves no dispatch unfollowed may be.
LEMMA Followed ==
    ASSUME GraphInv, "UnfollowedDispatch" \notin Observations, NEW c \in calls
    PROVE  /\ c.caller \in Functions
           /\ \/ c.how = "resolved" /\ c.callee \in Functions
              \/ c.callee \in references \cup {Outside}
<1>1. /\ c.caller \in Functions /\ c.how \in Reasons \cup {"resolved", "silent"} /\ Recorded(c)
      /\ format \in {"wasm", "native"}
  BY DEF GraphInv, GraphTypeOK, Call
<1>2. c.how # "silent" /\ (c.how \in Reasons => LocalDispatch(c.how) # "PossiblyLocal")
  BY DEF Observations
<1>3. c.how \notin {"indirect", "missing"}
  BY <1>2 DEF Reasons, LocalDispatch
<1>4. c.how = "import" => format = "wasm"
  BY <1>1, <1>2 DEF Reasons, LocalDispatch
<1>5. c.how \in {"resolved", "table", "import"}
  BY <1>1, <1>2, <1>3 DEF Reasons
<1> QED
  BY <1>1, <1>4, <1>5 DEF Recorded

\* What can run is reached.
LEMMA LiveIsReached ==
    ASSUME GraphInv, "UnfollowedDispatch" \notin Observations
    PROVE  Live \subseteq Functions /\ \A f \in Live : content[f] \in Reachable
<1> DEFINE all == Functions \cup {Outside}
           start == exported \cup references
           edges == {<<c.caller, c.callee>> : c \in calls}
           reached == {f \in all : f = Outside \/ content[f] \in Reachable}
<1>1. /\ Roots \in SUBSET Contents /\ Edges \in SUBSET (Contents \X Contents)
      /\ start \in SUBSET all /\ edges \in SUBSET (all \X all)
  BY WalksAreWalks DEF GraphInv
<1>2. Roots \subseteq Reachable /\ ClosedUnder(Edges, Reachable)
  BY <1>1, ClosureIsLeast DEF Reachable
<1>3. \A f \in start : f \in Functions /\ content[f] \in Reachable
  BY <1>2 DEF GraphInv, GraphTypeOK, Roots, Named
<1>4. start \subseteq reached
  BY <1>3
<1>5. ASSUME NEW e \in edges, e[1] \in reached
      PROVE  e[2] \in reached
  <2>1. PICK c \in calls : e = <<c.caller, c.callee>>
    OBVIOUS
  <2>2. c.caller \in Functions /\ c.caller # Outside /\ content[c.caller] \in Reachable
    BY <1>5, <2>1, Followed, GraphAssumption
  <2>3. CASE c.how = "resolved" /\ c.callee \in Functions
    <3>1. <<content[c.caller], content[c.callee]>> \in Edges
      BY <2>3 DEF Edges
    <3>2. content[c.callee] \in Reachable
      BY <1>2, <2>2, <3>1 DEF ClosedUnder
    <3> QED
      BY <2>1, <2>3, <3>2
  <2>4. CASE c.callee \in references
    BY <1>3, <2>1, <2>4
  <2>5. CASE c.callee = Outside
    BY <2>1, <2>5
  <2> QED
    BY <2>3, <2>4, <2>5, Followed
<1>6. Closure(all, start, edges) \subseteq reached
  <2>1. reached \in SUBSET all /\ ClosedUnder(edges, reached)
    BY <1>5 DEF ClosedUnder
  <2> HIDE DEF all, start, edges, reached
  <2> QED
    BY <1>1, <1>4, <2>1, ClosureIsLeast
<1>7. Live \subseteq reached \ {Outside}
  BY <1>6 DEF Live
<1> QED
  BY <1>7

\* Where the roots and the ends of every call have symbols, so has all that can run.
LEMMA LiveIsCollected ==
    ASSUME GraphInv, Roots \subseteq Sizes, Observations \subseteq {"DispatchThroughRecordedRoots"}
    PROVE  /\ Live \subseteq collected
           /\ \A c \in calls : c.caller \in collected /\ (c.how = "resolved" => c.callee \in collected)
<1> DEFINE all == Functions \cup {Outside}
           start == exported \cup references
           edges == {<<c.caller, c.callee>> : c \in calls}
           kept == collected \cup {Outside}
<1>1. ASSUME NEW f \in Functions, content[f] \in Sizes
      PROVE  f \in collected
  BY <1>1 DEF Sizes, Named, GraphInv, KeptApart
<1>2. "UnfollowedDispatch" \notin Observations /\ "EndpointWithoutSymbol" \notin Observations
  OBVIOUS
<1>3. start \subseteq collected
  BY <1>1 DEF GraphInv, GraphTypeOK, Roots, Named
<1>4. ASSUME NEW c \in calls
      PROVE  c.caller \in collected /\ (c.how = "resolved" => c.callee \in collected)
  <2> DEFINE ends == {d.caller : d \in calls} \cup {d.callee : d \in {e \in calls : e.how = "resolved"}}
  <2>1. Named(ends) \subseteq Sizes
    BY <1>2 DEF Observations
  <2>2. c.caller \in ends /\ (c.how = "resolved" => c.callee \in ends)
    OBVIOUS
  <2>3. c.caller \in Functions /\ (c.how = "resolved" => c.callee \in Functions)
    BY DEF GraphInv, GraphTypeOK, Call
  <2>4. \A f \in ends : content[f] \in Sizes
    BY <2>1 DEF Named
  <2> HIDE DEF ends
  <2> QED
    BY <1>1, <2>2, <2>3, <2>4
<1>5. ASSUME NEW e \in edges, e[1] \in kept
      PROVE  e[2] \in kept
  <2>1. PICK c \in calls : e = <<c.caller, c.callee>>
    OBVIOUS
  <2>2. c.how = "resolved" \/ c.callee \in references \cup {Outside}
    BY <1>2, Followed
  <2> QED
    BY <1>3, <1>4, <2>1, <2>2
<1>6. Closure(all, start, edges) \subseteq kept
  <2>1. kept \in SUBSET all /\ ClosedUnder(edges, kept) /\ start \subseteq kept
    BY <1>3, <1>5 DEF ClosedUnder, GraphInv, GraphTypeOK
  <2>2. start \in SUBSET all /\ edges \in SUBSET (all \X all)
    BY WalksAreWalks DEF GraphInv
  <2> HIDE DEF all, start, edges, kept
  <2> QED
    BY <2>1, <2>2, ClosureIsLeast
<1>7. Live \subseteq kept \ {Outside}
  BY <1>6 DEF Live
<1> QED
  BY <1>4, <1>7

\* A count that loses nothing tells functions apart by their symbols.
LEMMA SymbolsTellApart ==
    ASSUME GraphTypeOK, ~(Cardinality(Sizes) < Cardinality(collected))
    PROVE  \A f, g \in collected : content[f] = content[g] => f = g
<1> DEFINE to == [f \in collected |-> content[f]]
<1>1. IsFiniteSet(collected)
  BY GraphAssumption, FS_Subset DEF GraphTypeOK
<1>2. to \in Surjection(collected, Sizes)
  BY DEF Surjection, Sizes, Named
<1>3. /\ IsFiniteSet(Sizes) /\ Cardinality(Sizes) <= Cardinality(collected)
      /\ Cardinality(Sizes) = Cardinality(collected) <=> to \in Injection(collected, Sizes)
  BY <1>1, <1>2, FS_Surjection
<1>4. Cardinality(Sizes) \in Nat /\ Cardinality(collected) \in Nat
  BY <1>1, <1>3, FS_CardinalityType
<1>5. to \in Injection(collected, Sizes)
  BY <1>3, <1>4
<1> QED
  BY <1>5 DEF Injection, IsInjective

\* Given sizes count what can run, each function once.
LEMMA SizesAreOfTheLive ==
    ASSUME GraphInv, SizesAvailable
    PROVE  RetainedBytes = Cardinality(Live) /\ Live \subseteq collected
<1>1. /\ Observations \subseteq {"DispatchThroughRecordedRoots"} /\ Roots \subseteq Sizes
      /\ "UnfollowedDispatch" \notin Observations /\ "AmbiguousIdentity" \notin Observations
  BY DEF SizesAvailable
<1>2. GraphTypeOK
  BY DEF GraphInv
<1>3. /\ Live \subseteq collected
      /\ \A c \in calls : c.caller \in collected /\ (c.how = "resolved" => c.callee \in collected)
  BY <1>1, LiveIsCollected
<1>4. \A f, g \in collected : content[f] = content[g] => f = g
  <2>1. ~(Cardinality(Sizes) < Cardinality(collected))
    BY <1>1 DEF Observations
  <2> QED
    BY <1>2, <2>1, SymbolsTellApart
<1>5. \A f \in Live : f \in Functions /\ content[f] \in Reachable
  BY <1>1, LiveIsReached
<1> DEFINE all == Functions \cup {Outside}
           start == exported \cup references
           edges == {<<c.caller, c.callee>> : c \in calls}
<1>6. start \subseteq Closure(all, start, edges) /\ ClosedUnder(edges, Closure(all, start, edges))
  <2>1. start \in SUBSET all /\ edges \in SUBSET (all \X all)
    BY <1>2, WalksAreWalks
  <2> HIDE DEF all, start, edges
  <2> QED
    BY <2>1, ClosureIsLeast
<1>7. Live = Closure(all, start, edges) \ {Outside}
  BY DEF Live
<1>8. Reachable \subseteq Named(Live)
  <2>1. Named(Live) \in SUBSET Contents
    BY <1>2, <1>5 DEF Named, GraphTypeOK
  <2>2. Roots \subseteq Named(Live)
    <3>1. start \subseteq Functions /\ Outside \notin Functions
      BY <1>2, GraphAssumption DEF GraphTypeOK
    <3>2. start \subseteq Live
      BY <1>6, <1>7, <3>1
    <3> HIDE DEF all, edges
    <3> QED
      BY <3>2 DEF Roots, Named
  <2>3. ASSUME NEW e \in Edges, e[1] \in Named(Live)
        PROVE  e[2] \in Named(Live)
    <3>1. PICK c \in calls : c.how = "resolved" /\ e = <<content[c.caller], content[c.callee]>>
      BY DEF Edges
    <3>2. c.caller \in Live
      <4>1. PICK f \in Live : content[f] = content[c.caller]
        BY <2>3, <3>1 DEF Named
      <4> QED
        BY <1>3, <1>4, <4>1
    <3>3. c.callee \in Functions /\ c.callee # Outside
      BY <1>2, <1>3, <3>1, GraphAssumption DEF GraphTypeOK
    <3>4. <<c.caller, c.callee>> \in edges
      OBVIOUS
    <3>5. c.callee \in Closure(all, start, edges)
      <4>1. c.caller \in Closure(all, start, edges)
        BY <1>7, <3>2
      <4> HIDE DEF all, start, edges
      <4> QED
        BY <1>6, <3>4, <4>1 DEF ClosedUnder
    <3>6. c.callee \in Live
      BY <1>7, <3>3, <3>5
    <3> QED
      BY <3>1, <3>6 DEF Named
  <2>4. Roots \in SUBSET Contents /\ Edges \in SUBSET (Contents \X Contents)
    BY <1>2, WalksAreWalks
  <2>5. ClosedUnder(Edges, Named(Live))
    BY <2>3 DEF ClosedUnder
  <2> QED
    BY <2>1, <2>2, <2>4, <2>5, ClosureIsLeast DEF Reachable
<1>9. Reachable = Named(Live)
  BY <1>5, <1>8 DEF Named
<1>10. Cardinality(Named(Live)) = Cardinality(Live)
  <2> DEFINE to == [f \in Live |-> content[f]]
  <2>1. IsFiniteSet(Live)
    BY <1>5, GraphAssumption, FS_Subset
  <2>2. to \in Surjection(Live, Named(Live))
    BY DEF Surjection, Named
  <2>3. to \in Injection(Live, Named(Live))
    BY <1>3, <1>4 DEF Injection, IsInjective, Named
  <2> QED
    BY <2>1, <2>2, <2>3, FS_Surjection
<1> QED
  BY <1>3, <1>9, <1>10 DEF RetainedBytes

\* What the invariant says of a report.
LEMMA GraphInvIsHonest == GraphInv => GraphIsHonest
<1> SUFFICES ASSUME GraphInv PROVE GraphIsHonest
  OBVIOUS
<1>1. ProvenDeadIsDead
  <2> SUFFICES ASSUME Observations = {}
               PROVE  (Sizes \ Reachable) \cap Named(Live \cap collected) = {}
    BY DEF ProvenDeadIsDead, DeadCode
  <2>1. \A f \in Live : content[f] \in Reachable
    BY LiveIsReached
  <2> QED
    BY <2>1 DEF Named
<1>2. RetainedIsLive
  BY SizesAreOfTheLive DEF RetainedIsLive
<1>3. ProofsComeWithSizes
  BY DEF ProofsComeWithSizes, HasDeadCode, DeadCode, SizesAvailable
<1> QED
  BY <1>1, <1>2, <1>3 DEF GraphIsHonest, GraphInv

\* A program before its calls are known.
LEMMA GraphInvInit ==
    ASSUME GraphInit
    PROVE  GraphInv
BY DEF GraphInit, GraphInv, GraphTypeOK, KeptApart

\* A call is recorded as it is meant.
LEMMA GraphInvStep ==
    ASSUME GraphInv, [GraphNext]_graphVars
    PROVE  GraphInv'
<1>1. CASE UNCHANGED graphVars
  BY <1>1 DEF graphVars, GraphInv, GraphTypeOK, Recorded, KeptApart
<1>2. CASE GraphNext
  <2>1. /\ UNCHANGED <<format, capable, content, collected, exported, references>>
        /\ \E c \in Call \ calls : Recorded(c) /\ calls' = calls \cup {c}
    BY <1>2 DEF GraphNext, AddCall
  <2>2. PICK c \in Call : Recorded(c) /\ calls' = calls \cup {c}
    BY <2>1
  <2>3. c.how = "resolved" => c.callee # Outside
    BY <2>2, GraphAssumption DEF Recorded
  <2>4. GraphTypeOK'
    BY <2>1, <2>2, <2>3 DEF GraphInv, GraphTypeOK
  <2>5. \A d : Recorded(d)' <=> Recorded(d)
    BY <2>1 DEF Recorded
  <2>6. KeptApart(content, collected)'
    BY <2>1 DEF GraphInv, KeptApart
  <2> QED
    BY <2>2, <2>4, <2>5, <2>6 DEF GraphInv
<1> QED
  BY <1>1, <1>2

\* Of every program, whatever its parser missed or could not resolve: what is proven dead
\* cannot run, given sizes are of what can, each function once, and a proof never comes
\* without sizes where the roots are symbols.
THEOREM GraphHonest == GraphSpec => []GraphIsHonest
<1> QED
  BY GraphInvInit, GraphInvStep, GraphInvIsHonest, PTL DEF GraphSpec

(***************************************************************************)
(* Finite sets in a strict order, given as the set of its pairs.            *)
(***************************************************************************)

Ordered(R, S) ==
    /\ \A x \in S : <<x, x>> \notin R
    /\ \A x, y, z \in S : <<x, y>> \in R /\ <<y, z>> \in R => <<x, z>> \in R
    /\ \A x, y \in S : x = y \/ <<x, y>> \in R \/ <<y, x>> \in R

Below(R, S, x) == {y \in S : <<y, x>> \in R}

\* What is below an element is part of what is below a greater one.
LEMMA BelowGrows ==
    ASSUME NEW S, IsFiniteSet(S), NEW R, Ordered(R, S), NEW x \in S, NEW y \in S, <<x, y>> \in R
    PROVE  Cardinality(Below(R, S, x)) # Cardinality(Below(R, S, y))
<1>1. IsFiniteSet(Below(R, S, y)) /\ Below(R, S, x) \in SUBSET Below(R, S, y)
  <2>1. Below(R, S, y) \in SUBSET S
    BY DEF Below
  <2>2. IsFiniteSet(Below(R, S, y))
    BY <2>1, FS_Subset
  <2>. QED
    BY <2>2 DEF Below, Ordered
<1>2. x \in Below(R, S, y) /\ x \notin Below(R, S, x)
  BY DEF Below, Ordered
<1>. QED
  BY <1>1, <1>2, FS_Subset

\* Every number below the size of the set counts what is below some element.
LEMMA EveryPosition ==
    ASSUME NEW S, IsFiniteSet(S), NEW R, Ordered(R, S), NEW i \in 0 .. (Cardinality(S) - 1)
    PROVE  \E x \in S : Cardinality(Below(R, S, x)) = i
<1>. DEFINE n == Cardinality(S)
            f == [x \in S |-> Cardinality(Below(R, S, x))]
<1>1. n \in Nat
  BY FS_CardinalityType
<1>2. ASSUME NEW x \in S
      PROVE  Cardinality(Below(R, S, x)) \in 0 .. (n - 1)
  <2>1. Below(R, S, x) \in SUBSET S /\ x \notin Below(R, S, x)
    BY DEF Below, Ordered
  <2>2. /\ IsFiniteSet(Below(R, S, x)) /\ Cardinality(Below(R, S, x)) <= n
        /\ n = Cardinality(Below(R, S, x)) => S = Below(R, S, x)
    BY <2>1, FS_Subset
  <2>3. Cardinality(Below(R, S, x)) \in Nat
    BY <2>2, FS_CardinalityType
  <2>4. n # Cardinality(Below(R, S, x))
    BY <2>1, <2>2
  <2>. QED
    BY <1>1, <2>2, <2>3, <2>4
<1>3. f \in Injection(S, 0 .. (n - 1))
  <2>1. f \in [S -> 0 .. (n - 1)]
    BY <1>2
  <2>2. ASSUME NEW x \in S, NEW y \in S, f[x] = f[y]
        PROVE  x = y
    <3>1. Cardinality(Below(R, S, x)) = Cardinality(Below(R, S, y))
      BY <2>2
    <3>2. <<x, y>> \notin R /\ <<y, x>> \notin R
      BY <3>1, BelowGrows
    <3>. QED
      BY <3>2 DEF Ordered
  <2>. QED
    BY <2>1, <2>2 DEF Injection, IsInjective
<1>4. IsFiniteSet(0 .. (n - 1)) /\ Cardinality(0 .. (n - 1)) = n
  BY <1>1, FS_Interval
<1>5. f \in Surjection(S, 0 .. (n - 1))
  BY <1>3, <1>4, FS_Injection
<1>6. \E x \in S : f[x] = i
  BY <1>5 DEF Surjection
<1>. QED
  BY <1>6

\* A finite set has a least element.
LEMMA LeastExists ==
    ASSUME NEW S, IsFiniteSet(S), S # {}, NEW R, Ordered(R, S)
    PROVE  \E x \in S : \A y \in S \ {x} : <<x, y>> \in R
<1>1. Cardinality(S) \in Nat /\ Cardinality(S) # 0
  BY FS_CardinalityType, FS_EmptySet
<1>2. 0 \in 0 .. (Cardinality(S) - 1)
  BY <1>1
<1>3. PICK x \in S : Cardinality(Below(R, S, x)) = 0
  BY <1>2, EveryPosition
<1>4. Below(R, S, x) = {}
  <2>1. Below(R, S, x) \in SUBSET S
    BY DEF Below
  <2>2. IsFiniteSet(Below(R, S, x))
    BY <2>1, FS_Subset
  <2>. QED
    BY <1>3, <2>2, FS_EmptySet
<1>. QED
  BY <1>4 DEF Below, Ordered

(***************************************************************************)
(* Units.                                                                  *)
(***************************************************************************)

ProgramOK == input \in Inputs /\ trial \in DOMAIN input.trials

\* What the assumptions say of units and their contents.
LEMMA UnitsKeyed ==
    ASSUME ProgramOK, NEW u \in Units
    PROVE  u \in Nat /\ Key(u) \in Keys /\ Key(u) \in Nat
<1>1. Size \in Nat /\ Units = 1..Size /\ Keys \subseteq Nat
  BY GroupingAssumption, FS_CardinalityType DEF GroupingAssumption, Size
<1>2. input.content \in [Units -> Keys]
  BY GroupingAssumption DEF GroupingAssumption, ProgramOK
<1>3. Place(u) \in Units
  BY <1>1 DEF Place
<1>4. Key(u) \in Keys
  BY <1>2, <1>3 DEF Key
<1>5. u \in Nat
  BY <1>1
<1>6. Key(u) \in Nat
  BY <1>1, <1>4, Zenon
<1>. QED
  BY <1>4, <1>5, <1>6

\* How alike two units are is a number up to Same, the same both ways.
LEMMA AlikeBothWays ==
    ASSUME ProgramOK, NEW u \in Units, NEW v \in Units
    PROVE  Alike(u, v) \in 0..Same /\ Alike(u, v) = Alike(v, u)
<1>1. Key(u) \in Keys /\ Key(v) \in Keys
  BY UnitsKeyed
<1>2. input.alike \in [kSubset(2, Keys) -> 0..Same]
  BY GroupingAssumption DEF GroupingAssumption, ProgramOK
<1>3. {Key(u), Key(v)} = {Key(v), Key(u)}
  OBVIOUS
<1>4. CASE Key(u) = Key(v)
  BY <1>4 DEF Alike, Same
<1>5. CASE Key(u) # Key(v)
  <2>1. IsFiniteSet({Key(u)}) /\ Cardinality({Key(u)}) = 1
    BY FS_Singleton
  <2>2. Cardinality({Key(u)} \cup {Key(v)}) = 2
    BY <1>5, <2>1, FS_AddElement
  <2>3. {Key(u)} \cup {Key(v)} = {Key(u), Key(v)}
    OBVIOUS
  <2>4. {Key(u), Key(v)} \in kSubset(2, Keys)
    BY <1>1, <2>2, <2>3 DEF kSubset
  <2>5. input.alike[{Key(u), Key(v)}] \in 0..Same
    BY <1>2, <2>4
  <2>6. Alike(u, v) = input.alike[{Key(u), Key(v)}] /\ Alike(v, u) = input.alike[{Key(v), Key(u)}]
    BY <1>5 DEF Alike
  <2>. QED
    BY <1>3, <2>5, <2>6
<1>. QED
  BY <1>4, <1>5

\* So is their similarity, which a unit has all of with itself.
LEMMA SimilarBothWays ==
    ASSUME ProgramOK, NEW u \in Units, NEW v \in Units
    PROVE  /\ Similarity(u, v) \in Nat /\ Similarity(u, v) = Similarity(v, u)
           /\ Similarity(u, u) = Same
           /\ <<u, v>> \in pairs => Similarity(u, v) \in {Same, Alike(u, v)}
<1>1. Alike(u, v) \in Nat /\ Alike(u, v) = Alike(v, u)
  BY AlikeBothWays DEF Same
<1>2. {<<u, v>>, <<v, u>>} = {<<v, u>>, <<u, v>>}
  OBVIOUS
<1>3. Same \in Nat
  BY DEF Same
<1>. HIDE DEF Same
<1>. QED
  BY <1>1, <1>2, <1>3 DEF Similarity

\* Units are ordered by content, then by index.
LEMMA UnitsOrdered ==
    ASSUME ProgramOK, NEW set \in SUBSET Units
    PROVE  Ordered({e \in set \X set : Before(e[1], e[2])}, set)
<1>1. \A u \in set : u \in Nat /\ Key(u) \in Nat
  BY UnitsKeyed
<1>. QED
  BY <1>1 DEF Ordered, Before

\* Sets of units are finite.
LEMMA UnitsFinite ==
    ASSUME NEW set \in SUBSET Units
    PROVE  IsFiniteSet(set) /\ Cardinality(set) \in Nat /\ (Cardinality(set) = 0 <=> set = {})
<1>1. IsFiniteSet(set)
  BY GroupingAssumption, FS_Subset DEF GroupingAssumption
<1>. QED
  BY <1>1, FS_CardinalityType, FS_EmptySet

\* Two units make a set of two or more.
LEMMA TwoUnits ==
    ASSUME NEW set \in SUBSET Units, NEW u \in set, NEW v \in set, u # v
    PROVE  Cardinality(set) >= 2
<1>1. IsFiniteSet(set) /\ Cardinality(set) \in Nat
  BY UnitsFinite
<1>2. IsFiniteSet(set \ {u}) /\ Cardinality(set \ {u}) = Cardinality(set) - 1
  BY <1>1, FS_RemoveElement
<1>3. Cardinality(set \ {u}) \in Nat /\ Cardinality(set \ {u}) # 0
  BY <1>2, FS_CardinalityType, FS_EmptySet
<1>. QED
  BY <1>1, <1>2, <1>3

(***************************************************************************)
(* The medoid and the worst pair.                                           *)
(***************************************************************************)

\* Of any number of candidates one is looked at (select_medoid).
LEMMA SomeSampled ==
    ASSUME NEW n \in Nat, n # 0
    PROVE  \E i \in 0 .. (n - 1) : i \in Sampled(n)
<1>1. SampleSize \in Nat /\ SampleSize # 0
  BY GroupingAssumption DEF GroupingAssumption
<1>2. CASE n <= SampleSize
  BY <1>1, <1>2 DEF Sampled
<1>3. CASE n > SampleSize /\ SampleSize = 1
  <2>1. (n - 1) \div 2 \in 0 .. (n - 1)
    BY <1>3
  <2>. QED
    BY <1>3, <2>1 DEF Sampled
<1>4. CASE n > SampleSize /\ SampleSize # 1
  <2>1. 0 \in 0 .. (SampleSize - 1) /\ 0 \in 0 .. (n - 1)
    BY <1>1
  <2>2. (0 * (n - 1)) \div (SampleSize - 1) = 0
    <3>1. 0 * (n - 1) = 0
      OBVIOUS
    <3>2. SampleSize - 1 \in Nat \ {0}
      BY <1>1, <1>4
    <3>3. \A k \in Nat \ {0} : 0 \div k = 0
      BY Z3
    <3>. QED
      BY <3>1, <3>2, <3>3
  <2>3. Sampled(n) = {(i * (n - 1)) \div (SampleSize - 1) : i \in 0 .. (SampleSize - 1)}
    BY <1>1, <1>4 DEF Sampled
  <2>4. 0 \in Sampled(n)
    BY <2>1, <2>2, <2>3, Zenon
  <2>. QED
    BY <2>1, <2>4
<1>. QED
  BY <1>1, <1>2, <1>3, <1>4

\* A set that is not empty has candidates, and they are members of it.
LEMMA CandidatesExist ==
    ASSUME ProgramOK, NEW set \in SUBSET Units, set # {}
    PROVE  Candidates(set) \in SUBSET set /\ Candidates(set) # {}
<1>. DEFINE first == {u \in set : \A v \in set : Key(u) = Key(v) => u <= v}
<1>1. CASE Cardinality(set) <= SamplingThreshold
  BY <1>1 DEF Candidates
<1>2. CASE ~(Cardinality(set) <= SamplingThreshold)
  <2>1. Candidates(set) = {u \in first : Position(u, first) \in Sampled(Cardinality(first))}
    BY <1>2 DEF Candidates
  <2>2. first # {}
    <3>. DEFINE R == {e \in set \X set : Before(e[1], e[2])}
    <3>1. Ordered(R, set) /\ IsFiniteSet(set)
      BY UnitsOrdered, UnitsFinite
    <3>0. PICK u \in set : \A v \in set \ {u} : <<u, v>> \in R
      <4>. HIDE DEF R
      <4>. QED
        BY <3>1, LeastExists
    <3>2. u \in Nat /\ \A v \in set : v # u => Before(u, v)
      BY <3>0, UnitsKeyed
    <3>3. \A v \in set : v \in Nat /\ Key(v) \in Nat
      BY UnitsKeyed
    <3>. QED
      BY <3>2, <3>3 DEF Before
  <2>3. first \in SUBSET Units
    OBVIOUS
  <2>. DEFINE R == {e \in first \X first : Before(e[1], e[2])}
              n == Cardinality(first)
  <2>. HIDE DEF first
  <2>4. IsFiniteSet(first) /\ n \in Nat /\ n # 0 /\ Ordered(R, first)
    BY <2>2, <2>3, UnitsFinite, UnitsOrdered
  <2>5. PICK i \in 0 .. (n - 1) : i \in Sampled(n)
    BY <2>4, SomeSampled
  <2>6. PICK u \in first : Cardinality(Below(R, first, u)) = i
    <3>. HIDE DEF R
    <3>. QED
      BY <2>4, EveryPosition
  <2>7. Below(R, first, u) = {v \in first : Before(v, u)}
    BY DEF Below
  <2>8. Position(u, first) = i
    BY <2>6, <2>7 DEF Position
  <2>9. u \in Candidates(set)
    BY <2>1, <2>5, <2>8
  <2>. QED
    BY <2>1, <2>9 DEF first
<1>. QED
  BY <1>1, <1>2

\* What a unit has in common with a set is a number.
LEMMA TotalIsNumber ==
    ASSUME ProgramOK, NEW set \in SUBSET Units, NEW u \in Units
    PROVE  Total(u, set) \in Nat
<1>. DEFINE points == {s \in (set \ {u}) \X (1..Same) : s[2] <= Similarity(u, s[1])}
<1>1. IsFiniteSet(set \ {u}) /\ IsFiniteSet(1..Same)
  <2>1. set \ {u} \in SUBSET Units
    OBVIOUS
  <2>2. IsFiniteSet(set \ {u})
    BY <2>1, UnitsFinite
  <2>3. 1 \in Int /\ Same \in Int
    BY DEF Same
  <2>. QED
    BY <2>2, <2>3, FS_Interval
<1>2. IsFiniteSet((set \ {u}) \X (1..Same))
  BY <1>1, FS_Product
<1>3. points \in SUBSET ((set \ {u}) \X (1..Same))
  OBVIOUS
<1>4. IsFiniteSet(points)
  BY <1>2, <1>3, FS_Subset
<1>. QED
  BY <1>4, FS_CardinalityType DEF Total

\* The medoid of a set is a member of it.
LEMMA MedoidIsMember ==
    ASSUME ProgramOK, NEW set \in SUBSET Units, set # {}
    PROVE  Medoid(set) \in set
<1>. DEFINE all == Candidates(set)
            Better(u, v) == Total(u, set) > Total(v, set) \/ (Total(u, set) = Total(v, set) /\ Before(u, v))
            R == {e \in all \X all : Better(e[1], e[2])}
<1>1. all \in SUBSET set /\ all # {} /\ all \in SUBSET Units
  BY CandidatesExist
<1>2. \A u \in all : u \in Nat /\ Key(u) \in Nat /\ Total(u, set) \in Nat
  BY <1>1, UnitsKeyed, TotalIsNumber
<1>3. Ordered(R, all)
  <2>. HIDE DEF all
  <2>1. \A u \in all : ~Better(u, u)
    BY <1>2 DEF Before
  <2>2. \A u, v, w \in all : Better(u, v) /\ Better(v, w) => Better(u, w)
    BY <1>2 DEF Before
  <2>3. \A u, v \in all : u = v \/ Better(u, v) \/ Better(v, u)
    BY <1>2 DEF Before
  <2>. HIDE DEF Better
  <2>. QED
    BY <2>1, <2>2, <2>3 DEF Ordered
<1>4. IsFiniteSet(all)
  BY <1>1, UnitsFinite
<1>5. \E u \in all : \A v \in all \ {u} : Better(u, v)
  <2>1. PICK u \in all : \A v \in all \ {u} : <<u, v>> \in R
    BY <1>1, <1>3, <1>4, LeastExists
  <2>. QED
    BY <2>1
<1>6. Medoid(set) \in all
  BY <1>5 DEF Medoid
<1>. QED
  BY <1>1, <1>6

Listed == {p \in part.kept \X part.kept : Before(p[1], p[2])}

\* The worst pair is one of those listed, and no other is less alike.
LEMMA WorstIsWorst ==
    ASSUME ProgramOK, part.kept \in SUBSET Units, Cardinality(part.kept) >= 2
    PROVE  /\ WorstPair \in Listed
           /\ \A p \in Listed : Similarity(WorstPair[1], WorstPair[2]) <= Similarity(p[1], p[2])
<1>. DEFINE R == {e \in Listed \X Listed : Worse(e[1], e[2])}
<1>1. \A p \in Listed : /\ p[1] \in part.kept /\ p[2] \in part.kept /\ p = <<p[1], p[2]>>
                        /\ p[1] \in Nat /\ p[2] \in Nat
                        /\ Key(p[1]) \in Nat /\ Key(p[2]) \in Nat
                        /\ Similarity(p[1], p[2]) \in Nat
  BY UnitsKeyed, SimilarBothWays DEF Listed
<1>2. Ordered(R, Listed)
  <2>1. \A p \in Listed : ~Worse(p, p)
    BY <1>1 DEF Worse
  <2>2. \A p, q, r \in Listed : Worse(p, q) /\ Worse(q, r) => Worse(p, r)
    BY <1>1 DEF Worse
  <2>3. \A p, q \in Listed : p = q \/ Worse(p, q) \/ Worse(q, p)
    <3>1. \A p, q \in Listed : p[1] = q[1] /\ p[2] = q[2] => p = q
      BY <1>1, Zenon
    <3>. QED
      BY <1>1, <3>1 DEF Worse
  <2>. QED
    BY <2>1, <2>2, <2>3 DEF Ordered
<1>3. IsFiniteSet(Listed)
  <2>1. IsFiniteSet(part.kept \X part.kept)
    BY UnitsFinite, FS_Product
  <2>2. Listed \in SUBSET (part.kept \X part.kept)
    BY DEF Listed
  <2>. QED
    BY <2>1, <2>2, FS_Subset
<1>4. Listed # {}
  <2>1. PICK u \in part.kept, v \in part.kept : u # v
    <3>1. ASSUME \A u, v \in part.kept : u = v
          PROVE  FALSE
      <4>0. PICK u \in part.kept : TRUE
        BY UnitsFinite
      <4>1. part.kept = {u}
        BY <3>1, <4>0
      <4>. QED
        BY <4>1, FS_Singleton
    <3>. QED
      BY <3>1
  <2>2. u \in Nat /\ v \in Nat /\ Key(u) \in Nat /\ Key(v) \in Nat
    BY UnitsKeyed
  <2>3. Before(u, v) \/ Before(v, u)
    BY <2>1, <2>2 DEF Before
  <2>4. <<u, v>> \in part.kept \X part.kept /\ <<v, u>> \in part.kept \X part.kept
    OBVIOUS
  <2>. QED
    BY <2>3, <2>4 DEF Listed
<1>5. \E p \in Listed : \A q \in Listed \ {p} : Worse(p, q)
  <2>1. PICK p \in Listed : \A q \in Listed \ {p} : <<p, q>> \in R
    BY <1>2, <1>3, <1>4, LeastExists
  <2>. QED
    BY <2>1
<1>6. WorstPair \in Listed /\ \A q \in Listed \ {WorstPair} : Worse(WorstPair, q)
  BY <1>5, Zenon DEF WorstPair, Listed
<1>7. ASSUME NEW p \in Listed
      PROVE  Similarity(WorstPair[1], WorstPair[2]) <= Similarity(p[1], p[2])
  BY <1>1, <1>6 DEF Worse
<1>. QED
  BY <1>6, <1>7

(***************************************************************************)
(* Components and pieces.                                                   *)
(***************************************************************************)

\* S holds u, and no pair leads out of it.
ClosedFrom(u, S) == u \in S /\ \A p \in pairs : p[1] \in S <=> p[2] \in S

\* A component is the least closed set.
LEMMA ComponentIsLeast ==
    ASSUME NEW u
    PROVE  Component(u) = {v \in Units : \A S \in SUBSET Units : ClosedFrom(u, S) => v \in S}
BY DEF Component, ClosedFrom

\* What a component holds connects to whatever it was grown from.
LEMMA ComponentIsMutual ==
    ASSUME pairs \subseteq UnitPairs(Units), NEW u \in Units, NEW v \in Component(u)
    PROVE  Component(u) = Component(v)
<1>1. v \in Units
  BY ComponentIsLeast
<1>2. ASSUME NEW a \in Units, NEW b \in Component(a)
      PROVE  Component(b) \in SUBSET Component(a)
  <2>1. ASSUME NEW w \in Component(b), NEW S \in SUBSET Units, ClosedFrom(a, S)
        PROVE  w \in S
    <3>1. ClosedFrom(b, S)
      BY <2>1, <1>2, ComponentIsLeast DEF ClosedFrom
    <3>. QED
      BY <2>1, <3>1, ComponentIsLeast
  <2>. QED
    BY <2>1, ComponentIsLeast
<1>3. u \in Component(v)
  <2>1. ASSUME NEW S \in SUBSET Units, ClosedFrom(v, S), u \notin S
        PROVE  FALSE
    <3>1. \A p \in pairs : p[1] \in Units /\ p[2] \in Units
      BY DEF UnitPairs
    <3>2. ClosedFrom(u, Units \ S)
      BY <2>1, <3>1 DEF ClosedFrom
    <3>3. v \in Units \ S
      BY <3>2, ComponentIsLeast
    <3>. QED
      BY <2>1, <3>3 DEF ClosedFrom
  <2>. QED
    BY <2>1, ComponentIsLeast
<1>. QED
  BY <1>1, <1>2, <1>3

\* Components are sets of units, which no two share, and hold both ends of
\* every pair (connected_components).
LEMMA ComponentsDivide ==
    ASSUME pairs \subseteq UnitPairs(Units)
    PROVE  /\ \A c \in Components : c \in SUBSET Units /\ c # {}
           /\ \A c, d \in Components : c = d \/ c \cap d = {}
           /\ \A p \in pairs : \E c \in Components : p[1] \in c /\ p[2] \in c
<1>1. \A p \in pairs : p[1] \in Units /\ p[2] \in Units
  BY DEF UnitPairs
<1>2. ASSUME NEW u \in Units
      PROVE  Component(u) \in SUBSET Units /\ u \in Component(u)
  BY ComponentIsLeast DEF ClosedFrom
<1>3. \A c \in Components : \E u \in Units : c = Component(u)
  BY <1>1 DEF Components
<1>4. ASSUME NEW c \in Components, NEW d \in Components, c \cap d # {}
      PROVE  c = d
  <2>1. PICK u \in Units, v \in Units : c = Component(u) /\ d = Component(v)
    BY <1>3
  <2>2. PICK w : w \in Component(u) /\ w \in Component(v)
    BY <1>4, <2>1
  <2>. QED
    BY <2>1, <2>2, ComponentIsMutual
<1>5. ASSUME NEW p \in pairs
      PROVE  \E c \in Components : p[1] \in c /\ p[2] \in c
  <2>1. p[2] \in Component(p[1])
    BY <1>1, ComponentIsLeast DEF ClosedFrom
  <2>2. Component(p[1]) \in Components
    BY DEF Components
  <2>. QED
    BY <1>1, <1>2, <2>1, <2>2
<1>. QED
  BY <1>2, <1>3, <1>4, <1>5

\* The ceiling is a number.
LEMMA LimitIsNumber ==
    ASSUME ProgramOK
    PROVE  Limit \in Nat
<1>1. input.trials \in Seq(Allowances)
  BY GroupingAssumption DEF GroupingAssumption, ProgramOK
<1>2. Allowed \in Allowances
  BY <1>1 DEF Allowed, ProgramOK
<1>3. Allowed.limit \in Nat
  BY <1>2 DEF Allowances
<1>4. \E x \in {Allowed.limit, 2} : \A y \in {Allowed.limit, 2} : x >= y
  BY <1>3
<1>5. Limit \in {Allowed.limit, 2}
  BY <1>4 DEF Limit, Max
<1>. QED
  BY <1>3, <1>5

\* Pieces divide a component, and only one above the ceiling is cut
\* (refinable_pieces).
LEMMA PiecesDivide ==
    ASSUME NEW c \in SUBSET Units, c # {}
    PROVE  /\ \A S \in Pieces(c) : S \in SUBSET c /\ S # {}
           /\ \A S, T \in Pieces(c) : S = T \/ S \cap T = {}
           /\ \A u \in c : \E S \in Pieces(c) : u \in S
           /\ Cardinality(c) <= Limit => Pieces(c) = {c}
<1>1. CASE Cardinality(c) <= Limit
  BY <1>1 DEF Pieces
<1>2. CASE ~(Cardinality(c) <= Limit)
  <2>1. PICK start : Pieces(c) = {{v \in c : start[v] = start[u]} : u \in c}
    BY <1>2 DEF Pieces
  <2>2. \A u \in c : u \in {v \in c : start[v] = start[u]}
    OBVIOUS
  <2>. QED
    BY <1>2, <2>1, <2>2
<1>. QED
  BY <1>1, <1>2

(***************************************************************************)
(* The invariant.                                                          *)
(***************************************************************************)

InHand == part.kept \cup part.rest
Carved == {"refine", "trim", "report", "done"}

PhasesOK ==
    /\ phase \in Phases
    /\ phase \notin Carved => todo = {} /\ groups = {} /\ pieces = {}
    /\ phase \in {"report", "done"} => todo = {}
    /\ phase # "verify" => \A p \in pairs : Alike(p[1], p[2]) >= Accept
    /\ phase = "report" => reports[trial] = Findings

\* What is kept is close to the medoid; where that is all, the rest is far.
PartOK ==
    IF phase = "trim"
    THEN /\ part \in [medoid : Units, kept : SUBSET Units, rest : SUBSET Units]
         /\ part.medoid \in part.kept
         /\ \A u \in part.kept : Similarity(u, part.medoid) >= Floor
         /\ part.kept = {part.medoid} => \A u \in part.rest : Similarity(u, part.medoid) < Floor
    ELSE part = Idle

\* No unit is in two places.
Divided ==
    /\ \A S, T \in todo : S = T \/ S \cap T = {}
    /\ \A g, h \in groups : g = h \/ g.members \cap h.members = {}
    /\ \A S \in todo, g \in groups : S \cap g.members = {}
    /\ \A S \in todo : S \cap InHand = {}
    /\ \A g \in groups : g.members \cap InHand = {}
    /\ part.kept \cap part.rest = {}

SetsOK == \A S \in todo \cup pieces : S \in SUBSET Units /\ S # {}

GroupsOK ==
    \A g \in groups :
        /\ g.members \in SUBSET Units /\ g.medoid \in g.members /\ Cardinality(g.members) >= 2
        /\ \A u, v \in g.members : Similarity(u, v) >= Floor

\* A pair was cut, has an end in a group, or is still ahead.
Tracked(p) ==
    \/ Severed(p)
    \/ \E g \in groups : Ends(p) \cap g.members # {}
    \/ \E S \in todo : Ends(p) \subseteq S
    \/ Ends(p) \subseteq InHand

GroupingInv ==
    /\ ProgramOK
    /\ pairs \subseteq UnitPairs(Units)
    /\ reports = [t \in DOMAIN input.trials |-> reports[t]]
    /\ PhasesOK
    /\ PartOK
    /\ Divided
    /\ SetsOK
    /\ GroupsOK
    /\ phase \in Carved => \A p \in pairs : Tracked(p)

\* What is read of the program is the same while it and the trial are.
LEMMA SameReading ==
    ASSUME UNCHANGED <<input, trial>>
    PROVE  /\ ProgramOK' <=> ProgramOK
           /\ \A u, v : Key(u)' = Key(u) /\ Alike(u, v)' = Alike(u, v)
           /\ \A u : Around(u)' = Around(u) /\ Declaration(u)' = Declaration(u)
           /\ \A g : Bytes(g)' = Bytes(g)
<1>1. \A u : Key(u)' = Key(u)
  BY DEF Key, Place, Allowed
<1>2. \A u, v : Alike(u, v)' = Alike(u, v)
  BY <1>1 DEF Alike
<1>3. \A u : Around(u)' = Around(u) /\ Declaration(u)' = Declaration(u)
  BY DEF Around, Declaration, Place, Allowed
<1>4. \A g : Bytes(g)' = Bytes(g)
  BY DEF Bytes, Place, Allowed
<1>5. ProgramOK' <=> ProgramOK
  BY DEF ProgramOK
<1>. QED
  BY <1>1, <1>2, <1>3, <1>4, <1>5

\* So is how similar two units are, while the pairs are.
LEMMA SameSimilarity ==
    ASSUME UNCHANGED <<input, trial, pairs>>
    PROVE  \A u, v : Similarity(u, v)' = Similarity(u, v)
BY SameReading DEF Similarity

\* And what is found, while the pieces and the groups are.
LEMMA SameFindings ==
    ASSUME UNCHANGED <<input, trial, pairs, pieces, groups>>
    PROVE  Findings' = Findings
<1>1. \A set : KeysOf(set)' = KeysOf(set)
  BY SameReading DEF KeysOf
<1>2. \A p : Unrepresented(p)' <=> Unrepresented(p)
  BY DEF Unrepresented, Severed
<1>3. \A h, g : AccountsFor(h, g)' <=> AccountsFor(h, g)
  BY <1>1, SameReading DEF AccountsFor, Class
<1>4. Folded' = Folded
  BY <1>3 DEF Folded
<1>5. GroupFindings' = GroupFindings
  BY <1>1, <1>4, SameReading DEF GroupFindings
<1>6. \A p : Described(p)' <=> Described(p)
  <2>1. \A u, v : Encloses(u, v)' <=> Encloses(u, v)
    BY SameReading DEF Encloses
  <2>2. \A g, p : Describes(g, p)' <=> Describes(g, p)
    BY <2>1 DEF Describes, Ends
  <2>. QED
    BY <2>2 DEF Described
<1>7. PairFindings' = PairFindings
  BY <1>1, <1>2, <1>6 DEF PairFindings
<1>. QED
  BY <1>5, <1>7 DEF Findings

(***************************************************************************)
(* Steps.                                                                  *)
(***************************************************************************)

\* No pair yet.
LEMMA GroupingInvInit == GroupingInit => GroupingInv
<1>. SUFFICES ASSUME GroupingInit PROVE GroupingInv
  OBVIOUS
<1>1. input \in Inputs /\ trial = 1
  BY DEF GroupingInit
<1>2. trial \in DOMAIN input.trials
  <2>1. input.trials \in Seq(Allowances) /\ input.trials # <<>>
    BY <1>1, GroupingAssumption DEF GroupingAssumption
  <2>2. Len(input.trials) \in Nat /\ Len(input.trials) # 0 /\ DOMAIN input.trials = 1..Len(input.trials)
    BY <2>1
  <2>. QED
    BY <1>1, <2>2
<1>3. /\ pairs = {} /\ pieces = {} /\ todo = {} /\ groups = {} /\ part = Idle
      /\ phase = "propose" /\ reports = [t \in DOMAIN input.trials |-> {}]
  BY DEF GroupingInit
<1>4. \A t \in DOMAIN input.trials : reports[t] = {}
  BY <1>3
<1>. QED
  BY <1>1, <1>2, <1>3, <1>4
  DEF GroupingInv, ProgramOK, PhasesOK, Phases, Carved, PartOK, Divided, InHand, Idle, SetsOK, GroupsOK

\* Candidate pairs are pairs of units.
LEMMA ProposeKeepsInv == GroupingInv /\ Propose => GroupingInv'
<1>. SUFFICES ASSUME GroupingInv, Propose PROVE GroupingInv'
  OBVIOUS
<1>1. pairs' \subseteq UnitPairs(Units)
  <2>1. \A list : UnitPairs(Postings(list)) \subseteq UnitPairs(Units)
    BY DEF UnitPairs, Postings
  <2>. QED
    BY <2>1 DEF Propose
<1>2. /\ UNCHANGED <<input, trial, pieces, todo, part, groups, reports>>
      /\ phase = "propose" /\ phase' = "verify"
  BY DEF Propose
<1>. QED
  BY <1>1, <1>2 DEF GroupingInv, ProgramOK, PhasesOK, Phases, Carved, PartOK, Divided, InHand, SetsOK, GroupsOK

\* What is left of them is alike enough.
LEMMA VerifyKeepsInv == GroupingInv /\ Verify => GroupingInv'
<1>. SUFFICES ASSUME GroupingInv, Verify PROVE GroupingInv'
  OBVIOUS
<1>1. pairs' \subseteq pairs /\ \A p \in pairs' : Alike(p[1], p[2]) >= Accept
  BY DEF Verify
<1>2. /\ UNCHANGED <<input, trial, pieces, todo, part, groups, reports>>
      /\ phase = "verify" /\ phase' = "carve"
  BY DEF Verify
<1>3. \A p \in pairs' : Alike(p[1], p[2])' >= Accept
  BY <1>1, <1>2, SameReading
<1>4. pairs' \subseteq UnitPairs(Units)
  BY <1>1 DEF GroupingInv
<1>. QED
  BY <1>2, <1>3, <1>4
  DEF GroupingInv, ProgramOK, PhasesOK, Phases, Carved, PartOK, Divided, InHand, SetsOK, GroupsOK

\* The pieces of all components divide the units, and hold both ends of every
\* pair the ceiling did not cut.
LEMMA CarveKeepsInv == GroupingInv /\ Carve => GroupingInv'
<1>. SUFFICES ASSUME GroupingInv, Carve PROVE GroupingInv'
  OBVIOUS
<1>1. /\ UNCHANGED <<input, trial, pairs, part, groups, reports>>
      /\ phase = "carve" /\ phase' = "refine"
      /\ todo' = UNION {Pieces(c) : c \in Components}
      /\ pieces' = UNION {Pieces(c) : c \in {c \in Components : Cardinality(c) > Limit}}
  BY DEF Carve
<1>2. /\ part = Idle /\ groups = {} /\ ProgramOK /\ pairs \subseteq UnitPairs(Units)
      /\ \A p \in pairs : Alike(p[1], p[2]) >= Accept
      /\ reports = [t \in DOMAIN input.trials |-> reports[t]]
  BY <1>1 DEF GroupingInv, PartOK, PhasesOK, Carved
<1>3. ASSUME NEW c \in Components
      PROVE  /\ c \in SUBSET Units /\ c # {}
             /\ \A S \in Pieces(c) : S \in SUBSET c /\ S # {}
             /\ \A S, T \in Pieces(c) : S = T \/ S \cap T = {}
             /\ \A u \in c : \E S \in Pieces(c) : u \in S
             /\ Cardinality(c) <= Limit => Pieces(c) = {c}
  BY <1>2, ComponentsDivide, PiecesDivide
<1>4. \A S \in todo' : \E c \in Components : S \in Pieces(c)
  BY <1>1
<1>5. \A S \in todo' \cup pieces' : S \in SUBSET Units /\ S # {}
  BY <1>1, <1>3
<1>6. ASSUME NEW S \in todo', NEW T \in todo', S \cap T # {}
      PROVE  S = T
  <2>1. PICK c \in Components, d \in Components : S \in Pieces(c) /\ T \in Pieces(d)
    BY <1>4
  <2>2. S \in SUBSET c /\ T \in SUBSET d
    BY <2>1, <1>3
  <2>3. c \cap d # {}
    BY <1>6, <2>2
  <2>4. c = d
    BY <1>2, <2>3, ComponentsDivide
  <2>. QED
    BY <1>3, <1>6, <2>1, <2>4
<1>7. ASSUME NEW p \in pairs
      PROVE  Severed(p)' \/ \E S \in todo' : Ends(p) \subseteq S
  <2>1. PICK c \in Components : p[1] \in c /\ p[2] \in c
    BY <1>2, ComponentsDivide
  <2>2. PICK S \in Pieces(c), T \in Pieces(c) : p[1] \in S /\ p[2] \in T
    BY <2>1, <1>3
  <2>3. CASE S = T
    <3>1. S \in todo'
      BY <1>1
    <3>. QED
      BY <2>2, <2>3, <3>1 DEF Ends
  <2>4. CASE S # T
    <3>1. ~(Cardinality(c) <= Limit)
      BY <1>3, <2>4
    <3>2. Cardinality(c) > Limit
      BY <3>1, LimitIsNumber, UnitsFinite, <1>2, <1>3
    <3>3. S \in pieces' /\ T \in pieces'
      BY <1>1, <3>2
    <3>. QED
      BY <2>2, <2>4, <3>3 DEF Severed
  <2>. QED
    BY <2>3, <2>4
<1>8. \A p \in pairs' : Tracked(p)'
  BY <1>1, <1>7 DEF Tracked, Ends
<1>9. PhasesOK'
  <2>1. \A u, v : Alike(u, v)' = Alike(u, v)
    BY <1>1, SameReading
  <2>. QED
    BY <1>1, <1>2, <2>1 DEF PhasesOK, Phases, Carved
<1>10. Divided'
  BY <1>1, <1>2, <1>6 DEF Divided, InHand, Idle
<1>11. PartOK' /\ GroupsOK' /\ SetsOK' /\ ProgramOK' /\ pairs' \subseteq UnitPairs(Units)
       /\ reports' = [t \in DOMAIN input'.trials |-> reports'[t]]
  BY <1>1, <1>2, <1>5, SameReading DEF PartOK, Idle, GroupsOK, SetsOK
<1>. QED
  BY <1>8, <1>9, <1>10, <1>11 DEF GroupingInv

\* A set of one unit holds no pair.
LEMMA PairsNeedTwo ==
    ASSUME pairs \subseteq UnitPairs(Units), NEW p \in pairs, NEW set \in SUBSET Units, Ends(p) \subseteq set
    PROVE  Cardinality(set) >= 2
<1>1. p[1] < p[2] /\ p[1] \in set /\ p[2] \in set
  BY DEF UnitPairs, Ends
<1>2. \A u \in Units : u \in Nat
  BY GroupingAssumption, FS_CardinalityType DEF GroupingAssumption, Size
<1>3. p[1] # p[2]
  BY <1>1, <1>2
<1>. QED
  BY <1>1, <1>3, TwoUnits

\* One set is taken in hand; what is close to its medoid is kept.
LEMMA RefineKeepsInv == GroupingInv /\ Refine => GroupingInv'
<1>. SUFFICES ASSUME GroupingInv, Refine PROVE GroupingInv'
  OBVIOUS
<1>1. PICK set \in todo :
        /\ todo' = todo \ {set}
        /\ IF Cardinality(set) < 2 THEN UNCHANGED <<part, phase>>
           ELSE LET medoid == Medoid(set)
                    kept == {u \in set : Similarity(u, medoid) >= Floor}
                IN /\ part' = [medoid |-> medoid, kept |-> kept, rest |-> set \ kept]
                   /\ phase' = "trim"
  BY DEF Refine
<1>2. UNCHANGED <<input, trial, pairs, pieces, groups, reports>> /\ phase = "refine"
  BY DEF Refine
<1>3. /\ part = Idle /\ set \in SUBSET Units /\ set # {} /\ ProgramOK
      /\ pairs \subseteq UnitPairs(Units)
  BY <1>2 DEF GroupingInv, PartOK, SetsOK
<1>4. /\ \A u, v : Similarity(u, v)' = Similarity(u, v) /\ Alike(u, v)' = Alike(u, v)
      /\ ProgramOK' /\ Findings' = Findings
  BY <1>2, <1>3, SameSimilarity, SameReading, SameFindings
<1>5. /\ pairs' \subseteq UnitPairs(Units) /\ SetsOK' /\ GroupsOK'
      /\ reports' = [t \in DOMAIN input'.trials |-> reports'[t]]
  BY <1>1, <1>2, <1>4 DEF GroupingInv, SetsOK, GroupsOK
<1>6. CASE Cardinality(set) < 2
  <2>1. part' = part /\ phase' = phase
    BY <1>1, <1>6
  <2>2. ASSUME NEW p \in pairs, Tracked(p)
        PROVE  Tracked(p)'
    <3>1. ~(Ends(p) \subseteq set)
      BY <1>3, <1>6, PairsNeedTwo, UnitsFinite
    <3>. QED
      BY <1>1, <1>2, <2>1, <2>2, <3>1 DEF Tracked, Severed, InHand, Ends
  <2>3. PhasesOK' /\ PartOK' /\ Divided'
    BY <1>1, <1>2, <1>3, <1>4, <2>1 DEF GroupingInv, PhasesOK, Carved, PartOK, Divided, InHand
  <2>. QED
    BY <1>2, <1>4, <1>5, <2>1, <2>2, <2>3 DEF GroupingInv, Carved
<1>7. CASE ~(Cardinality(set) < 2)
  <2>. DEFINE medoid == Medoid(set)
              kept == {u \in set : Similarity(u, medoid) >= Floor}
  <2>1. part' = [medoid |-> medoid, kept |-> kept, rest |-> set \ kept] /\ phase' = "trim"
    BY <1>1, <1>7
  <2>2. medoid \in set
    BY <1>3, MedoidIsMember
  <2>3. \A u \in set : Similarity(u, medoid) \in Nat /\ Similarity(u, u) = Same
    BY <1>3, <2>2, SimilarBothWays
  <2>4. Floor \in Nat /\ Floor <= Same
    BY GroupingAssumption DEF GroupingAssumption, Same
  <2>. HIDE DEF medoid
  <2>5. medoid \in kept
    BY <2>2, <2>3, <2>4 DEF Same
  <2>6. PartOK'
    <3>1. part' \in [medoid : Units, kept : SUBSET Units, rest : SUBSET Units]
      BY <1>3, <2>1, <2>2
    <3>2. \A u \in part'.rest : Similarity(u, medoid) < Floor
      BY <2>1, <2>3, <2>4
    <3>. QED
      BY <1>4, <2>1, <2>5, <3>1, <3>2 DEF PartOK
  <2>7. InHand' = set
    BY <2>1 DEF InHand
  <2>8. Divided'
    <3>1. part'.kept \cap part'.rest = {}
      BY <2>1
    <3>. QED
      BY <1>1, <1>2, <2>7, <3>1 DEF GroupingInv, Divided
  <2>9. PhasesOK'
    BY <1>1, <1>2, <1>4, <2>1 DEF GroupingInv, PhasesOK, Carved, Phases
  <2>10. ASSUME NEW p \in pairs, Tracked(p)
         PROVE  Tracked(p)'
    BY <1>1, <1>2, <1>3, <2>7, <2>10 DEF Tracked, Severed, InHand, Idle, Ends
  <2>. QED
    BY <1>2, <1>4, <1>5, <2>6, <2>8, <2>9, <2>10 DEF GroupingInv, Carved
<1>. QED
  BY <1>6, <1>7

\* The victim of a loose pair is kept, and not the medoid; two or more are left.
LEMMA VictimIsLeft ==
    ASSUME GroupingInv, phase = "trim", Loose, NEW victim, victim = Victim(WorstPair[1], WorstPair[2])
    PROVE  victim \in part.kept /\ victim # part.medoid /\ part.kept \ {victim} # {part.medoid}
<1>1. /\ ProgramOK /\ part.kept \in SUBSET Units /\ part.medoid \in part.kept /\ part.medoid \in Units
      /\ \A u \in part.kept : Similarity(u, part.medoid) >= Floor
  BY DEF GroupingInv, PartOK
<1>2. Cardinality(part.kept) >= 2 /\ Similarity(WorstPair[1], WorstPair[2]) < Floor
  BY DEF Loose
<1>. DEFINE a == WorstPair[1]
            b == WorstPair[2]
<1>3. WorstPair \in Listed
  BY <1>1, <1>2, WorstIsWorst
<1>4. a \in part.kept /\ b \in part.kept /\ Before(a, b)
  BY <1>3 DEF Listed
<1>5. a # b
  <2>1. a \in Nat /\ Key(a) \in Nat
    BY <1>1, <1>4, UnitsKeyed
  <2>. QED
    BY <1>4, <2>1 DEF Before
<1>. HIDE DEF a, b
<1>6. Similarity(a, b) < Floor
  BY <1>2 DEF a, b
<1>7. a # part.medoid /\ b # part.medoid
  <2>1. /\ Similarity(a, b) = Similarity(b, a) /\ Similarity(a, b) \in Nat
    BY <1>1, <1>4, SimilarBothWays
  <2>2. Floor \in Nat
    BY GroupingAssumption DEF GroupingAssumption, Same
  <2>. QED
    BY <1>1, <1>4, <1>6, <2>1, <2>2
<1>8. victim \in {a, b}
  BY DEF Victim, a, b
<1>. QED
  BY <1>1, <1>4, <1>5, <1>7, <1>8

\* The victim goes from what is kept to what is ejected.
LEMMA TrimKeepsInv == GroupingInv /\ Trim => GroupingInv'
<1>. SUFFICES ASSUME GroupingInv, Trim PROVE GroupingInv'
  OBVIOUS
<1>. DEFINE victim == Victim(WorstPair[1], WorstPair[2])
<1>1. /\ part' = [part EXCEPT !.kept = part.kept \ {victim}, !.rest = part.rest \cup {victim}]
      /\ UNCHANGED <<input, trial, phase, pairs, pieces, todo, groups, reports>>
      /\ phase = "trim" /\ Loose
  BY DEF Trim
<1>2. victim \in part.kept /\ victim # part.medoid /\ part.kept \ {victim} # {part.medoid}
  BY <1>1, VictimIsLeft
<1>. HIDE DEF victim
<1>3. /\ part \in [medoid : Units, kept : SUBSET Units, rest : SUBSET Units]
      /\ part.medoid \in part.kept
      /\ \A u \in part.kept : Similarity(u, part.medoid) >= Floor
  BY <1>1 DEF GroupingInv, PartOK
<1>4. /\ part' \in [medoid : Units, kept : SUBSET Units, rest : SUBSET Units]
      /\ part'.medoid = part.medoid
      /\ part'.kept = part.kept \ {victim} /\ part'.rest = part.rest \cup {victim}
  BY <1>1, <1>2, <1>3
<1>5. InHand' = InHand
  BY <1>2, <1>4 DEF InHand
<1>6. /\ \A u, v : Similarity(u, v)' = Similarity(u, v) /\ Alike(u, v)' = Alike(u, v)
      /\ ProgramOK' /\ Findings' = Findings
  BY <1>1, SameSimilarity, SameReading, SameFindings DEF GroupingInv
<1>7. PartOK'
  BY <1>1, <1>2, <1>3, <1>4, <1>6 DEF PartOK
<1>8. Divided'
  BY <1>1, <1>4, <1>5 DEF GroupingInv, Divided
<1>9. PhasesOK' /\ SetsOK' /\ GroupsOK'
  BY <1>1, <1>6 DEF GroupingInv, PhasesOK, Carved, SetsOK, GroupsOK
<1>10. \A p \in pairs : Tracked(p) => Tracked(p)'
  BY <1>1, <1>5 DEF Tracked, Severed, Ends
<1>. QED
  BY <1>1, <1>6, <1>7, <1>8, <1>9, <1>10 DEF GroupingInv, Carved

\* What is kept is alike when no pair of it is loose.
LEMMA KeptIsCohesive ==
    ASSUME GroupingInv, phase = "trim", ~Loose, Cardinality(part.kept) >= 2
    PROVE  \A u, v \in part.kept : Similarity(u, v) >= Floor
<1>1. ProgramOK /\ part.kept \in SUBSET Units
  BY DEF GroupingInv, PartOK
<1>2. Floor \in Nat /\ Floor <= Same
  BY GroupingAssumption DEF GroupingAssumption, Same
<1>3. WorstPair \in Listed /\ \A p \in Listed : Similarity(WorstPair[1], WorstPair[2]) <= Similarity(p[1], p[2])
  BY <1>1, WorstIsWorst
<1>4. WorstPair[1] \in Units /\ WorstPair[2] \in Units
  BY <1>1, <1>3 DEF Listed
<1>5. Similarity(WorstPair[1], WorstPair[2]) \in Nat
  BY <1>1, <1>4, SimilarBothWays
<1>6. Similarity(WorstPair[1], WorstPair[2]) >= Floor
  BY <1>2, <1>5 DEF Loose
<1>7. ASSUME NEW u \in part.kept, NEW v \in part.kept, Before(u, v)
      PROVE  Similarity(u, v) >= Floor
  <2>1. <<u, v>> \in Listed
    BY <1>7 DEF Listed
  <2>2. Similarity(WorstPair[1], WorstPair[2]) <= Similarity(u, v)
    BY <1>3, <2>1
  <2>3. Similarity(u, v) \in Nat
    BY <1>1, SimilarBothWays
  <2>. QED
    BY <1>2, <1>5, <1>6, <2>2, <2>3
<1>8. ASSUME NEW u \in part.kept, NEW v \in part.kept
      PROVE  Similarity(u, v) >= Floor
  <2>1. /\ Similarity(u, v) = Similarity(v, u) /\ Similarity(u, u) = Same
        /\ u \in Nat /\ v \in Nat /\ Key(u) \in Nat /\ Key(v) \in Nat
    BY <1>1, SimilarBothWays, UnitsKeyed
  <2>2. u = v \/ Before(u, v) \/ Before(v, u)
    BY <2>1 DEF Before
  <2>. QED
    BY <1>2, <1>7, <2>1, <2>2 DEF Same
<1>. QED
  BY <1>8

\* What is kept is a group, where it is more than one; what was ejected is
\* refined again.
LEMMA BuildKeepsInv == GroupingInv /\ Build => GroupingInv'
<1>. SUFFICES ASSUME GroupingInv, Build PROVE GroupingInv'
  OBVIOUS
<1>. DEFINE few == Cardinality(part.kept) < 2
            group == [medoid |-> part.medoid, members |-> part.kept]
<1>1. /\ groups' = groups \cup IF few THEN {} ELSE {group}
      /\ todo' = todo \cup ({part.rest} \ {{}})
      /\ part' = Idle /\ phase' = "refine" /\ phase = "trim" /\ ~Loose
      /\ UNCHANGED <<input, trial, pairs, pieces, reports>>
  BY DEF Build
<1>2. /\ ProgramOK /\ pairs \subseteq UnitPairs(Units)
      /\ part.medoid \in part.kept /\ part.kept \in SUBSET Units /\ part.rest \in SUBSET Units
      /\ part.kept = {part.medoid} => \A u \in part.rest : Similarity(u, part.medoid) < Floor
  BY <1>1 DEF GroupingInv, PartOK
<1>3. \A u, v : Similarity(u, v)' = Similarity(u, v) /\ Alike(u, v)' = Alike(u, v)
  BY <1>1, SameSimilarity, SameReading
<1>4. ProgramOK'
  BY <1>1, <1>2, SameReading
<1>5. SetsOK'
  BY <1>1, <1>2 DEF GroupingInv, SetsOK
<1>6. GroupsOK'
  <2>1. ASSUME ~few
        PROVE  /\ group.members \in SUBSET Units /\ group.medoid \in group.members
               /\ Cardinality(group.members) >= 2
               /\ \A u, v \in group.members : Similarity(u, v) >= Floor
    <3>1. Cardinality(part.kept) >= 2
      BY <1>2, <2>1, UnitsFinite
    <3>. QED
      BY <1>1, <1>2, <3>1, KeptIsCohesive
  <2>. QED
    BY <1>1, <1>3, <2>1 DEF GroupingInv, GroupsOK
<1>7. Divided'
  <2>1. InHand' = {} /\ part'.kept \cap part'.rest = {}
    BY <1>1 DEF InHand, Idle
  <2>2. \A S \in todo : S \cap part.rest = {} /\ S \cap part.kept = {}
    BY DEF GroupingInv, Divided, InHand
  <2>3. \A g \in groups : g.members \cap part.rest = {} /\ g.members \cap part.kept = {}
    BY DEF GroupingInv, Divided, InHand
  <2>4. part.kept \cap part.rest = {}
    BY DEF GroupingInv, Divided
  <2>5. \A S \in todo' : S \in todo \/ S = part.rest
    BY <1>1
  <2>6. \A g \in groups' : g \in groups \/ g = group
    BY <1>1
  <2>7. group.members = part.kept
    OBVIOUS
  <2>. HIDE DEF group
  <2>8. \A S, T \in todo' : S = T \/ S \cap T = {}
    BY <2>2, <2>5 DEF GroupingInv, Divided
  <2>9. \A g, h \in groups' : g = h \/ g.members \cap h.members = {}
    BY <2>3, <2>6, <2>7 DEF GroupingInv, Divided
  <2>10. \A S \in todo', g \in groups' : S \cap g.members = {}
    BY <2>2, <2>3, <2>4, <2>5, <2>6, <2>7 DEF GroupingInv, Divided
  <2>. QED
    BY <2>1, <2>8, <2>9, <2>10 DEF Divided
<1>8. PhasesOK'
  BY <1>1, <1>3 DEF GroupingInv, PhasesOK, Phases, Carved
<1>9. PartOK'
  BY <1>1 DEF PartOK
<1>10. ASSUME NEW p \in pairs, Tracked(p)
       PROVE  Tracked(p)'
  <2>1. p = <<p[1], p[2]>> /\ p[1] \in Units /\ p[2] \in Units /\ p[1] < p[2]
    BY <1>2 DEF UnitPairs
  <2>2. CASE ~(Ends(p) \subseteq InHand)
    BY <1>1, <1>10, <2>2 DEF Tracked, Severed, Ends
  <2>3. CASE Ends(p) \subseteq part.rest
    <3>1. part.rest # {}
      BY <2>3 DEF Ends
    <3>2. part.rest \in todo'
      BY <1>1, <3>1
    <3>3. Ends(p)' = Ends(p)
      BY DEF Ends
    <3>. QED
      BY <2>3, <3>2, <3>3 DEF Tracked
  <2>4. CASE ~few /\ Ends(p) \cap part.kept # {}
    <3>1. group \in groups' /\ group.members = part.kept
      BY <1>1, <2>4
    <3>3. Ends(p)' = Ends(p)
      BY DEF Ends
    <3>. QED
      BY <2>4, <3>1, <3>3 DEF Tracked
  <2>5. CASE few /\ Ends(p) \subseteq InHand /\ Ends(p) \cap part.kept # {}
    <3>1. part.kept = {part.medoid}
      BY <1>2, <2>5, TwoUnits, UnitsFinite
    <3>2. p[1] # p[2]
      BY <2>1, UnitsKeyed, <1>2
    <3>3. PICK u \in part.rest : p = <<u, part.medoid>> \/ p = <<part.medoid, u>>
      <4>1. p[1] \in {part.medoid} \cup part.rest /\ p[2] \in {part.medoid} \cup part.rest
        BY <2>5, <3>1 DEF Ends, InHand
      <4>2. p[1] = part.medoid \/ p[2] = part.medoid
        BY <2>5, <3>1 DEF Ends
      <4>3. CASE p[1] = part.medoid
        BY <2>1, <3>2, <4>1, <4>3
      <4>4. CASE p[2] = part.medoid
        BY <2>1, <3>2, <4>1, <4>4
      <4>. QED
        BY <4>2, <4>3, <4>4
    <3>4. Similarity(u, part.medoid) < Floor
      BY <1>2, <3>1, <3>3
    <3>5. u \in Units /\ part.medoid \in Units
      BY <1>2, <3>3
    <3>6. /\ Similarity(u, part.medoid) = Similarity(part.medoid, u)
          /\ Alike(u, part.medoid) = Alike(part.medoid, u)
          /\ Alike(u, part.medoid) \in Nat
      <4>1. Alike(u, part.medoid) \in 0..Same /\ Alike(u, part.medoid) = Alike(part.medoid, u)
        BY <1>2, <3>5, AlikeBothWays
      <4>2. Similarity(u, part.medoid) = Similarity(part.medoid, u)
        BY <1>2, <3>5, SimilarBothWays
      <4>. QED
        BY <4>1, <4>2 DEF Same
    <3>7. Similarity(u, part.medoid) \in {Same, Alike(u, part.medoid)}
      BY <1>2, <3>3, <3>5, <3>6, SimilarBothWays
    <3>8. Alike(u, part.medoid) >= Accept
      BY <1>1, <3>3, <3>6 DEF GroupingInv, PhasesOK
    <3>9. Accept \in Nat /\ Floor \in Nat /\ Floor <= Accept /\ Floor <= Same
      BY GroupingAssumption DEF GroupingAssumption, Same
    <3>. QED
      BY <3>4, <3>6, <3>7, <3>8, <3>9 DEF Same
  <2>. QED
    BY <2>2, <2>3, <2>4, <2>5 DEF InHand, Ends
<1>. QED
  BY <1>1, <1>2, <1>4, <1>5, <1>6, <1>7, <1>8, <1>9, <1>10 DEF GroupingInv, Carved

\* A report is what was found.
LEMMA SettleKeepsInv == GroupingInv /\ Settle => GroupingInv'
<1>. SUFFICES ASSUME GroupingInv, Settle PROVE GroupingInv'
  OBVIOUS
<1>1. /\ reports' = [reports EXCEPT ![trial] = Findings]
      /\ UNCHANGED <<input, trial, pairs, pieces, todo, part, groups>>
      /\ phase = "refine" /\ phase' = "report" /\ todo = {}
  BY DEF Settle
<1>2. /\ \A u, v : Similarity(u, v)' = Similarity(u, v) /\ Alike(u, v)' = Alike(u, v)
      /\ ProgramOK' /\ Findings' = Findings
  BY <1>1, SameSimilarity, SameReading, SameFindings DEF GroupingInv
<1>3. /\ trial \in DOMAIN input.trials
      /\ reports = [t \in DOMAIN input.trials |-> reports[t]]
  BY DEF GroupingInv, ProgramOK
<1>4. reports'[trial] = Findings /\ reports' = [t \in DOMAIN input'.trials |-> reports'[t]]
  BY <1>1, <1>3
<1>5. PhasesOK'
  BY <1>1, <1>2, <1>4 DEF GroupingInv, PhasesOK, Phases, Carved
<1>6. Divided' /\ PartOK' /\ SetsOK' /\ GroupsOK'
  BY <1>1, <1>2 DEF GroupingInv, Divided, InHand, PartOK, SetsOK, GroupsOK
<1>7. \A p \in pairs : Tracked(p) => Tracked(p)'
  BY <1>1 DEF Tracked, Severed, InHand, Ends
<1>. QED
  BY <1>1, <1>2, <1>4, <1>5, <1>6, <1>7 DEF GroupingInv, Carved

\* The next trial begins with nothing.
LEMMA NextTrialKeepsInv == GroupingInv /\ NextTrial => GroupingInv'
<1>. SUFFICES ASSUME GroupingInv, NextTrial PROVE GroupingInv'
  OBVIOUS
<1>1. UNCHANGED <<input, todo, part, reports>> /\ phase = "report"
  BY DEF NextTrial
<1>2. todo = {} /\ part = Idle /\ ProgramOK
  BY <1>1 DEF GroupingInv, PhasesOK, PartOK
<1>3. CASE phase' = "done" /\ UNCHANGED <<trial, pairs, pieces, groups>>
  <2>1. /\ \A u, v : Similarity(u, v)' = Similarity(u, v) /\ Alike(u, v)' = Alike(u, v)
        /\ ProgramOK'
    BY <1>1, <1>2, <1>3, SameSimilarity, SameReading
  <2>2. PhasesOK'
    BY <1>1, <1>2, <1>3, <2>1 DEF GroupingInv, PhasesOK, Phases, Carved
  <2>3. Divided' /\ PartOK' /\ SetsOK' /\ GroupsOK'
    BY <1>1, <1>3, <2>1 DEF GroupingInv, Divided, InHand, PartOK, SetsOK, GroupsOK
  <2>4. \A p \in pairs : Tracked(p) => Tracked(p)'
    BY <1>1, <1>3 DEF Tracked, Severed, InHand, Ends
  <2>. QED
    BY <1>1, <1>3, <2>1, <2>2, <2>3, <2>4 DEF GroupingInv, Carved
<1>4. CASE /\ trial # Len(input.trials)
           /\ trial' = trial + 1 /\ phase' = "propose" /\ pairs' = {} /\ pieces' = {} /\ groups' = {}
  <2>1. ProgramOK'
    <3>1. input.trials \in Seq(Allowances) /\ trial \in DOMAIN input.trials
      BY <1>2, GroupingAssumption DEF GroupingAssumption, ProgramOK
    <3>2. Len(input.trials) \in Nat /\ DOMAIN input.trials = 1..Len(input.trials)
      BY <3>1
    <3>3. trial + 1 \in DOMAIN input.trials
      BY <1>4, <3>1, <3>2
    <3>. QED
      BY <1>1, <1>2, <1>4, <3>3 DEF ProgramOK
  <2>2. PhasesOK'
    BY <1>1, <1>2, <1>4 DEF PhasesOK, Phases, Carved
  <2>3. Divided' /\ PartOK' /\ SetsOK' /\ GroupsOK'
    BY <1>1, <1>2, <1>4 DEF Divided, InHand, PartOK, SetsOK, GroupsOK, Idle
  <2>. QED
    BY <1>1, <1>4, <2>1, <2>2, <2>3 DEF GroupingInv, Carved
<1>. QED
  BY <1>3, <1>4 DEF NextTrial

\* The declaration a unit is a part of is a part of none other.
LEMMA DeclarationsStand ==
    ASSUME ProgramOK, NEW u \in Units
    PROVE  Declaration(u) \in Units /\ Declaration(Declaration(u)) = Declaration(u)
<1>1. input.nesting \in Nestings
  BY GroupingAssumption DEF GroupingAssumption, ProgramOK
<1>. DEFINE d == input.nesting.declaration
<1>2. d \in [Units -> Units] /\ \A v \in Units : d[d[v]] = d[v]
  BY <1>1 DEF Nestings
<1>3. \A v \in Units : Place(v) \in Units /\ Place(Place(v)) = v
  <2>1. Size \in Nat /\ Units = 1..Size
    BY GroupingAssumption, FS_CardinalityType DEF GroupingAssumption, Size
  <2>. QED
    BY <2>1 DEF Place
<1>4. Place(u) \in Units /\ d[Place(u)] \in Units
  BY <1>2, <1>3
<1>5. Declaration(u) = Place(d[Place(u)])
  BY DEF Declaration
<1>6. Declaration(Declaration(u)) = Place(d[Place(Declaration(u))])
  BY DEF Declaration
<1>. QED
  BY <1>2, <1>3, <1>4, <1>5, <1>6

\* A group that accounts for another holds declarations, which are in no third
\* group; so it is not folded itself, and what it accounts for stands.
LEMMA GroupsStand ==
    ASSUME GroupingInv, phase = "report", NEW g \in groups
    PROVE  Stands(g)
<1>. DEFINE finding(h) == [id |-> Identity(Key(h.medoid), KeysOf(h.members)), members |-> h.members, split |-> FALSE]
<1>1. \A h \in groups \ Folded : finding(h) \in reports[trial]
  BY DEF GroupingInv, PhasesOK, Findings, GroupFindings
<1>2. CASE g \notin Folded
  <2>1. finding(g) \in reports[trial] /\ finding(g).members = g.members /\ finding(g).split = FALSE
    BY <1>1, <1>2
  <2>. QED
    BY <2>1 DEF Stands
<1>3. CASE g \in Folded
  <2>1. PICK h \in groups \ {g} : AccountsFor(h, g)
    BY <1>3 DEF Folded
  <2>2. g.medoid \in g.members /\ g.medoid \in Units
    BY DEF GroupingInv, GroupsOK
  <2>. DEFINE d == Declaration(g.medoid)
  <2>3. d \in h.members /\ {Declaration(u) : u \in g.members} \subseteq h.members
    BY <2>1, <2>2 DEF AccountsFor
  <2>4. Declaration(d) = d
    BY <2>2, DeclarationsStand DEF GroupingInv
  <2>5. ASSUME NEW k \in groups \ {h}, AccountsFor(k, h)
        PROVE  FALSE
    <3>1. d \in k.members
      BY <2>3, <2>4, <2>5 DEF AccountsFor
    <3>. QED
      BY <2>3, <2>5, <3>1 DEF GroupingInv, Divided
  <2>6. h \notin Folded
    BY <2>5 DEF Folded
  <2>7. finding(h) \in reports[trial] /\ finding(h).members = h.members /\ finding(h).split = FALSE
    BY <1>1, <2>1, <2>6
  <2>. QED
    BY <2>3, <2>7 DEF Stands
<1>. QED
  BY <1>2, <1>3

\* The invariant says that groups are true.
LEMMA GroupsTrueByInv == GroupingInv => GroupsAreTrue
<1>. SUFFICES ASSUME GroupingInv PROVE GroupsAreTrue
  OBVIOUS
<1>1. GroupsTypeOK
  <2>1. phase \in Phases /\ trial \in DOMAIN input.trials /\ pairs \subseteq UnitPairs(Units)
    BY DEF GroupingInv, ProgramOK, PhasesOK
  <2>2. \A S \in pieces \cup todo : S \subseteq Units /\ S # {}
    BY DEF GroupingInv, SetsOK
  <2>3. ASSUME NEW S \in todo \cup {g.members : g \in groups} \cup ({part.kept, part.rest} \ {{}}),
               NEW T \in todo \cup {g.members : g \in groups} \cup ({part.kept, part.rest} \ {{}}),
               S # T
        PROVE  S \cap T = {}
    BY <2>3 DEF GroupingInv, Divided, InHand
  <2>4. part.kept # {} <=> (phase = "trim" /\ part.medoid \in part.kept)
    BY DEF GroupingInv, PartOK, Idle
  <2>5. \A g \in groups : g.medoid \in g.members /\ Cardinality(g.members) >= 2
    BY DEF GroupingInv, GroupsOK
  <2>. QED
    BY <2>1, <2>2, <2>3, <2>4, <2>5 DEF GroupsTypeOK
<1>2. GroupsAreCohesive
  BY DEF GroupingInv, GroupsOK, GroupsAreCohesive
<1>3. LeftoversAreApart
  <2>1. ASSUME phase = "report", NEW p \in pairs
        PROVE  Severed(p) \/ \E g \in groups : Ends(p) \cap g.members # {}
    <3>1. todo = {} /\ InHand = {} /\ Tracked(p)
      BY <2>1 DEF GroupingInv, PhasesOK, PartOK, InHand, Idle, Carved
    <3>. QED
      BY <3>1 DEF Tracked, Ends
  <2>. QED
    BY <2>1 DEF LeftoversAreApart, Reported
<1>4. NothingVerifiedIsLost
  <2>1. ASSUME phase = "report", NEW p \in pairs, ~Severed(p)
        PROVE  \/ \E f \in reports[trial] : f.split /\ Ends(p) \subseteq f.members
               \/ \E g \in groups : (Ends(p) \subseteq g.members \/ Describes(g, p)) /\ Stands(g)
    <3>1. reports[trial] = GroupFindings \cup PairFindings
      BY <2>1 DEF GroupingInv, PhasesOK, Findings
    <3>2. CASE \E g \in groups : Ends(p) \subseteq g.members \/ Describes(g, p)
      BY <2>1, <3>2, GroupsStand
    <3>3. CASE ~\E g \in groups : Ends(p) \subseteq g.members \/ Describes(g, p)
      <4>. DEFINE carried == {q \in pairs : Unrepresented(q)}
                  keys == KeysOf(Ends(p))
                  members == UNION {Ends(q) : q \in {q \in carried : KeysOf(Ends(q)) = keys}}
                  f == [id |-> Identity(Min(keys), keys), split |-> TRUE, members |-> members]
      <4>1. p \in carried /\ ~Described(p)
        BY <2>1, <3>3 DEF Unrepresented, Described, Ends
      <4>2. Ends(p) \subseteq members
        BY <4>1
      <4>3. f \in PairFindings
        BY <4>1 DEF PairFindings
      <4>4. f.split = TRUE /\ f.members = members
        OBVIOUS
      <4>. QED
        BY <3>1, <4>2, <4>3, <4>4
    <3>. QED
      BY <3>2, <3>3
  <2>. QED
    BY <2>1 DEF NothingVerifiedIsLost, Reported
<1>. QED
  BY <1>1, <1>2, <1>3, <1>4 DEF GroupsAreTrue

\* Groups stand for what was verified, whatever the program, the budgets and
\* the ceiling are (grouping.rs, GroupsAreTrue).
THEOREM GroupsTrue == GroupingSpec => []GroupsAreTrue
<1>1. GroupingInv /\ [GroupingNext]_groupingVars => GroupingInv'
  <2>. SUFFICES ASSUME GroupingInv, [GroupingNext]_groupingVars PROVE GroupingInv'
    OBVIOUS
  <2>1. CASE UNCHANGED groupingVars
    <3>1. UNCHANGED <<input, trial, phase, pairs, pieces, todo, part, groups, reports>>
      BY <2>1 DEF groupingVars
    <3>2. /\ \A u, v : Similarity(u, v)' = Similarity(u, v) /\ Alike(u, v)' = Alike(u, v)
          /\ ProgramOK' /\ Findings' = Findings
      BY <3>1, SameSimilarity, SameReading, SameFindings DEF GroupingInv
    <3>3. PhasesOK'
      BY <3>1, <3>2 DEF GroupingInv, PhasesOK, Carved
    <3>4. Divided' /\ PartOK' /\ SetsOK' /\ GroupsOK'
      BY <3>1, <3>2 DEF GroupingInv, Divided, InHand, PartOK, SetsOK, GroupsOK
    <3>5. \A p \in pairs : Tracked(p) => Tracked(p)'
      BY <3>1 DEF Tracked, Severed, InHand, Ends
    <3>. QED
      BY <3>1, <3>2, <3>3, <3>4, <3>5 DEF GroupingInv, Carved
  <2>. QED
    BY <2>1, ProposeKeepsInv, VerifyKeepsInv, CarveKeepsInv, RefineKeepsInv, TrimKeepsInv, BuildKeepsInv,
       SettleKeepsInv, NextTrialKeepsInv DEF GroupingNext
<1>. QED
  BY <1>1, GroupingInvInit, GroupsTrueByInv, PTL DEF GroupingSpec

(***************************************************************************)
(* Identities.                                                             *)
(***************************************************************************)

\* What the assumptions say of the first build, and of the second.
LEMMA FirstBuild ==
    ASSUME build \in Rebuilds
    PROVE  IsBuild(build[1], Members) /\ In(1) = Members
<1>1. IsBuild(build[1], Members)
  BY IdentityAssumption
<1>2. build[1].place \in [Members -> Nat]
  BY <1>1 DEF IsBuild
<1>. QED
  BY <1>1, <1>2 DEF In

LEMMA SecondBuild ==
    ASSUME build \in Rebuilds
    PROVE  \E new \in SUBSET Newcomers :
                /\ IsBuild(build[2], Members \cup new) /\ In(2) = Members \cup new
                /\ Rebuilt(build[1], build[2], new)
<1>1. PICK new \in SUBSET Newcomers :
            IsBuild(build[2], Members \cup new) /\ Rebuilt(build[1], build[2], new)
  BY IdentityAssumption
<1>2. build[2].place \in [Members \cup new -> Nat]
  BY <1>1 DEF IsBuild
<1>. QED
  BY <1>1, <1>2 DEF In

\* Symbols of the first build are members; both builds have all members.
LEMMA SymbolsOf ==
    ASSUME build \in Rebuilds
    PROVE  /\ \A f \in Members : <<1, f>> \in AllSymbols /\ <<2, f>> \in AllSymbols
           /\ \A s \in AllSymbols :
                /\ s = <<s[1], s[2]>> /\ s[1] \in {1, 2} /\ s[2] \in In(s[1])
                /\ s[1] = 1 => s[2] \in Members
           /\ IsFiniteSet(AllSymbols)
<1>1. In(1) = Members /\ Members \subseteq In(2)
  BY FirstBuild, SecondBuild
<1>2. IsFiniteSet(Builds \X (Members \cup Newcomers))
  <2>1. IsFiniteSet(Builds)
    <3>1. Builds = 1 .. 2
      BY DEF Builds
    <3>2. IsFiniteSet(1 .. 2)
      BY FS_Interval, 1 \in Int, 2 \in Int
    <3>. QED
      BY <3>1, <3>2
  <2>2. IsFiniteSet(Members \cup Newcomers)
    BY IdentityAssumption, FS_Union
  <2>. QED
    BY <2>1, <2>2, FS_Product
<1>3. IsFiniteSet(AllSymbols)
  <2>1. AllSymbols \in SUBSET (Builds \X (Members \cup Newcomers))
    BY DEF AllSymbols
  <2>. QED
    BY <1>2, <2>1, FS_Subset
<1>4. \A f \in Members : <<1, f>> \in AllSymbols /\ <<2, f>> \in AllSymbols
  BY <1>1 DEF AllSymbols, Builds
<1>5. \A s \in AllSymbols :
        /\ s = <<s[1], s[2]>> /\ s[1] \in {1, 2} /\ s[2] \in In(s[1])
        /\ s[1] = 1 => s[2] \in Members
  BY <1>1 DEF AllSymbols, Builds
<1>. QED
  BY <1>3, <1>4, <1>5

\* Places tell the symbols of a build apart.
LEMMA PlacesDiffer ==
    ASSUME build \in Rebuilds, NEW s \in AllSymbols, NEW t \in AllSymbols, s[1] = t[1]
    PROVE  PlaceOf(s) \in Nat /\ (PlaceOf(s) = PlaceOf(t) => s = t)
<1>1. \A b \in {1, 2} : \A f, g \in In(b) :
        build[b].place[f] \in Nat /\ (build[b].place[f] = build[b].place[g] => f = g)
  <2>1. \A f, g \in In(1) :
        build[1].place[f] \in Nat /\ (build[1].place[f] = build[1].place[g] => f = g)
    BY FirstBuild DEF IsBuild
  <2>2. \A f, g \in In(2) :
        build[2].place[f] \in Nat /\ (build[2].place[f] = build[2].place[g] => f = g)
    BY SecondBuild DEF IsBuild
  <2>. QED
    BY <2>1, <2>2
<1>2. s = <<s[1], s[2]>> /\ t = <<t[1], t[2]>> /\ s[1] \in {1, 2} /\ s[2] \in In(s[1]) /\ t[2] \in In(s[1])
  BY SymbolsOf
<1>3. PlaceOf(s) \in Nat /\ (PlaceOf(s) = PlaceOf(t) => s[2] = t[2])
  BY <1>1, <1>2 DEF PlaceOf
<1>. QED
  BY <1>2, <1>3

\* A member has the same content in both builds, and no symbol but members has it.
LEMMA MembersLast ==
    ASSUME build \in Rebuilds, NEW f \in Members
    PROVE  /\ Content(<<1, f>>) = Content(<<2, f>>) /\ Special(<<1, f>>) = Special(<<2, f>>)
           /\ \A t \in AllSymbols : Content(t) = Content(<<1, f>>) => t[2] \in Members
<1>1. PICK new \in SUBSET Newcomers :
            In(2) = Members \cup new /\ Rebuilt(build[1], build[2], new)
  BY SecondBuild
<1>2. Content(<<1, f>>) = Content(<<2, f>>) /\ Special(<<1, f>>) = Special(<<2, f>>)
  BY <1>1 DEF Rebuilt, Content, Special
<1>3. ASSUME NEW t \in AllSymbols, Content(t) = Content(<<1, f>>), t[2] \notin Members
      PROVE  FALSE
  <2>1. t[1] = 2 /\ t[2] \in new
    BY <1>1, <1>3, SymbolsOf
  <2>. QED
    BY <1>1, <1>3, <2>1 DEF Rebuilt, Content
<1>. QED
  BY <1>2, <1>3

\* The same calls go between members in both builds, and none to or from others.
LEMMA CallsLast ==
    ASSUME build \in Rebuilds, NEW f \in Members, NEW g \in In(2)
    PROVE  /\ <<f, g>> \in build[2].calls <=> g \in Members /\ <<f, g>> \in build[1].calls
           /\ <<g, f>> \in build[2].calls <=> g \in Members /\ <<g, f>> \in build[1].calls
<1>1. PICK new \in SUBSET Newcomers : Rebuilt(build[1], build[2], new)
  BY SecondBuild
<1>2. build[1].calls \subseteq Members \X Members
  BY FirstBuild DEF IsBuild
<1>3. f \notin new
  BY <1>1, IdentityAssumption
<1>4. /\ build[1].calls \subseteq build[2].calls
      /\ build[2].calls \ build[1].calls \subseteq new \X new
  BY <1>1 DEF Rebuilt
<1>. QED
  BY <1>2, <1>3, <1>4

\* Members that are copies in one build are copies in the other, and they start
\* from the same colours.
LEMMA CopiesLast ==
    ASSUME build \in Rebuilds, NEW f \in Members
    PROVE  /\ Copied(<<1, f>>) <=> Copied(<<2, f>>)
           /\ InitialInput(<<1, f>>) = InitialInput(<<2, f>>)
<1>1. ASSUME Copied(<<1, f>>)
      PROVE  Copied(<<2, f>>)
  <2>1. PICK t \in AllSymbols : t[1] = 1 /\ t # <<1, f>> /\ Content(t) = Content(<<1, f>>)
    BY <1>1 DEF Copied
  <2>2. t = <<1, t[2]>> /\ t[2] \in Members
    BY <2>1, SymbolsOf
  <2>3. <<2, t[2]>> \in AllSymbols /\ Content(<<2, t[2]>>) = Content(<<2, f>>)
    BY <2>1, <2>2, SymbolsOf, MembersLast
  <2>4. <<2, t[2]>> # <<2, f>>
    BY <2>1, <2>2
  <2>. QED
    BY <2>3, <2>4 DEF Copied
<1>2. ASSUME Copied(<<2, f>>)
      PROVE  Copied(<<1, f>>)
  <2>1. PICK t \in AllSymbols : t[1] = 2 /\ t # <<2, f>> /\ Content(t) = Content(<<2, f>>)
    BY <1>2 DEF Copied
  <2>2. t = <<2, t[2]>> /\ t[2] \in Members
    BY <2>1, SymbolsOf, MembersLast
  <2>3. <<1, t[2]>> \in AllSymbols /\ Content(<<1, t[2]>>) = Content(<<1, f>>)
    BY <2>1, <2>2, SymbolsOf, MembersLast
  <2>4. <<1, t[2]>> # <<1, f>>
    BY <2>1, <2>2
  <2>. QED
    BY <2>3, <2>4 DEF Copied
<1>3. Copied(<<1, f>>) <=> Copied(<<2, f>>)
  BY <1>1, <1>2
<1>4. Content(<<1, f>>) = Content(<<2, f>>) /\ Special(<<1, f>>) = Special(<<2, f>>)
  BY MembersLast
<1>. QED
  BY <1>3, <1>4 DEF InitialInput

\* The same symbols in the second build.
Over(set) == {<<2, s[2]>> : s \in set}

LEMMA OverMembers ==
    ASSUME build \in Rebuilds, NEW set \in SUBSET AllSymbols, \A s \in set : s[1] = 1
    PROVE  /\ \A s \in set : s[2] \in Members /\ s = <<1, s[2]>>
           /\ \A t \in AllSymbols :
                t \in Over(set) <=> t[1] = 2 /\ t[2] \in Members /\ <<1, t[2]>> \in set
           /\ Over(set) \subseteq AllSymbols
<1>1. \A s \in set : s[2] \in Members /\ s = <<1, s[2]>>
  BY SymbolsOf
<1>2. ASSUME NEW t \in AllSymbols
      PROVE  t \in Over(set) <=> t[1] = 2 /\ t[2] \in Members /\ <<1, t[2]>> \in set
  <2>1. t = <<t[1], t[2]>>
    BY SymbolsOf
  <2>2. ASSUME t \in Over(set)
        PROVE  t[1] = 2 /\ t[2] \in Members /\ <<1, t[2]>> \in set
    <3>1. PICK s \in set : t = <<2, s[2]>>
      BY <2>2 DEF Over
    <3>. QED
      BY <3>1, <1>1
  <2>3. ASSUME t[1] = 2, <<1, t[2]>> \in set
        PROVE  t \in Over(set)
    <3>1. t = <<2, (<<1, t[2]>>)[2]>>
      BY <2>1, <2>3
    <3>. QED
      BY <2>3, <3>1 DEF Over
  <2>. QED
    BY <2>2, <2>3
<1>3. Over(set) \subseteq AllSymbols
  BY <1>1, SymbolsOf DEF Over
<1>. QED
  BY <1>1, <1>2, <1>3

LEMMA OverCounts ==
    ASSUME build \in Rebuilds, NEW set \in SUBSET AllSymbols, \A s \in set : s[1] = 1
    PROVE  Cardinality(Over(set)) = Cardinality(set)
<1>. DEFINE over == [s \in set |-> <<2, s[2]>>]
<1>1. over \in [set -> Over(set)]
  BY DEF Over
<1>2. \A t \in Over(set) : \E s \in set : over[s] = t
  BY DEF Over
<1>3. \A s, t \in set : over[s] = over[t] => s = t
  <2>1. \A s \in set : s = <<1, s[2]>>
    BY OverMembers
  <2>. QED
    BY <2>1
<1>4. over \in Bijection(set, Over(set))
  BY <1>1, <1>2, <1>3 DEF Bijection, Injection, IsInjective, Surjection
<1>5. IsFiniteSet(set)
  BY SymbolsOf, FS_Subset
<1>. QED
  BY <1>4, <1>5, FS_Bijection DEF ExistsBijection

\* Neighbours of members, and the members a member is connected with, are the same
\* in both builds.
LEMMA NeighboursLast ==
    ASSUME build \in Rebuilds, NEW f \in Members
    PROVE  /\ Callers(<<2, f>>) = Over(Callers(<<1, f>>)) /\ Callees(<<2, f>>) = Over(Callees(<<1, f>>))
           /\ Callers(<<1, f>>) \in SUBSET AllSymbols /\ Callees(<<1, f>>) \in SUBSET AllSymbols
           /\ \A s \in Callers(<<1, f>>) \cup Callees(<<1, f>>) : s[1] = 1
<1>1. Callers(<<1, f>>) \in SUBSET AllSymbols /\ \A s \in Callers(<<1, f>>) : s[1] = 1
  BY DEF Callers
<1>2. Callees(<<1, f>>) \in SUBSET AllSymbols /\ \A s \in Callees(<<1, f>>) : s[1] = 1
  BY DEF Callees
<1>3. Callers(<<2, f>>) = Over(Callers(<<1, f>>))
  <2>1. ASSUME NEW t \in AllSymbols, t[1] = 2
        PROVE  t \in Callers(<<2, f>>) <=> t[2] \in Members /\ <<1, t[2]>> \in Callers(<<1, f>>)
    <3>1. t[2] \in In(2)
      BY <2>1, SymbolsOf
    <3>2. t \in Callers(<<2, f>>) <=> <<t[2], f>> \in build[2].calls
      BY <2>1 DEF Callers
    <3>3. t[2] \in Members =>
            (<<1, t[2]>> \in Callers(<<1, f>>) <=> <<t[2], f>> \in build[1].calls)
      BY SymbolsOf DEF Callers
    <3>. QED
      BY <3>1, <3>2, <3>3, CallsLast
  <2>2. Callers(<<2, f>>) \subseteq AllSymbols /\ \A t \in Callers(<<2, f>>) : t[1] = 2
    BY DEF Callers
  <2>. QED
    BY <1>1, <2>1, <2>2, OverMembers
<1>4. Callees(<<2, f>>) = Over(Callees(<<1, f>>))
  <2>1. ASSUME NEW t \in AllSymbols, t[1] = 2
        PROVE  t \in Callees(<<2, f>>) <=> t[2] \in Members /\ <<1, t[2]>> \in Callees(<<1, f>>)
    <3>1. t[2] \in In(2)
      BY <2>1, SymbolsOf
    <3>2. t \in Callees(<<2, f>>) <=> <<f, t[2]>> \in build[2].calls
      BY <2>1 DEF Callees
    <3>3. t[2] \in Members =>
            (<<1, t[2]>> \in Callees(<<1, f>>) <=> <<f, t[2]>> \in build[1].calls)
      BY SymbolsOf DEF Callees
    <3>. QED
      BY <3>1, <3>2, <3>3, CallsLast
  <2>2. Callees(<<2, f>>) \subseteq AllSymbols /\ \A t \in Callees(<<2, f>>) : t[1] = 2
    BY DEF Callees
  <2>. QED
    BY <1>2, <2>1, <2>2, OverMembers
<1>. QED
  BY <1>1, <1>2, <1>3, <1>4

\* What connects s: sets of copies of its build that no call leaves or enters.
Own(s) == {t \in Copies : t[1] = s[1]}
Uncut(s, set) ==
    \A f, g : <<f, g>> \in build[s[1]].calls /\ <<s[1], f>> \in Own(s) /\ <<s[1], g>> \in Own(s)
                => (<<s[1], f>> \in set <=> <<s[1], g>> \in set)

LEMMA RelativesAre ==
    ASSUME build \in Rebuilds, NEW s \in AllSymbols
    PROVE  Relatives(s) =
            {t \in Own(s) : \A set \in SUBSET Own(s) : s \in set /\ Uncut(s, set) => t \in set}
<1>. DEFINE edges == {e \in build[s[1]].calls : <<s[1], e[1]>> \in Own(s) /\ <<s[1], e[2]>> \in Own(s)}
            Shut(set) == \A e \in edges : <<s[1], e[1]>> \in set <=> <<s[1], e[2]>> \in set
<1>1. Relatives(s) =
        {t \in Own(s) : \A set \in {c \in SUBSET Own(s) : s \in c /\ Shut(c)} : t \in set}
  BY DEF Relatives, Own
<1>2. \A e \in build[s[1]].calls : e = <<e[1], e[2]>>
  <2>1. s[1] \in {1, 2}
    BY SymbolsOf
  <2>2. \E symbols : build[s[1]].calls \subseteq symbols \X symbols
    BY <2>1, FirstBuild, SecondBuild DEF IsBuild
  <2>. QED
    BY <2>2
<1>3. \A set \in SUBSET Own(s) : Shut(set) <=> Uncut(s, set)
  <2>1. ASSUME NEW set \in SUBSET Own(s), Shut(set)
        PROVE  Uncut(s, set)
    <3>1. ASSUME NEW f, NEW g, <<f, g>> \in build[s[1]].calls,
                 <<s[1], f>> \in Own(s), <<s[1], g>> \in Own(s)
          PROVE  <<s[1], f>> \in set <=> <<s[1], g>> \in set
      <4>1. <<f, g>> \in edges
        BY <3>1
      <4>. QED
        BY <2>1, <4>1
    <3>. QED
      BY <3>1 DEF Uncut
  <2>2. ASSUME NEW set \in SUBSET Own(s), Uncut(s, set)
        PROVE  Shut(set)
    BY <1>2, <2>2 DEF Uncut
  <2>. QED
    BY <2>1, <2>2
<1>. HIDE DEF Shut
<1>. QED
  BY <1>1, <1>3

LEMMA RelativesOfCopies ==
    ASSUME build \in Rebuilds, NEW s \in Copies
    PROVE  s \in Relatives(s) /\ Relatives(s) \in SUBSET AllSymbols /\ IsFiniteSet(Relatives(s))
<1>1. s \in AllSymbols /\ Own(s) \in SUBSET AllSymbols /\ s \in Own(s)
  BY DEF Own, Copies
<1>2. Relatives(s) \in SUBSET AllSymbols /\ s \in Relatives(s)
  BY <1>1, RelativesAre
<1>. QED
  BY <1>2, SymbolsOf, FS_Subset

LEMMA OwnLast ==
    ASSUME build \in Rebuilds, NEW f \in Members
    PROVE  /\ Own(<<1, f>>) \in SUBSET AllSymbols /\ \A s \in Own(<<1, f>>) : s[1] = 1
           /\ Own(<<2, f>>) \in SUBSET AllSymbols /\ \A s \in Own(<<2, f>>) : s[1] = 2
           /\ \A g \in Members : <<1, g>> \in Own(<<1, f>>) <=> <<2, g>> \in Own(<<2, f>>)
<1>1. \A g \in Members : <<1, g>> \in Copies <=> <<2, g>> \in Copies
  BY SymbolsOf, CopiesLast DEF Copies
<1>. QED
  BY <1>1 DEF Own, Copies

LEMMA RelativesLast ==
    ASSUME build \in Rebuilds, NEW f \in Members, <<1, f>> \in Copies
    PROVE  /\ Relatives(<<2, f>>) = Over(Relatives(<<1, f>>))
           /\ Relatives(<<1, f>>) \in SUBSET AllSymbols
           /\ \A s \in Relatives(<<1, f>>) : s[1] = 1
<1>. DEFINE s1 == <<1, f>>
            s2 == <<2, f>>
<1>1. s1 \in AllSymbols /\ s2 \in AllSymbols
  BY SymbolsOf
<1>2. /\ Own(s1) \in SUBSET AllSymbols /\ \A s \in Own(s1) : s[1] = 1
      /\ Own(s2) \in SUBSET AllSymbols /\ \A s \in Own(s2) : s[1] = 2
      /\ \A g \in Members : <<1, g>> \in Own(s1) <=> <<2, g>> \in Own(s2)
  BY OwnLast
<1>3. Relatives(s1) =
        {t \in Own(s1) : \A set \in SUBSET Own(s1) : s1 \in set /\ Uncut(s1, set) => t \in set}
  BY <1>1, RelativesAre
<1>4. Relatives(s2) =
        {t \in Own(s2) : \A set \in SUBSET Own(s2) : s2 \in set /\ Uncut(s2, set) => t \in set}
  BY <1>1, RelativesAre
<1>5. s1[1] = 1 /\ s2[1] = 2
  OBVIOUS
<1>. HIDE DEF s1, s2
<1>6. ASSUME NEW g \in Members, <<1, g>> \in Relatives(s1)
      PROVE  <<2, g>> \in Relatives(s2)
  <2>1. ASSUME NEW set \in SUBSET Own(s2), s2 \in set, Uncut(s2, set)
        PROVE  <<2, g>> \in set
    <3>. DEFINE under == {s \in Own(s1) : <<2, s[2]>> \in set}
    <3>1. under \in SUBSET Own(s1) /\ \A h \in Members : <<1, h>> \in Own(s1) =>
                (<<1, h>> \in under <=> <<2, h>> \in set)
      OBVIOUS
    <3>2. s1 \in under
      BY <1>2, <2>1, <3>1 DEF s1, s2
    <3>3. Uncut(s1, under)
      <4>1. ASSUME NEW x, NEW y, <<x, y>> \in build[1].calls, <<1, x>> \in Own(s1), <<1, y>> \in Own(s1)
            PROVE  <<1, x>> \in under <=> <<1, y>> \in under
        <5>1. x \in Members /\ y \in Members
          BY <4>1, FirstBuild DEF IsBuild
        <5>2. <<x, y>> \in build[2].calls
          BY <4>1, <5>1, CallsLast, SecondBuild
        <5>3. <<2, x>> \in Own(s2) /\ <<2, y>> \in Own(s2)
          BY <1>2, <4>1, <5>1
        <5>4. <<2, x>> \in set <=> <<2, y>> \in set
          BY <1>5, <2>1, <5>2, <5>3 DEF Uncut
        <5>. QED
          BY <3>1, <4>1, <5>1, <5>4
      <4>. HIDE DEF under
      <4>. QED
        BY <1>5, <4>1 DEF Uncut
    <3>4. <<1, g>> \in under
      BY <1>3, <1>6, <3>1, <3>2, <3>3
    <3>. QED
      BY <3>4
  <2>2. <<2, g>> \in Own(s2)
    BY <1>2, <1>3, <1>6
  <2>. QED
    BY <1>4, <2>1, <2>2
<1>7. ASSUME NEW t \in Relatives(s2)
      PROVE  t[1] = 2 /\ t[2] \in Members /\ <<1, t[2]>> \in Relatives(s1)
  <2>1. t \in Own(s2) /\ t \in AllSymbols /\ t[1] = 2 /\ t = <<2, t[2]>>
    BY <1>2, <1>4, SymbolsOf
  <2>2. ASSUME NEW set \in SUBSET Own(s1), s1 \in set, Uncut(s1, set)
        PROVE  t[2] \in Members /\ <<1, t[2]>> \in set
    <3>. DEFINE over == {s \in Own(s2) : s[2] \in Members /\ <<1, s[2]>> \in set}
    <3>1. over \in SUBSET Own(s2)
      OBVIOUS
    <3>2. s2 \in over
      <4>1. s2 \in Own(s2)
        BY <1>2, <2>2 DEF s1, s2
      <4>2. s2[2] = f /\ s1 = <<1, f>>
        BY DEF s1, s2
      <4>. QED
        BY <2>2, <4>1, <4>2
    <3>3. Uncut(s2, over)
      <4>1. ASSUME NEW x, NEW y, <<x, y>> \in build[2].calls, <<2, x>> \in Own(s2), <<2, y>> \in Own(s2)
            PROVE  <<2, x>> \in over <=> <<2, y>> \in over
        <5>1. x \in In(2) /\ y \in In(2)
          <6>1. <<2, x>> \in AllSymbols /\ <<2, y>> \in AllSymbols
            BY <1>2, <4>1
          <6>. QED
            BY <6>1, SymbolsOf
        <5>2. <<2, x>> \in over <=> x \in Members /\ <<1, x>> \in set
          BY <4>1
        <5>3. <<2, y>> \in over <=> y \in Members /\ <<1, y>> \in set
          BY <4>1
        <5>4. CASE x \in Members /\ y \in Members
          <6>1. <<x, y>> \in build[1].calls
            BY <4>1, <5>1, <5>4, CallsLast
          <6>2. <<1, x>> \in Own(s1) /\ <<1, y>> \in Own(s1)
            BY <1>2, <4>1, <5>4
          <6>3. <<1, x>> \in set <=> <<1, y>> \in set
            BY <1>5, <2>2, <6>1, <6>2 DEF Uncut
          <6>. QED
            BY <5>2, <5>3, <5>4, <6>3
        <5>5. CASE ~(x \in Members /\ y \in Members)
          <6>1. x \notin Members /\ y \notin Members
            BY <4>1, <5>1, <5>5, CallsLast
          <6>. QED
            BY <5>2, <5>3, <6>1
        <5>. QED
          BY <5>4, <5>5
      <4>. HIDE DEF over
      <4>. QED
        BY <1>5, <4>1 DEF Uncut
    <3>4. t \in over
      BY <1>4, <3>1, <3>2, <3>3
    <3>. QED
      BY <3>4
  <2>3. t[2] \in Members
    <3>1. Uncut(s1, Own(s1))
      BY <1>5 DEF Uncut, Own
    <3>2. s1 \in Own(s1)
      BY <1>5 DEF Own, s1
    <3>. QED
      BY <2>2, <3>1, <3>2
  <2>. QED
    BY <1>2, <1>3, <2>1, <2>2, <2>3
<1>8. Relatives(s1) \in SUBSET AllSymbols /\ \A s \in Relatives(s1) : s[1] = 1
  BY <1>2, <1>3
<1>9. Relatives(s2) \in SUBSET AllSymbols
  BY <1>2, <1>4
<1>10. \A t \in Relatives(s2) : t \in Over(Relatives(s1))
  BY <1>7, <1>8, <1>9, OverMembers
<1>11. \A t \in Over(Relatives(s1)) : t \in Relatives(s2)
  <2>1. ASSUME NEW t \in Over(Relatives(s1))
        PROVE  t \in Relatives(s2)
    <3>1. t \in AllSymbols
      BY <1>8, OverMembers
    <3>2. t = <<2, t[2]>> /\ t[2] \in Members /\ <<1, t[2]>> \in Relatives(s1)
      BY <1>8, <3>1, OverMembers, SymbolsOf
    <3>. QED
      BY <1>6, <3>2
  <2>. QED
    BY <2>1
<1>. QED
  BY <1>8, <1>10, <1>11 DEF s1, s2

(***************************************************************************)
(* Colours.                                                                *)
(***************************************************************************)

Matched(of) == \A f \in Members : of[<<1, f>>] = of[<<2, f>>]

ColouringOK == build \in Rebuilds /\ colours \in [AllSymbols -> Nat \X AllSymbols]

\* Builds of the same program: members have the same colour, and are refined in
\* both or in neither.
InStep == Matched(colours) /\ \A f \in Members : <<1, f>> \in refining <=> <<2, f>> \in refining

\* A colour stands for one content.
ColoursTell == \A s, t \in AllSymbols : colours[s] = colours[t] => Content(s) = Content(t)

\* What is refined is at the last round.
Latest == \A s \in refining, t \in AllSymbols : colours[t][1] <= colours[s][1]

\* A component that still splits has gained a colour in every round.
Initially(s) == Cardinality({InitialInput(t) : t \in Relatives(s)})
Gained == \A s \in refining : colours[s][1] + Initially(s) <= Distinct(Relatives(s), colours)

Compiled ==
    /\ build \in Rebuilds
    /\ colours \in [AllSymbols -> Nat \X AllSymbols]
    /\ refining \subseteq Copies
    /\ InStep /\ ColoursTell /\ Latest /\ Gained /\ RoundsAreBounded

IdentityInv == (build = <<>> /\ refining = {}) \/ Compiled

\* The same colours are found as often among the same symbols.
LEMMA CountsLast ==
    ASSUME build \in Rebuilds, Matched(colours), NEW set \in SUBSET AllSymbols, \A s \in set : s[1] = 1
    PROVE  Counts(Over(set)) = Counts(set)
<1>1. \A s \in set : s = <<1, s[2]>> /\ s[2] \in Members /\ colours[<<2, s[2]>>] = colours[s]
  BY OverMembers DEF Matched
<1>2. {colours[t] : t \in Over(set)} = {colours[t] : t \in set}
  <2>1. {colours[t] : t \in Over(set)} = {colours[<<2, s[2]>>] : s \in set}
    BY DEF Over
  <2>2. \A s \in set : colours[<<2, s[2]>>] = colours[s]
    BY <1>1
  <2>3. {colours[<<2, s[2]>>] : s \in set} = {colours[t] : t \in set}
    BY <2>2
  <2>. QED
    BY <2>1, <2>3
<1>3. ASSUME NEW c
      PROVE  Cardinality({t \in Over(set) : colours[t] = c}) = Cardinality({t \in set : colours[t] = c})
  <2>. DEFINE those == {t \in set : colours[t] = c}
  <2>1. those \in SUBSET AllSymbols /\ \A s \in those : s[1] = 1
    OBVIOUS
  <2>2. {t \in Over(set) : colours[t] = c} = Over(those)
    BY <1>1 DEF Over
  <2>. HIDE DEF those
  <2>3. Cardinality(Over(those)) = Cardinality(those)
    BY <2>1, OverCounts
  <2>. QED
    BY <2>2, <2>3 DEF those
<1>. QED
  BY <1>2, <1>3 DEF Counts

LEMMA NextInputsLast ==
    ASSUME build \in Rebuilds, Matched(colours), NEW f \in Members
    PROVE  NextInput(<<1, f>>) = NextInput(<<2, f>>)
<1>1. /\ Callers(<<2, f>>) = Over(Callers(<<1, f>>)) /\ Callees(<<2, f>>) = Over(Callees(<<1, f>>))
      /\ Callers(<<1, f>>) \in SUBSET AllSymbols /\ Callees(<<1, f>>) \in SUBSET AllSymbols
      /\ \A s \in Callers(<<1, f>>) \cup Callees(<<1, f>>) : s[1] = 1
  BY NeighboursLast
<1>2. Counts(Callers(<<2, f>>)) = Counts(Callers(<<1, f>>))
  BY <1>1, CountsLast
<1>3. Counts(Callees(<<2, f>>)) = Counts(Callees(<<1, f>>))
  BY <1>1, CountsLast
<1>4. colours[<<1, f>>] = colours[<<2, f>>] /\ Special(<<1, f>>) = Special(<<2, f>>)
  BY MembersLast DEF Matched
<1>. QED
  BY <1>2, <1>3, <1>4 DEF NextInput

\* As many colours are among a member's relatives in both builds.
LEMMA DistinctLast ==
    ASSUME build \in Rebuilds, NEW of, Matched(of), NEW f \in Members, <<1, f>> \in Copies
    PROVE  Distinct(Relatives(<<1, f>>), of) = Distinct(Relatives(<<2, f>>), of)
<1>. DEFINE one == Relatives(<<1, f>>)
<1>1. Relatives(<<2, f>>) = Over(one) /\ one \in SUBSET AllSymbols /\ \A s \in one : s[1] = 1
  BY RelativesLast
<1>. HIDE DEF one
<1>2. \A s \in one : s = <<1, s[2]>> /\ s[2] \in Members /\ of[<<2, s[2]>>] = of[s]
  BY <1>1, OverMembers DEF Matched
<1>3. {of[t] : t \in Over(one)} = {of[<<2, s[2]>>] : s \in one}
  BY DEF Over
<1>4. {of[t] : t \in Over(one)} = {of[s] : s \in one}
  BY <1>2, <1>3
<1>. QED
  BY <1>1, <1>4 DEF Distinct, one

\* A hash names a symbol that is paired with what is hashed.
LEMMA HashNames ==
    ASSUME NEW inputs, NEW s, NEW hashed, <<s, hashed>> \in inputs, NEW round
    PROVE  \E p \in inputs : p[2] = hashed /\ Hash(round, inputs, hashed) = <<round, p[1]>>
<1>1. (<<s, hashed>>)[2] = hashed
  OBVIOUS
<1>. DEFINE chosen == CHOOSE p \in inputs : p[2] = hashed
<1>2. chosen \in inputs /\ chosen[2] = hashed
  BY <1>1
<1>3. Hash(round, inputs, hashed) = <<round, chosen[1]>>
  BY DEF Hash
<1>. HIDE DEF chosen
<1>. QED
  BY <1>2, <1>3

\* A component's symbols are few enough for as many rounds as it gains colours.
LEMMA DistinctIsSmall ==
    ASSUME build \in Rebuilds, NEW s \in Copies, NEW of
    PROVE  /\ Distinct(Relatives(s), of) \in Nat
           /\ Distinct(Relatives(s), of) <= Cardinality(Relatives(s))
           /\ Cardinality(Relatives(s)) \in Nat /\ Initially(s) \in Nat
<1>. DEFINE those == Relatives(s)
            values == {of[t] : t \in those}
            inputs == {InitialInput(t) : t \in those}
<1>1. IsFiniteSet(those)
  BY RelativesOfCopies
<1>. HIDE DEF those
<1>2. [t \in those |-> of[t]] \in Surjection(those, values)
  BY DEF Surjection
<1>3. IsFiniteSet(values) /\ Cardinality(values) <= Cardinality(those)
  BY <1>1, <1>2, FS_Surjection
<1>4. [t \in those |-> InitialInput(t)] \in Surjection(those, inputs)
  BY DEF Surjection
<1>5. IsFiniteSet(inputs)
  BY <1>1, <1>4, FS_Surjection
<1>6. Cardinality(values) \in Nat /\ Cardinality(those) \in Nat /\ Cardinality(inputs) \in Nat
  BY <1>1, <1>3, <1>5, FS_CardinalityType
<1>. QED
  BY <1>3, <1>6 DEF Distinct, Initially, those

(***************************************************************************)
(* The first colours.                                                      *)
(***************************************************************************)

\* What a hash says of what is hashed first.
LEMMA FirstHashes ==
    ASSUME build \in Rebuilds, colours = InitialColours, NEW s \in AllSymbols
    PROVE  \E t \in AllSymbols :
                /\ colours[s] = <<0, t>> /\ colours[s][2] = t /\ InitialInput(t) = InitialInput(s)
<1>. DEFINE inputs == {<<t, InitialInput(t)>> : t \in AllSymbols}
            hashed == InitialInput(s)
<1>1. colours[s] = Hash(0, inputs, hashed)
  BY DEF InitialColours
<1>2. <<s, hashed>> \in inputs
  OBVIOUS
<1>. HIDE DEF inputs, hashed
<1>3. PICK p \in inputs : p[2] = hashed /\ Hash(0, inputs, hashed) = <<0, p[1]>>
  BY <1>2, HashNames
<1>4. PICK t \in AllSymbols : p = <<t, InitialInput(t)>>
  BY DEF inputs
<1>. QED
  BY <1>1, <1>3, <1>4 DEF hashed

LEMMA InputsTell ==
    ASSUME NEW s \in AllSymbols, NEW t \in AllSymbols, InitialInput(s) = InitialInput(t)
    PROVE  Content(s) = Content(t)
<1>. DEFINE Three(u) == <<Content(u), Special(u) = "rooted", Special(u) = "other">>
<1>1. \A u \in {s, t} : InitialInput(u)[1] = Content(u)
  <2>1. \A u \in {s, t} : InitialInput(u) = <<Content(u)>> \/ InitialInput(u) = Three(u)
    BY DEF InitialInput
  <2>. QED
    BY <2>1
<1>. QED
  BY <1>1

LEMMA CompiledFirst ==
    ASSUME build \in Rebuilds, colours = InitialColours, refining = Copies
    PROVE  Compiled
<1>1. colours \in [AllSymbols -> Nat \X AllSymbols]
  <2>1. colours = [s \in AllSymbols |-> colours[s]]
    BY DEF InitialColours
  <2>2. \A s \in AllSymbols : colours[s] \in Nat \X AllSymbols
    BY FirstHashes
  <2>. QED
    BY <2>1, <2>2
<1>2. \A s \in AllSymbols : colours[s][1] = 0
  BY FirstHashes
<1>3. \A s, t \in AllSymbols : InitialInput(s) = InitialInput(t) => colours[s] = colours[t]
  BY DEF InitialColours
<1>4. \A s, t \in AllSymbols : colours[s] = colours[t] => InitialInput(s) = InitialInput(t)
  <2>1. ASSUME NEW s \in AllSymbols, NEW t \in AllSymbols, colours[s] = colours[t]
        PROVE  InitialInput(s) = InitialInput(t)
    <3>1. PICK x \in AllSymbols : colours[s][2] = x /\ InitialInput(x) = InitialInput(s)
      BY FirstHashes
    <3>2. PICK y \in AllSymbols : colours[t][2] = y /\ InitialInput(y) = InitialInput(t)
      BY FirstHashes
    <3>3. x = y
      BY <2>1, <3>1, <3>2
    <3>. QED
      BY <3>1, <3>2, <3>3
  <2>. QED
    BY <2>1
<1>5. InStep
  <2>1. \A f \in Members : <<1, f>> \in Copies <=> <<2, f>> \in Copies
    BY SymbolsOf, CopiesLast DEF Copies
  <2>2. \A f \in Members : colours[<<1, f>>] = colours[<<2, f>>]
    BY <1>3, SymbolsOf, CopiesLast
  <2>. QED
    BY <2>1, <2>2 DEF InStep, Matched
<1>6. ColoursTell
  BY <1>4, InputsTell DEF ColoursTell
<1>7. Latest
  BY <1>2 DEF Latest, Copies
<1>8. ASSUME NEW s \in Copies
      PROVE  Initially(s) <= Distinct(Relatives(s), colours)
  <2>. DEFINE those == Relatives(s)
              inputs == {InitialInput(t) : t \in those}
              values == {colours[t] : t \in those}
              from == [c \in values |-> InitialInput(c[2])]
  <2>1. those \in SUBSET AllSymbols /\ IsFiniteSet(those)
    BY RelativesOfCopies
  <2>. HIDE DEF those
  <2>2. \A t \in those : InitialInput(colours[t][2]) = InitialInput(t)
    BY <2>1, FirstHashes
  <2>3. from \in Surjection(values, inputs)
    <3>1. \A t \in those : colours[t] \in values /\ from[colours[t]] = InitialInput(t)
      BY <2>2
    <3>2. from \in [values -> inputs]
      BY <2>2
    <3>. HIDE DEF from
    <3>. QED
      BY <3>1, <3>2 DEF Surjection
  <2>4. IsFiniteSet(values)
    <3>1. [t \in those |-> colours[t]] \in Surjection(those, values)
      BY DEF Surjection
    <3>. QED
      BY <2>1, <3>1, FS_Surjection
  <2>5. Cardinality(inputs) <= Cardinality(values)
    BY <2>3, <2>4, FS_Surjection
  <2>. QED
    BY <2>5 DEF Initially, Distinct, those
<1>9. Gained
  <2>1. ASSUME NEW s \in Copies
        PROVE  colours[s][1] + Initially(s) <= Distinct(Relatives(s), colours)
    <3>1. colours[s][1] = 0
      BY <1>2 DEF Copies
    <3>. QED
      BY <1>8, <3>1, DistinctIsSmall
  <2>. QED
    BY <2>1 DEF Gained
<1>10. RoundsAreBounded
  <2>1. ASSUME NEW s \in Copies
        PROVE  colours[s][1] + Initially(s) <= Cardinality(Relatives(s)) + 1
    <3>1. colours[s][1] = 0
      BY <1>2 DEF Copies
    <3>. QED
      BY <1>8, <3>1, DistinctIsSmall
  <2>. QED
    BY <2>1 DEF RoundsAreBounded, Initially
<1>. QED
  BY <1>1, <1>5, <1>6, <1>7, <1>9, <1>10 DEF Compiled

(***************************************************************************)
(* A round.                                                                *)
(***************************************************************************)

\* A round leaves the builds alone.
LEMMA SameBuild ==
    ASSUME UNCHANGED build
    PROVE  /\ AllSymbols' = AllSymbols /\ Copies' = Copies
           /\ \A s : /\ Relatives(s)' = Relatives(s) /\ InitialInput(s)' = InitialInput(s)
                     /\ Content(s)' = Content(s) /\ Initially(s)' = Initially(s)
<1>1. \A b : In(b)' = In(b)
  BY DEF In
<1>2. AllSymbols' = AllSymbols
  BY <1>1 DEF AllSymbols
<1>3. \A s : Content(s)' = Content(s) /\ Special(s)' = Special(s)
  BY DEF Content, Special
<1>4. \A s : Copied(s)' = Copied(s)
  BY <1>2, <1>3 DEF Copied
<1>5. Copies' = Copies
  BY <1>2, <1>4 DEF Copies
<1>6. \A s : InitialInput(s)' = InitialInput(s)
  BY <1>3, <1>4 DEF InitialInput
<1>7. \A s : Relatives(s)' = Relatives(s)
  BY <1>5 DEF Relatives
<1>8. \A s : Initially(s)' = Initially(s)
  BY <1>6, <1>7 DEF Initially
<1>. QED
  BY <1>2, <1>3, <1>5, <1>6, <1>7, <1>8

\* What a hash says of what is hashed next.
LEMMA NextHashes ==
    ASSUME Compiled, Round
    PROVE  /\ DOMAIN colours' = AllSymbols
           /\ \A s \in AllSymbols \ refining : colours'[s] = colours[s]
           /\ \A s \in refining : \E t \in refining :
                /\ colours'[s] = <<colours[s][1] + 1, t>> /\ colours'[s][2] = t
                /\ NextInput(t) = NextInput(s)
           /\ \A s, t \in refining :
                NextInput(s) = NextInput(t) => colours'[s] = colours'[t]
<1>. DEFINE inputs == {<<t, NextInput(t)>> : t \in refining}
<1>1. \A t \in refining : <<t, NextInput(t)>> \in inputs
  OBVIOUS
<1>2. colours' = [s \in AllSymbols |->
            IF s \in refining THEN Hash(colours[s][1] + 1, inputs, NextInput(s)) ELSE colours[s]]
  BY DEF Round
<1>3. refining \subseteq AllSymbols
  BY DEF Compiled, Copies
<1>. HIDE DEF inputs
<1>4. ASSUME NEW s \in refining
      PROVE  \E t \in refining :
                /\ colours'[s] = <<colours[s][1] + 1, t>> /\ colours'[s][2] = t
                /\ NextInput(t) = NextInput(s)
  <2>1. colours'[s] = Hash(colours[s][1] + 1, inputs, NextInput(s))
    BY <1>2, <1>3
  <2>. DEFINE hashed == NextInput(s)
              round == colours[s][1] + 1
  <2>2. <<s, hashed>> \in inputs
    BY <1>1
  <2>. HIDE DEF hashed, round
  <2>3. PICK p \in inputs : p[2] = hashed /\ Hash(round, inputs, hashed) = <<round, p[1]>>
    BY <2>2, HashNames
  <2>4. PICK t \in refining : p = <<t, NextInput(t)>>
    BY DEF inputs
  <2>. QED
    BY <2>1, <2>3, <2>4 DEF hashed, round
<1>5. ASSUME NEW s \in refining, NEW t \in refining, NextInput(s) = NextInput(t)
      PROVE  colours'[s] = colours'[t]
  <2>1. colours[s] = colours[t]
    BY <1>5 DEF NextInput
  <2>2. /\ colours'[s] = Hash(colours[s][1] + 1, inputs, NextInput(s))
        /\ colours'[t] = Hash(colours[t][1] + 1, inputs, NextInput(t))
    BY <1>2, <1>3
  <2>. QED
    BY <1>5, <2>1, <2>2
<1>. QED
  BY <1>2, <1>4, <1>5

LEMMA CompiledNext ==
    ASSUME Compiled, Round
    PROVE  Compiled'
<1>1. /\ AllSymbols' = AllSymbols /\ Copies' = Copies
      /\ \A s : /\ Relatives(s)' = Relatives(s) /\ Content(s)' = Content(s)
                /\ Initially(s)' = Initially(s)
  BY SameBuild DEF Round
<1>2. /\ DOMAIN colours' = AllSymbols
      /\ \A s \in AllSymbols \ refining : colours'[s] = colours[s]
      /\ \A s \in refining : \E t \in refining :
            /\ colours'[s] = <<colours[s][1] + 1, t>> /\ colours'[s][2] = t
            /\ NextInput(t) = NextInput(s)
      /\ \A s, t \in refining : NextInput(s) = NextInput(t) => colours'[s] = colours'[t]
  BY NextHashes
<1>3. build \in Rebuilds /\ colours \in [AllSymbols -> Nat \X AllSymbols] /\ refining \subseteq Copies
  BY DEF Compiled
<1>4. refining \subseteq AllSymbols
  BY <1>3 DEF Copies
<1>5. \A s \in AllSymbols : colours[s][1] \in Nat
  BY <1>3
<1>6. (build \in Rebuilds)' /\ (refining \subseteq Copies)'
  BY <1>1, <1>3 DEF Round
<1>7. colours' \in [AllSymbols -> Nat \X AllSymbols]
  <2>1. \A s \in AllSymbols : colours'[s] \in Nat \X AllSymbols
    <3>1. ASSUME NEW s \in refining
          PROVE  colours'[s] \in Nat \X AllSymbols
      <4>1. PICK t \in refining : colours'[s] = <<colours[s][1] + 1, t>>
        BY <1>2
      <4>2. colours[s][1] + 1 \in Nat /\ t \in AllSymbols
        BY <1>4, <1>5
      <4>. QED
        BY <4>1, <4>2
    <3>2. ASSUME NEW s \in AllSymbols \ refining
          PROVE  colours'[s] \in Nat \X AllSymbols
      BY <1>2, <1>3
    <3>. QED
      BY <3>1, <3>2
  <2>2. colours' = [s \in AllSymbols |-> colours'[s]]
    BY DEF Round
  <2>. QED
    BY <2>1, <2>2
<1>8. \A s \in refining : colours'[s][1] = colours[s][1] + 1
  BY <1>2
<1>9. Matched(colours')
  <2>1. ASSUME NEW f \in Members
        PROVE  colours'[<<1, f>>] = colours'[<<2, f>>]
    <3>1. /\ colours[<<1, f>>] = colours[<<2, f>>] /\ (<<1, f>> \in refining <=> <<2, f>> \in refining)
          /\ Matched(colours)
      BY DEF Compiled, InStep, Matched
    <3>2. CASE <<1, f>> \in refining
      <4>1. NextInput(<<1, f>>) = NextInput(<<2, f>>)
        BY <1>3, <3>1, NextInputsLast
      <4>. QED
        BY <1>2, <3>1, <3>2, <4>1
    <3>3. CASE <<1, f>> \notin refining
      BY <1>2, <1>3, <3>1, <3>3, SymbolsOf
    <3>. QED
      BY <3>2, <3>3
  <2>. QED
    BY <2>1 DEF Matched
<1>10. InStep'
  <2>1. refining' = {s \in refining :
            Distinct(Relatives(s), colours') > Distinct(Relatives(s), colours)}
    BY DEF Round
  <2>2. ASSUME NEW f \in Members
        PROVE  <<1, f>> \in refining' <=> <<2, f>> \in refining'
    <3>1. (<<1, f>> \in refining <=> <<2, f>> \in refining) /\ Matched(colours)
      BY DEF Compiled, InStep
    <3>2. CASE <<1, f>> \in refining
      <4>1. <<1, f>> \in Copies
        BY <1>3, <3>2
      <4>2. Distinct(Relatives(<<1, f>>), colours) = Distinct(Relatives(<<2, f>>), colours)
        BY <1>3, <3>1, <4>1, DistinctLast
      <4>3. Distinct(Relatives(<<1, f>>), colours') = Distinct(Relatives(<<2, f>>), colours')
        BY <1>3, <1>9, <4>1, DistinctLast
      <4>. QED
        BY <2>1, <3>1, <4>2, <4>3
    <3>3. CASE <<1, f>> \notin refining
      BY <2>1, <3>1, <3>3
    <3>. QED
      BY <3>2, <3>3
  <2>. QED
    BY <1>9, <2>2 DEF InStep, Matched
<1>11. ColoursTell'
  <2>1. ASSUME NEW s \in AllSymbols, NEW t \in AllSymbols, colours'[s] = colours'[t]
        PROVE  Content(s) = Content(t)
    <3>1. ASSUME NEW x \in refining, NEW y \in AllSymbols \ refining
          PROVE  colours'[x] # colours'[y]
      <4>1. colours'[y][1] <= colours[x][1]
        BY <1>2 DEF Compiled, Latest
      <4>2. colours'[x][1] = colours[x][1] + 1 /\ colours[x][1] \in Nat
        BY <1>4, <1>5, <1>8
      <4>3. colours'[y][1] \in Nat
        BY <1>2, <1>5
      <4>. QED
        BY <4>1, <4>2, <4>3
    <3>2. CASE s \in refining /\ t \in refining
      <4>1. PICK x \in refining : colours'[s][2] = x /\ NextInput(x) = NextInput(s)
        BY <1>2, <3>2
      <4>2. PICK y \in refining : colours'[t][2] = y /\ NextInput(y) = NextInput(t)
        BY <1>2, <3>2
      <4>3. x = y
        BY <2>1, <4>1, <4>2
      <4>4. NextInput(s) = NextInput(t)
        BY <4>1, <4>2, <4>3
      <4>5. colours[s] = colours[t]
        BY <4>4 DEF NextInput
      <4>. QED
        BY <4>5 DEF Compiled, ColoursTell
    <3>3. CASE s \notin refining /\ t \notin refining
      <4>1. colours[s] = colours[t]
        BY <1>2, <2>1, <3>3
      <4>. QED
        BY <4>1 DEF Compiled, ColoursTell
    <3>. QED
      BY <2>1, <3>1, <3>2, <3>3
  <2>. QED
    BY <1>1, <2>1 DEF ColoursTell
<1>12. Latest'
  <2>1. ASSUME NEW s \in refining', NEW t \in AllSymbols
        PROVE  colours'[t][1] <= colours'[s][1]
    <3>1. s \in refining
      BY DEF Round
    <3>2. colours[t][1] <= colours[s][1] /\ colours[t][1] \in Nat /\ colours[s][1] \in Nat
      BY <1>4, <1>5, <3>1 DEF Compiled, Latest
    <3>3. colours'[s][1] = colours[s][1] + 1
      BY <1>8, <3>1
    <3>4. colours'[t][1] = colours[t][1] \/ colours'[t][1] = colours[t][1] + 1
      BY <1>2, <1>8
    <3>. QED
      BY <3>2, <3>3, <3>4
  <2>. QED
    BY <1>1, <2>1 DEF Latest
<1>13. ASSUME NEW s \in refining
       PROVE  /\ s \in Copies /\ colours[s][1] \in Nat /\ Initially(s) \in Nat
              /\ colours'[s][1] = colours[s][1] + 1
              /\ colours[s][1] + Initially(s) <= Distinct(Relatives(s), colours)
              /\ Distinct(Relatives(s), colours) \in Nat /\ Distinct(Relatives(s), colours') \in Nat
              /\ Distinct(Relatives(s), colours) <= Cardinality(Relatives(s))
              /\ Cardinality(Relatives(s)) \in Nat
  <2>1. s \in Copies /\ colours[s][1] \in Nat
    BY <1>3, <1>4, <1>5
  <2>. QED
    BY <1>3, <1>8, <2>1, DistinctIsSmall DEF Compiled, Gained
<1>14. Gained'
  <2>1. ASSUME NEW s \in refining'
        PROVE  colours'[s][1] + Initially(s) <= Distinct(Relatives(s), colours')
    <3>1. s \in refining /\ Distinct(Relatives(s), colours') > Distinct(Relatives(s), colours)
      BY DEF Round
    <3>. QED
      BY <1>13, <3>1
  <2>2. \A s : Distinct(Relatives(s), colours)' = Distinct(Relatives(s), colours')
    BY <1>1 DEF Distinct
  <2>. QED
    BY <1>1, <2>1, <2>2 DEF Gained
<1>15. RoundsAreBounded'
  <2>1. ASSUME NEW s \in Copies
        PROVE  colours'[s][1] + Initially(s) <= Cardinality(Relatives(s)) + 1
    <3>1. CASE s \in refining
      BY <1>13, <3>1
    <3>2. CASE s \notin refining
      <4>1. colours'[s] = colours[s]
        BY <1>2, <3>2 DEF Copies
      <4>. QED
        BY <4>1 DEF Compiled, RoundsAreBounded, Initially
    <3>. QED
      BY <3>1, <3>2
  <2>2. \A s : Initially(s)' = Cardinality({InitialInput(t) : t \in Relatives(s)})'
    BY DEF Initially
  <2>. QED
    BY <1>1, <2>1, <2>2 DEF RoundsAreBounded
<1>. QED
  BY <1>1, <1>6, <1>7, <1>10, <1>11, <1>12, <1>14, <1>15 DEF Compiled

(***************************************************************************)
(* Fingerprints.                                                           *)
(***************************************************************************)

\* Symbols that are still alike, in file order.
Laid(set) == {e \in set \X set : PlaceOf(e[1]) < PlaceOf(e[2])}

LEMMA TiesOrdered ==
    ASSUME build \in Rebuilds, NEW s \in AllSymbols
    PROVE  /\ Ties(s) \in SUBSET AllSymbols /\ s \in Ties(s) /\ IsFiniteSet(Ties(s))
           /\ Ordered(Laid(Ties(s)), Ties(s))
           /\ \A t \in Ties(s) :
                /\ Ties(t) = Ties(s)
                /\ Below(Laid(Ties(s)), Ties(s), t) = {u \in Ties(t) : PlaceOf(u) < PlaceOf(t)}
<1>. DEFINE tied == Ties(s)
<1>1. tied \in SUBSET AllSymbols /\ s \in tied /\ \A t \in tied : t[1] = s[1] /\ Ties(t) = tied
  BY DEF Ties
<1>2. IsFiniteSet(tied)
  BY <1>1, SymbolsOf, FS_Subset
<1>. HIDE DEF tied
<1>3. \A x, y \in tied : PlaceOf(x) \in Nat /\ (PlaceOf(x) = PlaceOf(y) => x = y)
  BY <1>1, PlacesDiffer
<1>4. \A x, y \in tied : <<x, y>> \in Laid(tied) <=> PlaceOf(x) < PlaceOf(y)
  BY DEF Laid
<1>5. Ordered(Laid(tied), tied)
  BY <1>3, <1>4 DEF Ordered
<1>6. \A t \in tied : Below(Laid(tied), tied, t) = {u \in tied : PlaceOf(u) < PlaceOf(t)}
  BY <1>4 DEF Below
<1>. QED
  BY <1>1, <1>2, <1>5, <1>6 DEF tied

LEMMA FingerprintsDiffer ==
    ASSUME build \in Rebuilds, NEW s \in AllSymbols, NEW t \in AllSymbols, s[1] = t[1], s # t
    PROVE  Fingerprint(s) # Fingerprint(t)
<1>. DEFINE Number(u) == IF ByOrder(u) THEN {Cardinality({v \in Ties(u) : PlaceOf(v) < PlaceOf(u)})} ELSE {}
<1>1. \A u \in {s, t} :
        /\ Copied(u) => Fingerprint(u) = <<Content(u), colours[u], Number(u)>>
        /\ ~Copied(u) => Fingerprint(u) = <<Content(u)>>
  BY DEF Fingerprint
<1>. HIDE DEF Number
<1>2. CASE Content(s) # Content(t)
  <2>1. Fingerprint(s)[1] = Content(s) /\ Fingerprint(t)[1] = Content(t)
    BY <1>1
  <2>. QED
    BY <1>2, <2>1
<1>3. CASE Content(s) = Content(t)
  <2>1. Copied(s) /\ Copied(t)
    BY <1>3 DEF Copied
  <2>2. CASE colours[s] # colours[t]
    <3>1. Fingerprint(s)[2] = colours[s] /\ Fingerprint(t)[2] = colours[t]
      BY <1>1, <2>1
    <3>. QED
      BY <2>2, <3>1
  <2>3. CASE colours[s] = colours[t]
    <3>. DEFINE tied == Ties(s)
                order == Laid(tied)
    <3>1. t \in tied
      BY <2>3 DEF Ties
    <3>2. /\ s \in tied /\ IsFiniteSet(tied) /\ Ordered(order, tied)
          /\ \A u \in tied :
                Ties(u) = tied /\ Below(order, tied, u) = {v \in Ties(u) : PlaceOf(v) < PlaceOf(u)}
      BY TiesOrdered
    <3>. HIDE DEF tied, order
    <3>3. Cardinality(tied) > 1
      <4>1. {s} \in SUBSET tied /\ {s} # tied
        BY <3>1, <3>2
      <4>2. Cardinality({s}) = 1 /\ Cardinality({s}) <= Cardinality(tied)
            /\ (Cardinality(tied) = Cardinality({s}) => tied = {s})
        BY <3>2, <4>1, FS_Singleton, FS_Subset
      <4>3. Cardinality(tied) \in Nat
        BY <3>2, FS_CardinalityType
      <4>. QED
        BY <4>1, <4>2, <4>3
    <3>4. ByOrder(s) /\ ByOrder(t)
      BY <2>1, <3>1, <3>2, <3>3 DEF ByOrder
    <3>5. /\ Number(s) = {Cardinality(Below(order, tied, s))}
          /\ Number(t) = {Cardinality(Below(order, tied, t))}
      BY <3>1, <3>2, <3>4 DEF Number
    <3>6. Cardinality(Below(order, tied, s)) # Cardinality(Below(order, tied, t))
      <4>1. <<s, t>> \in order \/ <<t, s>> \in order
        BY <3>1, <3>2 DEF Ordered
      <4>. QED
        BY <3>1, <3>2, <4>1, BelowGrows
    <3>7. Number(s) # Number(t)
      BY <3>5, <3>6
    <3>8. Fingerprint(s)[3] = Number(s) /\ Fingerprint(t)[3] = Number(t)
      BY <1>1, <2>1
    <3>. QED
      BY <3>7, <3>8
  <2>. QED
    BY <2>2, <2>3
<1>. QED
  BY <1>2, <1>3

\* The numbers that are given out among as many symbols are the same.
LEMMA NumbersLast ==
    ASSUME build \in Rebuilds, NEW s \in AllSymbols, NEW t \in AllSymbols, ByOrder(s), Copied(t),
           colours[s] = colours[t], Content(s) = Content(t), ColoursTell,
           Cardinality(Ties(s)) = Cardinality(Ties(t))
    PROVE  \E u \in Ties(t) : Fingerprint(u) = Fingerprint(s)
<1>. DEFINE ones == Ties(s)
            others == Ties(t)
            number == Cardinality(Below(Laid(ones), ones, s))
<1>1. /\ s \in ones /\ IsFiniteSet(ones) /\ Ordered(Laid(ones), ones)
      /\ \A u \in ones :
            Ties(u) = ones /\ Below(Laid(ones), ones, u) = {v \in Ties(u) : PlaceOf(v) < PlaceOf(u)}
  BY TiesOrdered
<1>2. /\ others \in SUBSET AllSymbols /\ t \in others
      /\ IsFiniteSet(others) /\ Ordered(Laid(others), others)
      /\ \A u \in others :
            Ties(u) = others /\ Below(Laid(others), others, u) = {v \in Ties(u) : PlaceOf(v) < PlaceOf(u)}
  BY TiesOrdered
<1>3. Fingerprint(s) = <<Content(s), colours[s], {number}>>
  BY <1>1 DEF Fingerprint, ByOrder
<1>4. \A u \in others : u \in AllSymbols /\ u[1] = t[1] /\ colours[u] = colours[t]
  BY DEF Ties
<1>. HIDE DEF ones, others, number
<1>5. number \in 0 .. (Cardinality(ones) - 1)
  <2>1. Below(Laid(ones), ones, s) \in SUBSET ones /\ s \notin Below(Laid(ones), ones, s)
    BY <1>1 DEF Below, Ordered
  <2>2. /\ IsFiniteSet(Below(Laid(ones), ones, s)) /\ number <= Cardinality(ones)
        /\ Cardinality(ones) = number => ones = Below(Laid(ones), ones, s)
    BY <1>1, <2>1, FS_Subset DEF number
  <2>3. number \in Nat /\ Cardinality(ones) \in Nat
    BY <1>1, <2>2, FS_CardinalityType DEF number
  <2>. QED
    BY <1>1, <2>1, <2>2, <2>3
<1>6. number \in 0 .. (Cardinality(others) - 1)
  BY <1>5 DEF ones, others
<1>7. PICK u \in others : Cardinality(Below(Laid(others), others, u)) = number
  BY <1>2, <1>6, EveryPosition
<1>8. Content(u) = Content(s) /\ colours[u] = colours[s]
  BY <1>4 DEF ColoursTell
<1>9. Copied(u)
  BY <1>4, <1>8 DEF Copied
<1>10. ByOrder(u)
  <2>1. Cardinality(Ties(u)) = Cardinality(Ties(s))
    BY <1>2 DEF others
  <2>. QED
    BY <1>9, <2>1 DEF ByOrder
<1>11. Fingerprint(u) = <<Content(u), colours[u], {number}>>
  BY <1>2, <1>7, <1>9, <1>10 DEF Fingerprint
<1>. QED
  BY <1>3, <1>8, <1>11 DEF others

\* Symbols that are still alike in one build are alike in the other.
LEMMA TiesLast ==
    ASSUME Compiled, NEW f \in Members
    PROVE  /\ Ties(<<2, f>>) = Over(Ties(<<1, f>>))
           /\ Cardinality(Ties(<<2, f>>)) = Cardinality(Ties(<<1, f>>))
<1>1. build \in Rebuilds /\ Matched(colours) /\ ColoursTell
  BY DEF Compiled, InStep
<1>2. Ties(<<1, f>>) \in SUBSET AllSymbols /\ \A s \in Ties(<<1, f>>) : s[1] = 1
  BY DEF Ties
<1>3. Ties(<<2, f>>) \in SUBSET AllSymbols
  BY DEF Ties
<1>4. ASSUME NEW t \in AllSymbols
      PROVE  t \in Ties(<<2, f>>) <=> t[1] = 2 /\ t[2] \in Members /\ <<1, t[2]>> \in Ties(<<1, f>>)
  <2>1. colours[<<1, f>>] = colours[<<2, f>>]
    BY <1>1 DEF Matched
  <2>2. ASSUME t \in Ties(<<2, f>>)
        PROVE  t[1] = 2 /\ t[2] \in Members /\ <<1, t[2]>> \in Ties(<<1, f>>)
    <3>1. t[1] = 2 /\ colours[t] = colours[<<2, f>>] /\ t = <<2, t[2]>>
      BY <1>1, <2>2, SymbolsOf DEF Ties
    <3>2. Content(t) = Content(<<1, f>>)
      BY <1>1, <2>1, <3>1, SymbolsOf DEF ColoursTell
    <3>3. t[2] \in Members
      BY <1>1, <3>2, MembersLast
    <3>4. colours[<<1, t[2]>>] = colours[t]
      BY <1>1, <3>1, <3>3 DEF Matched
    <3>. QED
      BY <1>1, <2>1, <3>1, <3>3, <3>4, SymbolsOf DEF Ties
  <2>3. ASSUME t[1] = 2, t[2] \in Members, <<1, t[2]>> \in Ties(<<1, f>>)
        PROVE  t \in Ties(<<2, f>>)
    <3>1. t = <<2, t[2]>> /\ colours[<<1, t[2]>>] = colours[<<1, f>>]
      BY <1>1, <2>3, SymbolsOf DEF Ties
    <3>2. colours[t] = colours[<<1, t[2]>>]
      BY <1>1, <2>3, <3>1 DEF Matched
    <3>. QED
      BY <2>1, <2>3, <3>1, <3>2 DEF Ties
  <2>. QED
    BY <2>2, <2>3
<1>5. Ties(<<2, f>>) = Over(Ties(<<1, f>>))
  <2>1. Over(Ties(<<1, f>>)) \subseteq AllSymbols
    BY <1>1, <1>2, OverMembers
  <2>2. \A t \in AllSymbols : t \in Over(Ties(<<1, f>>)) <=>
            t[1] = 2 /\ t[2] \in Members /\ <<1, t[2]>> \in Ties(<<1, f>>)
    BY <1>1, <1>2, OverMembers
  <2>. QED
    BY <1>3, <1>4, <2>1, <2>2
<1>. QED
  BY <1>1, <1>2, <1>5, OverCounts

LEMMA CompiledLasts ==
    ASSUME Compiled
    PROVE  IdentitiesLast
<1>1. /\ build \in Rebuilds /\ Matched(colours) /\ ColoursTell /\ RoundsAreBounded
      /\ colours \in [AllSymbols -> Nat \X AllSymbols] /\ refining \subseteq Copies
  BY DEF Compiled, InStep
<1>2. IdentityTypeOK
  <2>1. IsBuild(build[1], In(1)) /\ IsBuild(build[2], In(2))
    BY <1>1, FirstBuild, SecondBuild
  <2>. QED
    BY <1>1, <2>1 DEF IdentityTypeOK, Builds
<1>3. IdentitiesAreUnique
  BY <1>1, FingerprintsDiffer DEF IdentitiesAreUnique
<1>4. ASSUME NEW f \in Members
      PROVE  /\ <<1, f>> \in AllSymbols /\ <<2, f>> \in AllSymbols
             /\ Copied(<<1, f>>) <=> Copied(<<2, f>>)
             /\ ByOrder(<<1, f>>) <=> ByOrder(<<2, f>>)
             /\ Content(<<1, f>>) = Content(<<2, f>>) /\ colours[<<1, f>>] = colours[<<2, f>>]
             /\ Cardinality(Ties(<<1, f>>)) = Cardinality(Ties(<<2, f>>))
             /\ ~ByOrder(<<1, f>>) => Fingerprint(<<1, f>>) = Fingerprint(<<2, f>>)
  <2>1. /\ Copied(<<1, f>>) <=> Copied(<<2, f>>)
        /\ Content(<<1, f>>) = Content(<<2, f>>) /\ colours[<<1, f>>] = colours[<<2, f>>]
        /\ Cardinality(Ties(<<1, f>>)) = Cardinality(Ties(<<2, f>>))
    BY <1>1, CopiesLast, MembersLast, TiesLast DEF Matched
  <2>2. ByOrder(<<1, f>>) <=> ByOrder(<<2, f>>)
    BY <2>1 DEF ByOrder
  <2>3. ~ByOrder(<<1, f>>) => Fingerprint(<<1, f>>) = Fingerprint(<<2, f>>)
    BY <2>1, <2>2 DEF Fingerprint
  <2>. QED
    BY <1>1, <2>1, <2>2, <2>3, SymbolsOf
<1>5. \A f \in Members : \E g \in Members : Fingerprint(<<2, g>>) = Fingerprint(<<1, f>>)
  <2>1. ASSUME NEW f \in Members, ByOrder(<<1, f>>)
        PROVE  \E g \in Members : Fingerprint(<<2, g>>) = Fingerprint(<<1, f>>)
    <3>1. Copied(<<2, f>>)
      BY <1>4, <2>1 DEF ByOrder
    <3>2. PICK u \in Ties(<<2, f>>) : Fingerprint(u) = Fingerprint(<<1, f>>)
      BY <1>1, <1>4, <2>1, <3>1, NumbersLast
    <3>3. u \in Over(Ties(<<1, f>>))
      BY TiesLast
    <3>4. u = <<2, u[2]>> /\ u[2] \in Members
      <4>1. Ties(<<1, f>>) \in SUBSET AllSymbols /\ \A s \in Ties(<<1, f>>) : s[1] = 1
        BY DEF Ties
      <4>. QED
        BY <1>1, <3>3, <4>1, OverMembers, SymbolsOf
    <3>. QED
      BY <3>2, <3>4
  <2>. QED
    BY <1>4, <2>1
<1>6. \A f \in Members : \E g \in Members : Fingerprint(<<1, g>>) = Fingerprint(<<2, f>>)
  <2>1. ASSUME NEW f \in Members, ByOrder(<<2, f>>)
        PROVE  \E g \in Members : Fingerprint(<<1, g>>) = Fingerprint(<<2, f>>)
    <3>1. Copied(<<1, f>>)
      BY <1>4, <2>1 DEF ByOrder
    <3>2. PICK u \in Ties(<<1, f>>) : Fingerprint(u) = Fingerprint(<<2, f>>)
      BY <1>1, <1>4, <2>1, <3>1, NumbersLast
    <3>3. u \in AllSymbols /\ u[1] = 1
      BY DEF Ties
    <3>4. u = <<1, u[2]>> /\ u[2] \in Members
      BY <1>1, <3>3, SymbolsOf
    <3>. QED
      BY <3>2, <3>4
  <2>. QED
    BY <1>4, <2>1
<1>7. {Fingerprint(<<1, f>>) : f \in Members} = {Fingerprint(<<2, f>>) : f \in Members}
  <2>. DEFINE first == {Fingerprint(<<1, f>>) : f \in Members}
              second == {Fingerprint(<<2, f>>) : f \in Members}
  <2>1. \A x \in first : x \in second
    BY <1>5
  <2>2. \A x \in second : x \in first
    BY <1>6
  <2>. HIDE DEF first, second
  <2>3. first = second
    BY <2>1, <2>2
  <2>. QED
    BY <2>3 DEF first, second
<1>8. OnlyOrderMoves
  BY <1>4, <1>7 DEF OnlyOrderMoves
<1>. QED
  BY <1>1, <1>2, <1>3, <1>8 DEF IdentitiesLast

\* Identities name symbols across builds, for every program, every other order of
\* its symbols and whatever unrelated code joins it: no two symbols of a build
\* share one, refinement ends in bounded time, and none moves but those marked as
\* taken from file order (assign_identities, refine, components).
THEOREM IdentitiesLasting == IdentitySpec => []IdentitiesLast
<1>1. IdentityInit => IdentityInv
  BY DEF IdentityInit, IdentityInv
<1>2. build \in Rebuilds /\ colours = InitialColours /\ refining = Copies => Compiled
  BY CompiledFirst
<1>3. IdentityInv /\ [IdentityNext]_identityVars => IdentityInv'
  <2>1. ASSUME Compile
        PROVE  IdentityInv'
    <3>1. (build \in Rebuilds /\ colours = InitialColours /\ refining = Copies)'
      BY <2>1 DEF Compile
    <3>2. Compiled'
      BY <1>2, <3>1, PTL
    <3>. QED
      BY <3>2 DEF IdentityInv
  <2>2. ASSUME IdentityInv, Round
        PROVE  IdentityInv'
    <3>1. Compiled
      BY <2>2 DEF IdentityInv, Round
    <3>. QED
      BY <2>2, <3>1, CompiledNext DEF IdentityInv
  <2>3. ASSUME IdentityInv, UNCHANGED identityVars
        PROVE  IdentityInv'
    <3>1. /\ AllSymbols' = AllSymbols /\ Copies' = Copies /\ colours' = colours /\ refining' = refining
          /\ \A s : /\ Relatives(s)' = Relatives(s) /\ InitialInput(s)' = InitialInput(s)
                    /\ Content(s)' = Content(s) /\ Initially(s)' = Initially(s)
      BY <2>3, SameBuild DEF identityVars
    <3>2. InStep' = InStep
      BY <3>1 DEF InStep, Matched
    <3>3. ColoursTell' = ColoursTell
      BY <3>1 DEF ColoursTell
    <3>4. Latest' = Latest
      BY <3>1 DEF Latest
    <3>5. Gained' = Gained
      BY <3>1 DEF Gained, Distinct
    <3>6. RoundsAreBounded' = RoundsAreBounded
      BY <3>1 DEF RoundsAreBounded
    <3>7. build' = build
      BY <2>3 DEF identityVars
    <3>. QED
      BY <2>3, <3>1, <3>2, <3>3, <3>4, <3>5, <3>6, <3>7 DEF IdentityInv, Compiled
  <2>. QED
    BY <2>1, <2>2, <2>3 DEF IdentityNext
<1>4. IdentityInv => IdentitiesLast
  BY CompiledLasts DEF IdentityInv, IdentitiesLast
<1>. QED
  BY <1>1, <1>3, <1>4, PTL DEF IdentitySpec
=============================================================================
