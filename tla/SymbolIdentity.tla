---------------------------- MODULE SymbolIdentity ----------------------------
(***************************************************************************)
(* artifact/src/identity.rs: every symbol of an artifact gets a fingerprint   *)
(* of its own.  Symbols that share their content are told apart by colour     *)
(* refinement over the call graph, one weakly connected component of copies  *)
(* at a time, and what refinement cannot separate is numbered in file order.  *)
(*                                                                           *)
(* Two builds of a program are fingerprinted side by side.  The second differs *)
(* from the first in ways that should not matter: the symbols are laid out in  *)
(* another order, and code that has nothing to do with the rest has joined.    *)
(*                                                                           *)
(* A colour is a hash, and a hash is as good as what is hashed: here a round   *)
(* and one of the symbols, of both builds, with the same input to it.          *)
(***************************************************************************)
EXTENDS Naturals, FiniteSets

CONSTANTS
    Members,    \* the symbols of the program
    Newcomers,  \* symbols that may join it
    Codes,      \* names and bodies
    Rebuilds    \* the pairs of builds that are compared

\* A symbol that is rooted, sized or resolved unlike the rest.
Traits == {"plain", "rooted", "other", "unresolved"}

\* A build of some symbols: their places in the file, and the calls among them.
IsBuild(p, symbols) ==
    /\ p.place \in [symbols -> Nat] /\ \A f, g \in symbols : p.place[f] = p.place[g] => f = g
    /\ p.code \in [symbols -> Codes] /\ p.trait \in [symbols -> Traits]
    /\ p.calls \subseteq symbols \X symbols

\* Laid out in any order, and joined by code that shares nothing with the program
\* and neither calls it nor is called by it.
Rebuilt(p, q, new) ==
    /\ \A f \in Members : q.code[f] = p.code[f] /\ q.trait[f] = p.trait[f]
    /\ \A f \in Members, g \in new : q.code[g] # p.code[f]
    /\ p.calls \subseteq q.calls /\ q.calls \ p.calls \subseteq new \X new

ASSUME IdentityAssumption ==
    /\ IsFiniteSet(Members) /\ IsFiniteSet(Newcomers) /\ Members \cap Newcomers = {}
    /\ \A r \in Rebuilds :
        /\ IsBuild(r[1], Members)
        /\ \E new \in SUBSET Newcomers : IsBuild(r[2], Members \cup new) /\ Rebuilt(r[1], r[2], new)

VARIABLES
    build,      \* build[b]: places, codes, traits and calls; <<>> before it
    colours,    \* colours[s]: the colour of symbol s so far
    refining    \* copies whose component still splits

identityVars == <<build, colours, refining>>

Builds == {1, 2}
In(b) == DOMAIN build[b].place
AllSymbols == {s \in Builds \X (Members \cup Newcomers) : s[2] \in In(s[1])}

Content(s) == build[s[1]].code[s[2]]
Special(s) == build[s[1]].trait[s[2]]

\* The hash of an input, of those that symbols are paired with in inputs.
Hash(round, inputs, input) == <<round, (CHOOSE p \in inputs : p[2] = input)[1]>>

(***************************************************************************)
(* refined_colours: the symbols that are refined, and from what.            *)
(***************************************************************************)

\* Graph::new: the neighbours of a symbol are sets.
Callers(s) == {t \in AllSymbols : t[1] = s[1] /\ <<t[2], s[2]>> \in build[s[1]].calls}
Callees(s) == {t \in AllSymbols : t[1] = s[1] /\ <<s[2], t[2]>> \in build[s[1]].calls}

Copied(s) == \E t \in AllSymbols : t[1] = s[1] /\ t # s /\ Content(t) = Content(s)

Copies == {s \in AllSymbols : Copied(s)}

\* initial_colour for a copy; another symbol keeps its content as its colour.
InitialInput(s) ==
    IF Copied(s) THEN <<Content(s), Special(s) = "rooted", Special(s) = "other">> ELSE <<Content(s)>>

\* components: the copies that calls among copies connect s with.
Relatives(s) ==
    LET copies == {t \in Copies : t[1] = s[1]}
        calls == {e \in build[s[1]].calls : <<s[1], e[1]>> \in copies /\ <<s[1], e[2]>> \in copies}
        closed == {set \in SUBSET copies :
            s \in set /\ \A e \in calls : <<s[1], e[1]>> \in set <=> <<s[1], e[2]>> \in set}
    IN {t \in copies : \A set \in closed : t \in set}

(***************************************************************************)
(* refine.                                                                 *)
(***************************************************************************)

\* How many neighbours have each colour.
Counts(neighbours) ==
    [c \in {colours[t] : t \in neighbours} |-> Cardinality({t \in neighbours : colours[t] = c})]

\* Graph::next_colour, what is hashed.
NextInput(s) == <<colours[s], Counts(Callers(s)), Counts(Callees(s)), Special(s) = "unresolved">>

Distinct(component, of) == Cardinality({of[s] : s \in component})

\* One round of every component that still splits.  Components do not read each
\* other, so whether they are refined together or in turn is the same.
Round ==
    /\ refining # {}
    /\ LET inputs == {<<s, NextInput(s)>> : s \in refining}
       IN colours' = [s \in AllSymbols |->
            IF s \in refining THEN Hash(colours[s][1] + 1, inputs, NextInput(s)) ELSE colours[s]]
    /\ refining' = {s \in refining :
            Distinct(Relatives(s), colours') > Distinct(Relatives(s), colours)}
    /\ UNCHANGED build

(***************************************************************************)
(* assign_identities.                                                      *)
(***************************************************************************)

PlaceOf(s) == build[s[1]].place[s[2]]

Ties(s) == {t \in AllSymbols : t[1] = s[1] /\ colours[t] = colours[s]}

ByOrder(s) == Copied(s) /\ Cardinality(Ties(s)) > 1

\* Mutant: copies that are still alike share an identity.
Unnumbered(s) == IF Copied(s) THEN <<Content(s), colours[s], {}>> ELSE <<Content(s)>>

\* copy_fingerprint: content, final colour, and the number among those still
\* alike, in file order.
Fingerprint(s) ==
    IF Copied(s)
    THEN <<Content(s), colours[s],
           IF ByOrder(s) THEN {Cardinality({t \in Ties(s) : PlaceOf(t) < PlaceOf(s)})} ELSE {}>>
    ELSE <<Content(s)>>

\* The colours all symbols start from.
InitialColours ==
    LET inputs == {<<s, InitialInput(s)>> : s \in AllSymbols}
    IN [s \in AllSymbols |-> Hash(0, inputs, InitialInput(s))]

IdentityInit == build = <<>> /\ colours = <<>> /\ refining = {}

\* Two builds.
Compile ==
    /\ build = <<>>
    /\ build' \in Rebuilds
    /\ colours' = InitialColours'
    /\ refining' = Copies'

IdentityNext == Compile \/ Round

IdentitySpec == IdentityInit /\ [][IdentityNext]_identityVars

(***************************************************************************)
(* Properties.                                                             *)
(***************************************************************************)

IdentityTypeOK ==
    /\ \A b \in Builds : IsBuild(build[b], In(b))
    /\ colours \in [AllSymbols -> Nat \X AllSymbols]
    /\ refining \subseteq Copies

\* A component is refined for at most as many rounds as it has symbols that its
\* initial colours do not tell apart, and one (refine).
RoundsAreBounded ==
    \A s \in Copies :
        LET relatives == Relatives(s)
        IN colours[s][1] + Cardinality({InitialInput(t) : t \in relatives}) <= Cardinality(relatives) + 1

Done == refining = {}

\* No two symbols of a build share a fingerprint (assign_identities).
IdentitiesAreUnique ==
    Done => LET fingerprint == [s \in AllSymbols |-> Fingerprint(s)]
            IN \A s, t \in AllSymbols : s[1] = t[1] /\ s # t => fingerprint[s] # fingerprint[t]

\* Another file order, and code that has nothing to do with the rest, move no
\* fingerprint but those marked as taken from file order, and move these only
\* among themselves (identity_by_order, components).
OnlyOrderMoves ==
    Done =>
        /\ \A f \in Members :
            /\ ByOrder(<<1, f>>) <=> ByOrder(<<2, f>>)
            /\ ~ByOrder(<<1, f>>) => Fingerprint(<<1, f>>) = Fingerprint(<<2, f>>)
        /\ {Fingerprint(<<1, f>>) : f \in Members} = {Fingerprint(<<2, f>>) : f \in Members}

\* Identities name symbols across builds: they are unique, they are found in
\* bounded time, and a relink or new code moves none but those marked as taken
\* from file order (identity.rs).
IdentitiesLast == build # <<>> =>
    /\ IdentityTypeOK
    /\ RoundsAreBounded
    /\ IdentitiesAreUnique
    /\ OnlyOrderMoves

\* Symmetries of the program: nothing but file order tells f from p[f].
Symmetries ==
    LET first == build[1]
    IN {p \in [Members -> Members] :
            /\ \A f \in Members : first.code[p[f]] = first.code[f] /\ first.trait[p[f]] = first.trait[f]
            /\ \A f, g \in Members :
                (f # g => p[f] # p[g]) /\ (<<f, g>> \in first.calls <=> <<p[f], p[g]>> \in first.calls)}

TiedPairs == {e \in Copies \X Copies : e[1][1] = 1 /\ e[1] # e[2] /\ e[2] \in Ties(e[1])}

\* Copies of one component that took file order to separate, file order alone
\* separates: a symmetry exchanges the two, in programs of a few symbols (refine).
ConnectedTiesAreAlike ==
    build # <<>> /\ Done => LET tied == {e \in TiedPairs : e[2] \in Relatives(e[1])}
            IN tied # {} => LET symmetries == Symmetries
                            IN \A e \in tied : \E p \in symmetries : p[e[1][2]] = e[2][2]
=============================================================================
