------------------------------ MODULE SharedRuns ------------------------------
(***************************************************************************)
(* features.rs, candidate.rs, maximal.rs, containment_index.rs and            *)
(* structural/regions.rs: how a structural scan finds runs of statements that *)
(* occur more than once.  Windows with equal summaries are paired, the pairs   *)
(* are folded into maximal runs, the runs that occur together are collected,   *)
(* compared by the tokens they cover, joined, and the ones a longer run        *)
(* accounts for are dropped.                                                 *)
(*                                                                           *)
(* A program gives each block a sequence of statements; a statement is of a    *)
(* kind, which decides its tokens and its summary, or holds another block.     *)
(* The blocks of a nested unit belong to two units.  A hash is what it is of;  *)
(* a byte is a token.                                                        *)
(***************************************************************************)
EXTENDS Integers, FiniteSets, Sequences, SequencesExt, FiniteSetsExt, Functions

CONSTANTS
    Blocks,         \* 1..n, in the order of files, units and walks
    FileOf, UnitOf, \* the file and the unit of a block
    TextOf,         \* the block whose source it is: itself, or the same in the host unit
    HostOf,         \* the statement that holds a block, or Top
    Programs,       \* functions from Blocks to sequences of kinds
    Tokens, Summary, \* of a kind
    Names,          \* the tokens a renaming may change
    WindowLengths, MinStatements, MaxRatio, PostingCap, PairBudget

Top == <<0, 0>>

RunsAssumption ==
    /\ Blocks = 1..Cardinality(Blocks)
    /\ \A b \in Blocks : TextOf[b] \in 1..b /\ HostOf[b][1] \in 0..b - 1
    /\ WindowLengths \subseteq Nat \ {0} /\ WindowLengths # {}
    /\ MinStatements \in Nat /\ MaxRatio \in Nat /\ PostingCap \in Nat /\ PairBudget \in Nat

VARIABLES
    program,    \* the statements of each block: summary, first token, end
    text,       \* the tokens of each file
    stage,
    seeds,      \* candidate pairs of windows
    folded,     \* pairs of runs the seeds fold into
    kept,       \* RegionSet::regions
    shared,     \* RegionSet::shared: sets of runs
    confirmed,  \* runs that hold the same content
    pending,    \* folded by content, still to be compared with longer ones
    report      \* what is left

vars == <<program, text, stage, seeds, folded, kept, shared, confirmed, pending, report>>

-----------------------------------------------------------------------------
(* The source *)

RECURSIVE StatementTokens(_, _, _), Origin(_, _)

BlockTokens(code, b) ==
    <<"{">> \o FlattenSeq([i \in DOMAIN code[b] |-> StatementTokens(code, b, i)]) \o <<"}">>

Held(b, i) == {c \in Blocks : HostOf[c] = <<b, i>>}

StatementTokens(code, b, i) ==
    IF Held(b, i) = {} THEN Tokens[code[b][i]] ELSE BlockTokens(code, Min(Held(b, i)))

OwnText == {b \in Blocks : TextOf[b] = b}

Position(code, b, i) ==
    Origin(code, b) + 1 + Len(FlattenSeq([j \in 1..i - 1 |-> StatementTokens(code, b, j)]))

Origin(code, b) ==
    IF HostOf[b] # Top THEN Position(code, HostOf[b][1], HostOf[b][2])
    ELSE 1 + MapThenSumSet(LAMBDA c : Len(BlockTokens(code, c)),
                {c \in OwnText : c < b /\ FileOf[c] = FileOf[b] /\ HostOf[c] = Top})

Statement(code, b, i) ==
    [summary |-> IF Held(b, i) = {} THEN Summary[code[b][i]] ELSE "block",
     from |-> Position(code, b, i),
     to |-> Position(code, b, i) + Len(StatementTokens(code, b, i))]

Text(code, f) ==
    FlattenSeq([b \in Blocks |-> IF TextOf[b] = b /\ HostOf[b] = Top /\ FileOf[b] = f
                                 THEN BlockTokens(code, b) ELSE <<>>])

-----------------------------------------------------------------------------
(* Runs of statements *)

Run(b, start, length) == [block |-> b, start |-> start, length |-> length]
End(r) == r.start + r.length
From(r) == program[r.block][r.start].from
To(r) == program[r.block][End(r) - 1].to
File(r) == FileOf[r.block]
Unit(r) == UnitOf[r.block]
Summaries(r) == [k \in 1..r.length |-> program[r.block][r.start + k - 1].summary]

\* fragment_fingerprint, raw
Content(r) == [k \in 1..To(r) - From(r) |-> <<text[File(r)][From(r) + k - 1]>>]

\* normalize: names are numbered by first occurrence within the run.
Normalized(r) ==
    LET c == Content(r)
        names == {k \in DOMAIN c : c[k][1] \in Names}
        Number(k) == Cardinality({c[j] : j \in {j \in names : j <= Min({i \in names : c[i] = c[k]})}})
    IN [k \in DOMAIN c |-> IF k \in names THEN <<"name", Number(k)>> ELSE c[k]]

Less(s, t) == \E k \in DOMAIN s : s[k] < t[k] /\ \A j \in 1..k - 1 : s[j] = t[j]

InOrder(S, key(_)) ==
    SortSeq(FoldSet(LAMBDA x, s : Append(s, x), <<>>, S), LAMBDA x, y : Less(key(x), key(y)))

\* FragmentRef and RegionSide, as they are ordered
Fragment(r) == <<File(r), Unit(r), From(r), To(r), r.length, r.block, r.start>>
Side(r) == <<File(r), Unit(r), r.block, r.start, r.length>>

\* intersects, adjoins
Intersects(r, s) == File(r) = File(s) /\ From(r) < To(s) /\ From(s) < To(r)
Adjoins(r, s) == r.block = s.block /\ (End(r) = s.start \/ End(s) = r.start)
Inside(r, s) == File(r) = File(s) /\ From(s) <= From(r) /\ To(r) <= To(s)

-----------------------------------------------------------------------------
(* candidate.rs *)

\* block_windows
Windows ==
    {w \in UNION {[block : {b}, start : DOMAIN program[b], length : WindowLengths] : b \in Blocks} :
        End(w) <= Len(program[w.block]) + 1}

Postings == {{w \in Windows : Summaries(w) = s} : s \in {Summaries(w) : w \in Windows}}
Eligible == {list \in Postings : Cardinality(list) \in 2..PostingCap}

PairsOf(list) == {p \in [a : list, b : list] : Less(Fragment(p.a), Fragment(p.b))}
PairsWithin(lists) == MapThenSumSet(LAMBDA list : Cardinality(PairsOf(list)), lists)

\* PairBudget: shortest lists first, up to the first that does not fit.  Hashes
\* order lists of one length.
Fits(taken) ==
    /\ PairsWithin(taken) <= PairBudget
    /\ \A list \in Eligible \ taken : PairsWithin(taken \cup {list}) > PairBudget

Generate ==
    /\ stage = "generate"
    /\ \E n \in {Cardinality(list) : list \in Eligible} \cup {2} :
          \E some \in SUBSET {list \in Eligible : Cardinality(list) = n} :
             LET taken == {list \in Eligible : Cardinality(list) < n} \cup some
             IN Fits(taken) /\ seeds' = UNION {PairsOf(list) : list \in taken}
    /\ stage' = "consolidate"
    /\ UNCHANGED <<program, text, folded, kept, shared, confirmed, pending, report>>

-----------------------------------------------------------------------------
(* maximal.rs: seeds at one alignment that touch are one run *)

Extent(r) == To(r) - From(r)

Diverges(p) ==
    Max({Extent(p.a), Extent(p.b)}) > MaxRatio * Min({Extent(p.a), Extent(p.b)})

Alignment(p) == [a |-> p.a.block, b |-> p.b.block, shift |-> p.b.start - p.a.start]

Aligned(alignment) == {p.a : p \in {p \in seeds : ~Diverges(p) /\ Alignment(p) = alignment}}

Grow(runs, seed) ==
    IF runs # <<>> /\ seed.start <= End(Last(runs))
    THEN [runs EXCEPT ![Len(runs)].length = Max({@, End(seed) - Last(runs).start})]
    ELSE Append(runs, seed)

\* emit
Emit(alignment, run) == [a |-> run, b |-> Run(alignment.b, run.start + alignment.shift, run.length)]

Folded ==
    UNION {{Emit(alignment, run) :
              run \in Range(FoldLeft(Grow, <<>>, InOrder(Aligned(alignment), LAMBDA r : <<r.start, r.length>>)))} :
           alignment \in {Alignment(p) : p \in seeds}}

\* overlaps_itself
Reportable(pair) == pair.a.length >= MinStatements /\ ~Intersects(pair.a, pair.b)

(* containment_index.rs: a Fenwick tree over the starts of the second span; each
   node a Fenwick tree over the ends of the first, greatest end first. *)

Lowbit(n) == Max({bit \in {1, 2, 4, 8, 16, 32} : n % bit = 0})

RECURSIVE Upwards(_, _), Downwards(_)

Upwards(node, size) ==
    IF node > size THEN {} ELSE {node} \cup Upwards(node + Lowbit(node), size)

Downwards(node) ==
    IF node = 0 THEN {} ELSE {node} \cup Downwards(node - Lowbit(node))

Entered(starts, pair) ==
    Upwards(Cardinality({s \in starts : s < From(pair.b)}) + 1, Cardinality(starts))

Reversed(ends, pair) == Cardinality({e \in ends : e >= To(pair.a)})

NewIndex(bucket) ==
    LET starts == {From(pair.b) : pair \in bucket}
        ends == [node \in 1..Cardinality(starts) |->
                    {To(pair.a) : pair \in {pair \in bucket : node \in Entered(starts, pair)}}]
    IN [starts |-> starts, ends |-> ends,
        greatest |-> [node \in DOMAIN ends |-> [slot \in 1..Cardinality(ends[node]) |-> 0]]]

\* Mutant: a container enters the node of its own start only.
EntersOne(index, pair) ==
    LET node == Min(Entered(index.starts, pair))
        Slots == Upwards(Reversed(index.ends[node], pair), Cardinality(index.ends[node]))
    IN [index EXCEPT !.greatest[node] =
          [slot \in DOMAIN @ |-> IF slot \in Slots THEN Max({@[slot], To(pair.b)}) ELSE @[slot]]]

Insert(index, pair) ==
    LET Slots(node) == Upwards(Reversed(index.ends[node], pair), Cardinality(index.ends[node]))
    IN [index EXCEPT !.greatest =
          [node \in DOMAIN @ |->
             IF node \notin Entered(index.starts, pair) THEN @[node]
             ELSE [slot \in DOMAIN @[node] |->
                     IF slot \in Slots(node) THEN Max({@[node][slot], To(pair.b)}) ELSE @[node][slot]]]]

ContainsBoth(index, pair) ==
    \E node \in Downwards(Cardinality({s \in index.starts : s <= From(pair.b)})) :
       \E slot \in Downwards(Reversed(index.ends[node], pair)) :
          index.greatest[node][slot] >= To(pair.b)

\* remove_contained: the first span from left to right, the widest first.
RemoveContained(bucket) ==
    FoldLeft(LAMBDA sweep, pair :
                IF ContainsBoth(sweep.index, pair) THEN sweep
                ELSE [index |-> Insert(sweep.index, pair), kept |-> sweep.kept \cup {pair}],
             [index |-> NewIndex(bucket), kept |-> {}],
             InOrder(bucket, LAMBDA pair : <<From(pair.a), -To(pair.a), From(pair.b), -To(pair.b)>>
                                           \o Side(pair.a) \o Side(pair.b))).kept

Files(pair) == <<File(pair.a), File(pair.b)>>

Kept(pairs) ==
    UNION {RemoveContained({pair \in pairs : Files(pair) = files}) : files \in {Files(pair) : pair \in pairs}}

\* share: the runs that pairs connect.
Share(pairs) ==
    FoldSet(LAMBDA pair, sets :
                LET joined == {set \in sets : set \cap {pair.a, pair.b} # {}}
                IN (sets \ joined) \cup {UNION joined \cup {pair.a, pair.b}},
            {}, pairs)

Consolidate ==
    /\ stage = "consolidate"
    /\ folded' = Folded
    /\ kept' = Kept({pair \in folded' : Reportable(pair)})
    /\ shared' = Share(kept')
    /\ stage' = "confirm"
    /\ UNCHANGED <<program, text, seeds, confirmed, pending, report>>

-----------------------------------------------------------------------------
(* regions.rs *)

SameStretch(r, s) == Intersects(r, s) \/ Adjoins(r, s)

Distinct(runs) ==
    FoldLeft(LAMBDA found, r : IF \E s \in Range(found) : SameStretch(r, s) THEN found ELSE Append(found, r),
             <<>>, runs)

\* Type1 when nothing but layout differs; the fingerprint is of what agrees.
Region(sides) ==
    IF \A k \in DOMAIN sides : Content(sides[k]) = Content(sides[1])
    THEN [type |-> 1, content |-> Content(sides[1]), sides |-> sides]
    ELSE [type |-> 2, content |-> Normalized(sides[1]), sides |-> sides]

Fingerprint(region) == <<region.type, region.content>>
Statements(region) == region.sides[1].length

\* Mutant: one occurrence that differs refutes the candidate.
AllOrNothing(candidate) ==
    IF Cardinality({Normalized(r) : r \in candidate}) > 1 THEN {}
    ELSE {region \in {Region(Distinct(InOrder(candidate, Side)))} : Len(region.sides) >= 2}

ConfirmOne(candidate) ==
    LET Class(content) == {r \in candidate : Normalized(r) = content}
        Sites(content) == Distinct(InOrder(Class(content), Side))
    IN {Region(Sites(content)) :
          content \in {content \in {Normalized(r) : r \in candidate} : Len(Sites(content)) >= 2}}

Confirm ==
    /\ stage = "confirm"
    /\ confirmed' = UNION {ConfirmOne(candidate) : candidate \in shared}
    /\ stage' = "grow"
    /\ UNCHANGED <<program, text, seeds, folded, kept, shared, pending, report>>

\* alignment_of
Offsets(region) ==
    [k \in DOMAIN region.sides |->
        <<region.sides[k].block, region.sides[k].start - region.sides[1].start>>]

\* Chain::absorb: the sides grow side by side.
Absorb(chains, sides) ==
    IF chains # <<>> /\ sides[1].start <= End(Last(chains).sides[1])
    THEN [chains EXCEPT ![Len(chains)] =
            [sides |-> [k \in DOMAIN sides |->
                Run(sides[k].block, @.sides[k].start,
                    Max({End(sides[k]), End(@.sides[k])}) - @.sides[k].start)],
             longest |-> Max({@.longest, sides[1].length})]]
    ELSE Append(chains, [sides |-> sides, longest |-> sides[1].length])

\* Chain::finish
Worthwhile(chain) ==
    /\ chain.sides[1].length > chain.longest
    /\ \A j, k \in DOMAIN chain.sides : j # k => ~Intersects(chain.sides[j], chain.sides[k])

MergeAdjacent(regions) ==
    LET Members(offsets) == {region.sides : region \in {region \in regions : Offsets(region) = offsets}}
        Chains(offsets) ==
            FoldLeft(Absorb, <<>>,
                     InOrder(Members(offsets), LAMBDA sides : <<sides[1].start, sides[1].length>>))
    IN {Range(chain.sides) : chain \in
          {chain \in UNION {Range(Chains(Offsets(region))) : region \in regions} : Worthwhile(chain)}}

GrowRuns ==
    /\ stage = "grow"
    /\ confirmed' = confirmed \cup UNION {ConfirmOne(candidate) : candidate \in MergeAdjacent(confirmed)}
    /\ stage' = "fold"
    /\ UNCHANGED <<program, text, seeds, folded, kept, shared, pending, report>>

\* One entry per fingerprint, its occurrences in source order.
FoldByContent ==
    /\ stage = "fold"
    /\ LET Occurrences(print) == UNION {Range(region.sides) : region \in
                                    {region \in confirmed : Fingerprint(region) = print}}
           Entry(print) == [type |-> print[1], content |-> print[2],
                            sides |-> Distinct(InOrder(Occurrences(print), LAMBDA r : <<File(r), From(r), To(r)>> \o Side(r)))]
       IN pending' = {entry \in {Entry(Fingerprint(region)) : region \in confirmed} : Len(entry.sides) >= 2}
    /\ stage' = "settle"
    /\ UNCHANGED <<program, text, seeds, folded, kept, shared, confirmed, report>>

\* covers_run
CoversRun(outer, inner) ==
    /\ Fingerprint(outer) # Fingerprint(inner) /\ outer.type <= inner.type
    /\ \A k \in DOMAIN inner.sides : \E j \in DOMAIN outer.sides : Inside(inner.sides[k], outer.sides[j])

\* drop_subsumed: the most statements first.
DropSubsumed ==
    /\ stage = "settle"
    /\ \E region \in pending :
          /\ \A other \in pending : Statements(other) <= Statements(region)
          /\ pending' = pending \ {region}
          /\ report' = report \cup {inner \in {region} : \A outer \in report : ~CoversRun(outer, inner)}
    /\ UNCHANGED <<program, text, stage, seeds, folded, kept, shared, confirmed>>

Init ==
    /\ \E code \in Programs :
          /\ program = [b \in Blocks |-> [i \in DOMAIN code[TextOf[b]] |-> Statement(code, TextOf[b], i)]]
          /\ text = [f \in Range(FileOf) |-> Text(code, f)]
    /\ stage = "generate"
    /\ seeds = {} /\ folded = {} /\ kept = {} /\ shared = {} /\ confirmed = {} /\ pending = {} /\ report = {}

Next == Generate \/ Consolidate \/ Confirm \/ GrowRuns \/ FoldByContent \/ DropSubsumed

Spec == Init /\ [][Next]_vars

-----------------------------------------------------------------------------
(* Properties *)

Done == stage = "settle" /\ pending = {}
Contained(inner, outer) == Inside(inner.a, outer.a) /\ Inside(inner.b, outer.b)

\* Types: sides are runs of at least one statement of their block, a region
\* has at least two, and text is where statements are.
TypeOK ==
    /\ stage \in {"generate", "consolidate", "confirm", "grow", "fold", "settle"}
    /\ \A pair \in seeds \cup folded \cup kept : \A r \in {pair.a, pair.b} :
          r.block \in Blocks /\ r.length >= 1 /\ r.start >= 1 /\ End(r) <= Len(program[r.block]) + 1
    /\ kept \subseteq folded
    /\ \A region \in confirmed \cup pending \cup report :
          region.type \in {1, 2} /\ Len(region.sides) >= 2

\* The fold is exact: the sides of a folded pair agree statement for statement,
\* although no window that long was ever compared (maximal.rs, "Why folding is
\* sound").
FoldIsExact == \A pair \in folded : Summaries(pair.a) = Summaries(pair.b)

\* No seed is lost: it lies in a kept pair, unless its sides differ too much in
\* length or the run it folds into reaches into itself or is too short.
SeedsAreKept ==
    stage \notin {"generate", "consolidate"} =>
       \A seed \in seeds :
          \/ Diverges(seed)
          \/ \E pair \in kept : Contained(seed, pair)
          \/ \E pair \in folded : Contained(seed, pair) /\ ~Reportable(pair)

\* The two-dimensional index answers as an exhaustive comparison would: no kept
\* pair lies in another, and an absorbed one lies in one that is kept.
ContainmentIsExact ==
    /\ \A pair, other \in kept : pair # other => ~Contained(pair, other)
    /\ stage \notin {"generate", "consolidate"} =>
          \A pair \in folded : Reportable(pair) => \E other \in kept : Contained(pair, other)

\* Every occurrence of a shared run holds the same summaries as every other,
\* not only as its neighbours, and a run belongs to one set.
SharedAreEqual ==
    /\ \A set \in shared : \A r, s \in set : Summaries(r) = Summaries(s)
    /\ \A set, other \in shared : set # other => set \cap other = {}

\* A reported run names at least two places, apart from each other, that hold
\* the same tokens up to renaming, or exactly if it says so; no two name the
\* same content.
ReportedAreCopies ==
    \A region \in report :
       /\ \A j, k \in DOMAIN region.sides :
             /\ j # k => ~SameStretch(region.sides[j], region.sides[k])
             /\ Normalized(region.sides[j]) = Normalized(region.sides[k])
             /\ region.type = 1 => Content(region.sides[j]) = Content(region.sides[k])
       /\ \A other \in report : Fingerprint(other) = Fingerprint(region) => other = region

\* What was confirmed is accounted for: each of its occurrences is in, across
\* or next to an occurrence of one reported run that claims no less.
ConfirmedIsReported ==
    Done => \A region \in confirmed :
       \E cover \in report :
          /\ cover.type <= region.type
          /\ \A r \in Range(region.sides) : \E s \in Range(cover.sides) : SameStretch(r, s)

\* One sweep of joining is enough: a second would confirm nothing new
\* (regions.rs, grow_runs).
OneSweepIsEnough ==
    stage = "fold" =>
       \A candidate \in MergeAdjacent(confirmed) : ConfirmOne(candidate) \subseteq confirmed

\* A stretch of two files that agrees in every token, and is not part of a
\* longer one that agrees in summaries, is pointed at in both, whatever else
\* its statements look like.
VerbatimIsFound ==
    Done => \A pair \in kept :
       Content(pair.a) = Content(pair.b) /\ File(pair.a) # File(pair.b) =>
          \E region \in report : \A r \in {pair.a, pair.b} :
             \E s \in Range(region.sides) : SameStretch(r, s)

\* "A run is dropped when every one of its occurrences sits inside an occurrence
\* of another run" that classifies at least as strictly (regions.rs).
NoneIsCovered == \A inner, outer \in report : ~CoversRun(outer, inner)

\* Every run pipeline step keeps what it says: folds are exact and complete,
\* containment is as an exhaustive comparison finds it, and what is reported
\* are copies that account for everything confirmed (regions.rs, maximal.rs).
RunsAreTrue ==
    /\ TypeOK
    /\ FoldIsExact
    /\ SeedsAreKept
    /\ ContainmentIsExact
    /\ SharedAreEqual
    /\ ReportedAreCopies
    /\ OneSweepIsEnough
=============================================================================
