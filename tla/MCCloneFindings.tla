-------------------------- MODULE MCCloneFindings --------------------------
(***************************************************************************)
(* The two structural detectors on small programs: groups of alike units,    *)
(* with and without conditional arms and nested ones, and shared runs of statements, in two   *)
(* long blocks, in three blocks of two files, and in five whose names differ.  *)
(* A behaviour is of one of them, its subject.                               *)
(***************************************************************************)
EXTENDS CloneGrouping, TLC

VARIABLES
    subject,
    \* SharedRuns
    program, text, stage, seeds, folded, kept, shared, confirmed, pending, report

FourUnits == 1 .. 4
ThreeKeys == 1 .. 3
SomeArms == {"none", "if", "else"}

\* Lists of copies, of near copies in twos, and of all three.
InTwos == <<{1}, {2}, {3}, {1, 2}, {2, 3}, {1, 3}>>
SomeProposals == {InTwos, <<{3}, {2, 3}, {1, 2, 3}>>}
Allowance(budget, verified, limit, reversed) ==
    [budget |-> budget, verified |-> verified, limit |-> limit, reversed |-> reversed]

\* Units side by side, two closures in two functions, nested functions, a third
\* function or closure beside one that holds another, and three levels.
Nesting(around, declaration, bytes) == [around |-> around, declaration |-> declaration, bytes |-> bytes]
Flat == Nesting([u \in FourUnits |-> {}], [u \in FourUnits |-> u], [u \in FourUnits |-> 1])
NestedPlaces ==
    {Nesting(<<{}, {1}, {}, {3}>>, <<1, 1, 3, 3>>, <<2, 1, 2, 1>>),
     Nesting(<<{}, {1}, {}, {3}>>, <<1, 2, 3, 4>>, <<2, 1, 2, 1>>),
     Nesting(<<{}, {1}, {}, {3}>>, <<1, 1, 3, 3>>, <<1, 1, 1, 1>>),
     Nesting(<<{}, {1}, {1}, {}>>, <<1, 1, 1, 4>>, <<3, 1, 1, 1>>),
     Nesting(<<{}, {1}, {1, 2}, {}>>, <<1, 1, 1, 4>>, <<3, 2, 1, 2>>)}

\* Four units refined whole, and in pieces of up to three, in both orders.
PlainTrials == <<Allowance(9, 99, 9, FALSE), Allowance(9, 99, 9, TRUE),
                 Allowance(9, 99, 3, FALSE), Allowance(9, 99, 3, TRUE)>>
PlainInputs == [content : [FourUnits -> ThreeKeys], arm : [FourUnits -> {"none"}],
                nesting : {Flat}, alike : [kSubset(2, ThreeKeys) -> {0, 7, 9}], lists : {InTwos}, trials : {PlainTrials}]
\* Units in arms, with a pair budget, a verification budget and a ceiling that
\* bite.
ConditionalTrials ==
    <<Allowance(4, 99, 9, FALSE), Allowance(9, 3, 9, FALSE), Allowance(9, 99, 2, FALSE)>>
ConditionalInputs == [content : [FourUnits -> 1 .. 2], arm : [FourUnits -> SomeArms],
                      nesting : {Flat}, alike : {[k \in kSubset(2, ThreeKeys) |-> IF 3 \in k THEN 0 ELSE s] : s \in {0, 7}},
                      lists : SomeProposals, trials : {ConditionalTrials}]
\* Nested units, refined whole and in pieces of two.
NestedTrials == <<Allowance(9, 99, 9, FALSE), Allowance(9, 99, 2, FALSE)>>
NestedInputs == [content : [FourUnits -> ThreeKeys], arm : [FourUnits -> {"none"}],
                 nesting : NestedPlaces, alike : [kSubset(2, ThreeKeys) -> {0, 7}],
                 lists : {InTwos}, trials : {NestedTrials}]
SomeInputs == PlainInputs \cup ConditionalInputs \cup NestedInputs

\* y is x renamed, f looks like them and is not, l is longer, z is something else.
Word == {"x", "y", "f", "l", "z"}
WordTokens == [k \in Word |-> IF k = "l" THEN <<"x", "x", "x">> ELSE <<k>>]
WordSummary == [k \in Word |-> IF k = "z" THEN "return" ELSE "expression"]
Kinds(kinds, n) == [1 .. n -> kinds]

\* Repetition and a longer statement: what overlaps and what diverges.
Long == INSTANCE SharedRuns WITH
    Blocks <- 1 .. 2, FileOf <- <<1, 2>>, UnitOf <- <<1, 1>>, TextOf <- <<1, 2>>,
    HostOf <- <<<<0, 0>>, <<0, 0>>>>,
    Programs <- {<<p, q>> : p \in Kinds({"x", "l", "z"}, 4), q \in Kinds({"x", "l"}, 4)},
    Tokens <- WordTokens, Summary <- WordSummary, Names <- {"x", "y"},
    WindowLengths <- {2, 4}, MinStatements <- 2, MaxRatio <- 2, PostingCap <- 8,
    PairBudget <- 20
\* Three blocks, the first two in one file.
Places == INSTANCE SharedRuns WITH
    Blocks <- 1 .. 3, FileOf <- <<1, 1, 2>>, UnitOf <- <<1, 1, 1>>, TextOf <- <<1, 2, 3>>,
    HostOf <- <<<<0, 0>>, <<0, 0>>, <<0, 0>>>>,
    Programs <- {<<p, q, r>> : p \in Kinds({"x", "y", "f"}, 3), q \in Kinds({"x", "f"}, 3),
                               r \in Kinds({"x", "f"}, 3)},
    Tokens <- WordTokens, Summary <- WordSummary, Names <- {"x", "y"},
    WindowLengths <- {2}, MinStatements <- 2, MaxRatio <- 2, PostingCap <- 20,
    PairBudget <- 1000

\* Statements of a word, which decides the summary, and a name.
Phrase == {"p", "q", "r", "s"} \X {"x", "y", "w", "f"}
\* Two blocks that differ in their names, and three that look like parts of them.
NamedBlocks ==
    LET Named(names) == <<<<"p", names[1]>>, <<"q", names[2]>>, <<"r", names[3]>>, <<"s", names[4]>>>>
        Part(u, v, name) == <<<<u, name>>, <<v, "f">>>>
    IN {<<Named(<<"x", "y", "w", "x">>), Named(names),
          Part("p", "q", c[1]), Part("q", "r", c[2]), Part("r", "s", c[3])>> :
            names \in Kinds({"x", "y", "w"}, 4), c \in Kinds({"f", "x"}, 3)}
Joined == INSTANCE SharedRuns WITH
    Blocks <- 1 .. 5, FileOf <- <<1, 2, 3, 4, 5>>, UnitOf <- <<1, 1, 1, 1, 1>>,
    TextOf <- <<1, 2, 3, 4, 5>>, HostOf <- [b \in 1 .. 5 |-> <<0, 0>>],
    Programs <- NamedBlocks, Tokens <- [k \in Phrase |-> k], Summary <- [k \in Phrase |-> k[1]],
    Names <- {"x", "y", "w"}, WindowLengths <- {2}, MinStatements <- 2, MaxRatio <- 2,
    PostingCap <- 20, PairBudget <- 1000
\* The first statement of blocks 1 and 4 is a block, 2 and 5; 2 is a unit of its
\* own, met again as 3; 6 is a file of its own.
Nested == INSTANCE SharedRuns WITH
    Blocks <- 1 .. 6, FileOf <- <<1, 1, 1, 2, 2, 3>>, UnitOf <- <<1, 1, 2, 1, 1, 1>>,
    TextOf <- <<1, 2, 2, 4, 5, 6>>,
    HostOf <- <<<<0, 0>>, <<1, 1>>, <<0, 0>>, <<0, 0>>, <<4, 1>>, <<0, 0>>>>,
    Programs <- {<<<<"x", p>>, q, q, <<"x", p>>, s, t>> :
                    p \in {"x", "z"}, q \in Kinds({"x", "f"}, 2), s \in Kinds({"x", "f"}, 2),
                    t \in Kinds({"x", "f", "z"}, 3)},
    Tokens <- WordTokens, Summary <- WordSummary, Names <- {"x", "y"},
    WindowLengths <- {2}, MinStatements <- 2, MaxRatio <- 2, PostingCap <- 20,
    PairBudget <- 1000

ASSUME CloneFindingsAssumption ==
    /\ Long!RunsAssumption /\ Places!RunsAssumption /\ Joined!RunsAssumption
    /\ Nested!RunsAssumption

runVars == <<program, text, stage, seeds, folded, kept, shared, confirmed, pending, report>>
vars == <<subject, groupingVars, runVars>>

\* Nothing was read for runs.
NoRuns ==
    /\ program = <<>> /\ text = <<>> /\ stage = "generate"
    /\ seeds = {} /\ folded = {} /\ kept = {} /\ shared = {}
    /\ confirmed = {} /\ pending = {} /\ report = {}

Init ==
    /\ \/ subject = "groups"
       \/ /\ subject \in {"long", "places", "joined", "nested"}
          /\ input = CHOOSE i \in PlainInputs : TRUE
    /\ GroupingInit
    /\ IF subject = "long" THEN Long!Init
       ELSE IF subject = "places" THEN Places!Init
       ELSE IF subject = "joined" THEN Joined!Init
       ELSE IF subject = "nested" THEN Nested!Init
       ELSE NoRuns

Runs(name) == subject = name /\ UNCHANGED <<subject, groupingVars>>

Next ==
    \/ subject = "groups" /\ GroupingNext /\ UNCHANGED <<subject, runVars>>
    \/ Runs("long") /\ Long!Next
    \/ Runs("places") /\ Places!Next
    \/ Runs("joined") /\ Joined!Next
    \/ Runs("nested") /\ Nested!Next

Spec == Init /\ [][Next]_vars

\* Of units outside conditional arms, one group reports all copies, two
\* findings never share an identity and the order of discovery changes none
\* (normalize_identities).
FindingsAreStable ==
    subject = "groups" /\ input.trials = PlainTrials =>
        CopiesStayTogether /\ FindingsHaveTheirOwnIds /\ UnitOrderDoesNotMatter
\* What is reported of runs are copies, and all that was confirmed (regions.rs).
RunsAreTrue ==
    /\ subject = "long" => Long!RunsAreTrue
    /\ subject = "places" => Places!RunsAreTrue /\ Places!VerbatimIsFound
                             /\ Places!NoneIsCovered
    /\ subject = "joined" => Joined!RunsAreTrue /\ Joined!ConfirmedIsReported
    /\ subject = "nested" => Nested!RunsAreTrue /\ Nested!VerbatimIsFound
=============================================================================
