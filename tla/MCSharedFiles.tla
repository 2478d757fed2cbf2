--------------------------- MODULE MCSharedFiles ---------------------------
(***************************************************************************)
(* The files processes share without taking the database lease: the database *)
(* at the moment it is opened, and the baseline file.  A behaviour is of one *)
(* subject: an opening among another build's transactions, two openings at   *)
(* once, an opening while others only commit, a baseline over a few scans,   *)
(* or a baseline of two build variants.                                      *)
(***************************************************************************)
EXTENDS BaselineFile, StoreOpen, TLC

CONSTANTS o1, o2, c1

VARIABLE subject

\* Two openers, whatever another build writes, and what it may have left.
TwoOpeners == {o1, o2}
AnyMark == AllMarks
OursOrOthers == {"ours", "other"}
AnyFault == {"rollback", "crash"}

\* Which openings are explored: one among another build's transactions: once
\* one was rolled back under the opener, so are all that follow, any number; two
\* of a path nobody else writes, which may die; one while others commit twice.
OfOneOpener == st'[o2] = st[o2] /\ st'[o1].pc # "dead"
OfOneTransaction ==
    /\ commits' <= 1
    /\ lock' = Other => commits' = 0
    /\ "undo" \in ghost[o1].others =>
        /\ lock # Other /\ lock' = Other => disk'.main.mark = "other"
        /\ lock = Other /\ lock' = None => disk' = RolledBack(disk)
OfOursOnly == lock' # Other /\ commits' = commits
OfCommitsOnly ==
    /\ \A c \in Held(disk') : c.mark \notin {"bare", "blank"}
    /\ lock = Other /\ lock' = None => commits' = commits + 1 /\ disk'.journal = None

\* One family of two contents.  Two sites are copies and the third is free; the
\* second build variant does not see it; one rule hides the two copies.
ThreeSites == {1, 2, 3}
OneCommand == {c1}
OneFamily == {{"a", "b"}}
TwoVariants == {1, 2}
SitesSeen == 1 :> ThreeSites @@ 2 :> {1, 2}
TwoCopies == [s \in ThreeSites |-> IF s = 3 THEN NoCode ELSE "a"]
OneRule == {{}, {1, 2}}
TwoContracts == {1, 2}

\* Which behaviours are explored: a baseline of one build variant over a few
\* scans, while rules change; one of two variants, while settings change and
\* nothing is compared.
OfOneVariant ==
    /\ scan'.step = "idle" \/ scan'.todo \subseteq {1}
    /\ contract' = contract
OfTwoVariants ==
    /\ invocations' <= 2 /\ rule' = rule
    /\ scan'.step = "idle" \/ scan'.mode # "compare"

\* The two copies are interchangeable, so the only edit is not of the second.
OfOneCopy == tree'[2] = tree[2]

sharedVars == <<subject, openVars, baselineVars>>

OpeningSubjects == {"alone", "together", "quiet"}
BaselineSubjects == {"life", "variants"}

\* The files of the other subjects are at their first state.
SharedInit ==
    /\ subject \in OpeningSubjects \cup BaselineSubjects
    /\ OpenInit /\ Init
    /\ subject = "together" => \A c \in Held(disk) : c.mark # "other"
    /\ subject \in BaselineSubjects => disk = NoFiles
    /\ subject # "life" => rule = {}

Opens(name) == subject = name /\ UNCHANGED <<subject, baselineVars>>
Keeps(name) == subject = name /\ UNCHANGED <<subject, openVars>>

SharedNext ==
    \/ Opens("alone") /\ OpenNext /\ OfOneOpener /\ OfOneTransaction
    \/ Opens("together") /\ OpenNext /\ OfOursOnly
    \/ Opens("quiet") /\ OpenNext /\ OfOneOpener /\ OfCommitsOnly
    \/ Keeps("life") /\ Next /\ OfOneVariant /\ OfOneCopy
    \/ Keeps("variants") /\ Next /\ OfTwoVariants /\ OfOneCopy

\* Busy timeouts end every wait of an opening; nothing makes anyone else act.
SharedSpec == SharedInit /\ [][SharedNext]_sharedVars /\ OpenFairness
=============================================================================
