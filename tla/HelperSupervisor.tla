------------------------- MODULE HelperSupervisor -------------------------
(***************************************************************************)
(* client/supervisor.rs: one compiler helper kept answering across a run.    *)
(* A request that breaks the helper is tried once more on a fresh one; a     *)
(* unit whose second attempt fails is set aside; a helper that cannot be     *)
(* started, or has been restarted too often in a row, is given up on.        *)
(*                                                                           *)
(* What one exchange with a helper may come to is HelperExchange's subject;  *)
(* here it is one of a few outcomes.  What the helper prints is modelled     *)
(* line by line, because it arrives on a stream of its own.                  *)
(***************************************************************************)
EXTENDS Naturals, FiniteSets

CONSTANTS
    Units,          \* units a scan asks about
    MaxRestarts     \* Supervisor::max_restarts

NoUnit == "no unit"
NoReason == "no reason"
Done == "done"

\* Unavailability: the reasons a breaking helper, a starting one and an
\* answering one give.
Breaking == {"helper died", "helper timed out"}
Refusals == {"not supported", "toolchain mismatch"}
Starting == Breaking \cup Refusals
Answered == {"no build information", "response too large"}
Exhausted == "restart budget exhausted"
Reasons == Starting \cup Answered \cup {Exhausted}
Results == Reasons \cup {Done}

ASSUME SupervisorAssumption ==
    /\ MaxRestarts \in Nat
    /\ NoUnit \notin Units

\* A diagnostic line: the unit it is about ("start" for a failed start), and
\* whether it reached the client after that unit's time (a fact the program
\* does not know).
Start == "start"
Line == [about : Units \cup {Start}, late : BOOLEAN]
Says(u) == [about |-> u, late |-> FALSE]
Explained == [reason : Reasons, lines : SUBSET Line]
Nothing == [reason |-> NoReason, lines |-> {}]

VARIABLES
    pc,             \* idle, lookup (analyze has been called) or attempt
    unit,           \* the unit being analyzed
    tries,          \* attempts made for it, this one included
    up,             \* helper: Some
    spoiled,        \* ghost: the conversation with it has lost its place
    started,        \* Supervisor::started
    consecutive,    \* Supervisor::consecutive_restarts
    poisoned,       \* Supervisor::poisoned
    givenUp,        \* Supervisor::given_up
    diag,           \* Supervisor::diagnostics
    lastFailure,    \* Supervisor::last_failure
    printed,        \* lines the helper has printed that are still on their way
    heard,          \* Helper::stderr, what has arrived and nobody has taken
    answer,         \* what the last call returned
    broke,          \* ghost: helpers that died or stalled in this call
    brokeBy,        \* ghost: how many had when its unit was set aside
    spawned         \* ghost: processes started since the last complete answer

supervisorVars == <<pc, unit, tries, up, spoiled, started, consecutive, poisoned, givenUp, diag,
          lastFailure, printed, heard, answer, broke, brokeBy, spawned>>
streams == <<printed, heard>>

SupervisorTypeOK ==
    /\ pc \in {"idle", "lookup", "attempt"}
    /\ unit \in Units \cup {NoUnit}
    /\ tries \in 0 .. 2
    /\ up \in BOOLEAN /\ spoiled \in BOOLEAN /\ started \in BOOLEAN
    /\ consecutive \in 0 .. MaxRestarts
    /\ poisoned \in [Units -> Explained \cup {Nothing}]
    /\ givenUp \in Explained \cup {Nothing}
    /\ diag \subseteq Line /\ lastFailure \subseteq Line
    /\ printed \subseteq Units /\ heard \subseteq Line
    /\ answer \in [unit : Units \cup {NoUnit}, result : Results \cup {NoReason}]
    /\ broke \in 0 .. 2 /\ brokeBy \in [Units -> 0 .. 2]
    /\ spawned \in Nat

SupervisorInit ==
    /\ pc = "idle" /\ unit = NoUnit /\ tries = 0
    /\ up = FALSE /\ spoiled = FALSE /\ started = FALSE /\ consecutive = 0
    /\ poisoned = [u \in Units |-> Nothing]
    /\ givenUp = Nothing
    /\ diag = {} /\ lastFailure = {}
    /\ printed = {} /\ heard = {}
    /\ answer = [unit |-> NoUnit, result |-> NoReason]
    /\ broke = 0 /\ brokeBy = [u \in Units |-> 0] /\ spawned = 0

(***************************************************************************)
(* The call and its early answers.                                         *)
(***************************************************************************)

Returns(result) ==
    /\ pc' = "idle"
    /\ answer' = [unit |-> unit, result |-> result]

\* analyze_with_command_and_boundary is called for unit u.
Analyze(u) ==
    /\ pc = "idle"
    /\ pc' = "lookup" /\ unit' = u /\ tries' = 0 /\ broke' = 0
    /\ diag' = {}
    /\ UNCHANGED <<up, spoiled, started, consecutive, poisoned, givenUp, lastFailure, streams,
                   answer, brokeBy, spawned>>

\* What an early return answers with, or Nothing.
KnownWithoutAside(u) == givenUp
Known(u) == IF givenUp # Nothing THEN givenUp ELSE poisoned[u]

Recall ==
    /\ pc = "lookup" /\ Known(unit) # Nothing
    /\ diag' = Known(unit).lines
    /\ Returns(Known(unit).reason)
    /\ UNCHANGED <<unit, tries, up, spoiled, started, consecutive, poisoned, givenUp,
                   lastFailure, streams, broke, brokeBy, spawned>>

Begin ==
    /\ pc = "lookup" /\ Known(unit) = Nothing
    /\ pc' = "attempt" /\ tries' = 1
    /\ UNCHANGED <<unit, up, spoiled, started, consecutive, poisoned, givenUp, diag,
                   lastFailure, streams, answer, broke, brokeBy, spawned>>

(***************************************************************************)
(* How an attempt ends.                                                    *)
(***************************************************************************)

WorthRetrying(reason) == reason \in Breaking

\* keep_what_was_said_about: the helper's own words (told) come before its
\* standard error, which is drained either way.
KeepWhatWasSaid(result, told) ==
    IF ~up
    THEN diag' = {} /\ UNCHANGED heard
    ELSE /\ heard' = {}
         /\ diag' = IF result = Done THEN {} ELSE IF told = {} THEN heard ELSE told

\* The attempt was answered, by the helper or by an exhausted budget.
Succeeds(result, told) ==
    /\ consecutive' = 0 /\ spawned' = 0
    /\ KeepWhatWasSaid(result, told)
    /\ Returns(result)

\* Mutant: the unit is retried on the helper it broke.
SetBackKeepingHelper(reason, lines) ==
    IF ~WorthRetrying(reason)
    THEN Returns(reason) /\ UNCHANGED <<up, tries, poisoned, brokeBy>>
    ELSE IF tries = 1
    THEN /\ tries' = 2
         /\ UNCHANGED <<pc, answer, poisoned, brokeBy, up>>
    ELSE /\ up' = FALSE
         /\ poisoned' = [poisoned EXCEPT ![unit] = [reason |-> reason, lines |-> lines]]
         /\ brokeBy' = [brokeBy EXCEPT ![unit] = broke']
         /\ Returns(reason)
         /\ UNCHANGED tries
\* The error branch: a first failure worth retrying drops the helper and tries
\* again, a second one sets the unit aside.
SetBack(reason, lines) ==
    IF tries = 1
    THEN IF WorthRetrying(reason)
         THEN /\ up' = FALSE /\ tries' = 2
              /\ UNCHANGED <<pc, answer, poisoned, brokeBy>>
         ELSE Returns(reason) /\ UNCHANGED <<up, tries, poisoned, brokeBy>>
    ELSE /\ up' = FALSE
         /\ poisoned' = [poisoned EXCEPT ![unit] = [reason |-> reason, lines |-> lines]]
         /\ brokeBy' = [brokeBy EXCEPT ![unit] = broke']
         /\ Returns(reason)
         /\ UNCHANGED tries

\* explained: the error's own words and what the helper has printed.
Fails(reason, words) ==
    LET lines == words \cup (IF up THEN heard ELSE {})
    IN  /\ diag' = lines /\ lastFailure' = lines
        /\ heard' = IF up THEN {} ELSE heard
        /\ SetBack(reason, lines)

(***************************************************************************)
(* attempt: a helper is started if none is running, and asked.             *)
(***************************************************************************)

BudgetSpent == started /\ consecutive >= MaxRestarts

Exhaust ==
    /\ pc = "attempt" /\ ~up /\ BudgetSpent
    /\ givenUp' = [reason |-> Exhausted, lines |-> lastFailure]
    /\ Succeeds(Exhausted, {})
    /\ UNCHANGED <<unit, tries, up, spoiled, started, poisoned, lastFailure, printed, broke,
                   brokeBy>>

\* A process is spawned; a restart is counted before it is known to work.
Spawns ==
    /\ pc = "attempt" /\ ~up /\ ~BudgetSpent
    /\ consecutive' = IF started THEN consecutive + 1 ELSE consecutive
    /\ spawned' = spawned + 1

StartFails(reason) ==
    /\ Spawns
    /\ broke' = IF WorthRetrying(reason) THEN broke + 1 ELSE broke
    /\ UNCHANGED <<unit, spoiled, started, printed>>
    /\ givenUp' = [reason |-> reason, lines |-> {Says(Start)}]
    /\ Fails(reason, {Says(Start)})

StartSucceeds ==
    /\ Spawns
    /\ up' = TRUE /\ started' = TRUE /\ spoiled' = FALSE
    /\ givenUp' = Nothing
    /\ printed' = {} /\ heard' = {}
    /\ UNCHANGED <<pc, unit, tries, poisoned, diag, lastFailure, answer, broke, brokeBy>>

Asked == pc = "attempt" /\ up

\* The helper answers: an analysis, or a reason with or without its own words.
Answers(result, told) ==
    /\ Asked /\ ~spoiled
    /\ Succeeds(result, told)
    /\ UNCHANGED <<unit, tries, up, spoiled, started, poisoned, givenUp, lastFailure, printed,
                   broke, brokeBy>>

\* It dies, which says only what it printed, or misses its deadline, which
\* says so.  Either way no later answer could be told from a late one.
Breaks(reason) ==
    /\ Asked
    /\ spoiled' = TRUE /\ broke' = broke + 1
    /\ Fails(reason, IF reason = "helper died" THEN {} ELSE {Says(unit)})
    /\ UNCHANGED <<unit, started, consecutive, givenUp, printed, spawned>>

\* It answers that it will not, or in another revision: a whole answer was
\* read, so the conversation keeps its place.
Refuses(reason) ==
    /\ Asked /\ ~spoiled
    /\ UNCHANGED <<unit, spoiled, started, consecutive, givenUp, printed, broke, spawned>>
    /\ Fails(reason, {Says(unit)})

\* Lines of standard error are printed while a unit is worked on and arrive
\* whenever the draining thread gets to them.
PrintLine ==
    /\ Asked
    /\ printed' = printed \cup {unit}
    /\ UNCHANGED <<pc, unit, tries, up, spoiled, started, consecutive, poisoned, givenUp, diag,
                   lastFailure, heard, answer, broke, brokeBy, spawned>>
Deliver(u) ==
    /\ up /\ u \in printed
    /\ printed' = printed \ {u}
    /\ heard' = heard \cup {[about |-> u, late |-> ~(Asked /\ u = unit)]}
    /\ UNCHANGED <<pc, unit, tries, up, spoiled, started, consecutive, poisoned, givenUp, diag,
                   lastFailure, answer, broke, brokeBy, spawned>>

\* The supervisor's own steps, an exchange with the helper taken as one.
Step ==
    \/ Recall \/ Begin \/ Exhaust \/ StartSucceeds
    \/ \E r \in Starting : StartFails(r)
    \/ \E r \in Breaking : Breaks(r)
    \/ \E r \in Refusals : Refuses(r)
    \/ Answers(Done, {})
    \/ \E r \in Answered, told \in {{}, {Says(unit)}} : Answers(r, told)

SupervisorNext == \/ \E u \in Units : Analyze(u) \/ Deliver(u)
        \/ PrintLine \/ Step

SupervisorSpec == SupervisorInit /\ [][SupervisorNext]_supervisorVars
SupervisorFairSpec == SupervisorSpec /\ WF_supervisorVars(Step)

(***************************************************************************)
(* Properties.                                                             *)
(***************************************************************************)

\* A helper is never asked again, neither for the same unit nor for the next
\* one, once an exchange with it has broken off: its late answer could be
\* taken for another one's.
NeverAsksASpoiledHelper == up => ~spoiled

\* However the failures fall, between two complete answers no more processes
\* are started than the budget allows: the restarts it counts, the first start,
\* and one first start that failed.
RestartsAreBounded == spawned <= MaxRestarts + 2

\* What is said about an unavailable unit is about that unit: a line about
\* another one is reported only if it arrived after its own unit's time.
NotAnothersWords ==
    pc = "idle" /\ givenUp = Nothing
        => \A line \in diag : line.about \in {answer.unit, Start} \/ line.late

\* The promise to the scan; while a call is under way, a failed start is not
\* yet given up on.
Promise == INSTANCE HelperAnswers WITH
    asking <- IF pc = "idle" THEN NoUnit ELSE unit,
    settled <- [u \in Units |-> poisoned[u].reason],
    stopped <- IF pc = "attempt" THEN NoReason ELSE givenUp.reason
PromiseKept == Promise!Spec

\* Every call of analyze returns, whatever the helpers do.
CallsReturn == pc # "idle" ~> pc = "idle"

\* However helpers fail, the supervisor keeps to its budget of restarts, asks
\* no helper whose conversation has lost its place, and explains a unit by that
\* unit's own words (client/supervisor.rs).
SupervisionIsSound ==
    /\ SupervisorTypeOK
    /\ NeverAsksASpoiledHelper
    /\ RestartsAreBounded
    /\ NotAnothersWords
=============================================================================
