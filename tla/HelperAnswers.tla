--------------------------- MODULE HelperAnswers ---------------------------
(***************************************************************************)
(* What a scan may rely on when it asks a compiler helper about units (the   *)
(* doc comments of client/supervisor.rs): every question gets one answer,    *)
(* about the unit that was asked for.  A unit that was set aside, and a      *)
(* helper nobody can start, are answered from then on by what was found out  *)
(* at the time, and by nothing else.                                         *)
(***************************************************************************)
CONSTANTS
    Units,      \* what may be asked about
    Results     \* answers: an analysis, or the reason there is none

NoUnit == "no unit"
NoReason == "no reason"

VARIABLES
    asking,     \* the unit being asked about, or NoUnit
    answer,     \* the last answer: the unit and the result
    settled,    \* the reason each unit was set aside under, or NoReason
    stopped     \* the reason nothing is asked any more, or NoReason

vars == <<asking, answer, settled, stopped>>

Init ==
    /\ asking = NoUnit
    /\ answer = [unit |-> NoUnit, result |-> NoReason]
    /\ settled = [u \in Units |-> NoReason]
    /\ stopped = NoReason

Ask(u) ==
    /\ asking = NoUnit
    /\ asking' = u
    /\ UNCHANGED <<answer, settled, stopped>>

\* The answers that are still possible for unit u.
Open(u) ==
    IF stopped # NoReason THEN {stopped}
    ELSE IF settled[u] # NoReason THEN {settled[u]} ELSE Results

\* An answer may be the one that sets its unit aside or ends the asking.
Reply(r) ==
    /\ asking # NoUnit /\ r \in Open(asking)
    /\ answer' = [unit |-> asking, result |-> r]
    /\ asking' = NoUnit
    /\ \/ settled' = settled
       \/ settled[asking] = NoReason /\ settled' = [settled EXCEPT ![asking] = r]
    /\ \/ stopped' = stopped
       \/ stopped = NoReason /\ stopped' = r

Next == \/ \E u \in Units : Ask(u)
        \/ \E r \in Results : Reply(r)

Spec == Init /\ [][Next]_vars
=============================================================================
