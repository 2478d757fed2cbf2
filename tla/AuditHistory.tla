---------------------------- MODULE AuditHistory ----------------------------
(***************************************************************************)
(* What a reader of the audit database is promised: the completed runs and  *)
(* the active suppression policy change only together, when a whole scan     *)
(* publishes every partition it planned under one start time, and the        *)
(* partitions it publishes are the ones it planned.  A scan that fails or    *)
(* dies changes neither.                                                     *)
(***************************************************************************)
EXTENDS Integers

CONSTANTS
    RunIds,     \* row ids
    Times,      \* start times
    Spellings,  \* the rules that name one baseline by different paths
    NoRow       \* the row of an id no completed run has

VARIABLES
    visible,    \* the completed run under each row id, or NoRow
    policy,     \* the active suppression rules
    plan        \* what the scan under way will publish, by build variant

historyVars == <<visible, policy, plan>>

NoPlan == <<>>

Modulo(rules) == <<rules \ Spellings, rules \cap Spellings # {}>>

Init ==
    /\ visible = [r \in RunIds |-> NoRow]
    /\ policy = {}
    /\ plan = NoPlan

Begin ==
    /\ plan = NoPlan
    /\ plan' # NoPlan
    /\ UNCHANGED <<visible, policy>>

GiveUp ==
    /\ plan # NoPlan
    /\ plan' = NoPlan
    /\ UNCHANGED <<visible, policy>>

\* Run `row` is an answer to the partition `part` planned for variant v: the
\* same inputs, and the same rules up to the path a baseline was named by.
Answers(row, v, part) ==
    /\ row # NoRow
    /\ row.variant = v
    /\ row.tree = part.tree
    /\ Modulo(row.rules) = Modulo(part.rules)

Publish ==
    /\ plan # NoPlan
    /\ \E of \in [DOMAIN plan -> RunIds], start \in Times :
        /\ \A v, w \in DOMAIN plan : of[v] = of[w] => v = w
        /\ \A v \in DOMAIN plan :
            /\ Answers(visible'[of[v]], v, plan[v])
            /\ visible'[of[v]].started = start
        /\ \A r \in RunIds : (\A v \in DOMAIN plan : of[v] # r) => visible'[r] = visible[r]
    /\ policy' = UNION {plan[v].rules : v \in DOMAIN plan}
    /\ plan' = NoPlan

Next == Begin \/ GiveUp \/ Publish

Spec == Init /\ [][Next]_historyVars

=============================================================================
