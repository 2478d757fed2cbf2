---------------------------- MODULE MCProcesses ----------------------------
(***************************************************************************)
(* The processes codehelion starts, each with a small instance: a helper and *)
(* its client, a helper's guarded input, the supervisor of helpers, and the  *)
(* artifact commands with their workers.  They share no state, so a behaviour *)
(* is of one of them, its subject, and the others stay as they began.        *)
(***************************************************************************)
EXTENDS HelperExchange, HelperInput, HelperSupervisor, ArtifactWorker

CONSTANTS u1, u2, c1, c2

VARIABLE subject

TwoUnits == {u1, u2}
TwoCommands == {c1, c2}

vars == <<subject, exchangeVars, inputVars, supervisorVars, artifactVars>>

Subjects == {"exchange", "input", "supervisor", "artifact"}

Init ==
    /\ subject \in Subjects
    /\ ExchangeInit /\ InputInit /\ SupervisorInit
    /\ subject # "artifact" => path = None
    /\ ArtifactInit

Next ==
    \/ /\ subject = "exchange" /\ ExchangeNext
       /\ UNCHANGED <<subject, inputVars, supervisorVars, artifactVars>>
    \/ /\ subject = "input" /\ InputNext
       /\ UNCHANGED <<subject, exchangeVars, supervisorVars, artifactVars>>
    \/ /\ subject = "supervisor" /\ SupervisorNext
       /\ UNCHANGED <<subject, exchangeVars, inputVars, artifactVars>>
    \/ /\ subject = "artifact" /\ ArtifactNext
       /\ UNCHANGED <<subject, exchangeVars, inputVars, supervisorVars>>

\* Each component under the fairness its own module states.
Spec ==
    /\ Init /\ [][Next]_vars
    /\ WF_exchangeVars(subject = "exchange" /\ Client)
    /\ WF_exchangeVars(subject = "exchange" /\ Writer)
    /\ WF_exchangeVars(subject = "exchange" /\ Reader)
    /\ WF_inputVars(subject = "input" /\ Watcher)
    /\ WF_inputVars(subject = "input" /\ Serving)
    /\ WF_supervisorVars(subject = "supervisor" /\ Step)
    /\ \A c \in Commands : WF_artifactVars(subject = "artifact" /\ Command(c))
    /\ WF_inputVars(subject = "input" /\ ~interrupted /\ BackendReturns)

\* Who waits for a process, or holds something open for one: a caller of a
\* helper or of the supervisor, the threads of a dropped helper, a helper whose
\* client has gone, and an artifact command.
Waiting ==
    \/ client \notin {"idle", "gone"}
    \/ client = "gone" /\ ~(WriterGone /\ ReaderGone)
    \/ ~alive /\ HelperRuns
    \/ pc # "idle"
    \/ \E c \in Commands : parent[c] \notin {"idle"} \cup Ended

\* Every wait for a process comes to an end, whatever that process does.
EveryWaitEnds == Waiting ~> ~Waiting
=============================================================================
