---------------------------- MODULE HelperInput ----------------------------
(***************************************************************************)
(* server.rs: a helper's standard input, read ahead by a thread of its own   *)
(* (GuardedInput) so that a client that disappears in the middle of a        *)
(* request is noticed while the serving thread is inside a backend.          *)
(*                                                                           *)
(* The client asks, waits for the answer and asks again, and may die at any  *)
(* time.  A request is two pieces, so that a frame can be cut and two reads   *)
(* can be joined; pieces are numbered in the order they are written.         *)
(***************************************************************************)
EXTENDS Naturals, Sequences, SequencesExt

CONSTANT MaxPiece       \* pieces a client writes, two to a request

ASSUME InputAssumption == MaxPiece \in Nat

VARIABLES
    alive,      \* the client is there
    sent,       \* pieces it has written
    owed,       \* it waits for an answer
    pipe,       \* standard input: pieces written and not yet read
    watcher,    \* the reading thread: reading, carrying, ended, sending, gone
    carried,    \* the chunk it has read
    chunks,     \* the channel of chunks, unbounded; an empty chunk is the end
    waiting,    \* GuardedInput::waiting
    pending,    \* GuardedInput::pending from taken on
    serving,    \* the serving thread: reading, receiving, received, working,
                \* answering, ended; or killed with its process
    taken,      \* ghost: pieces it has consumed
    compiling,  \* a compiler it started is running
    interrupted \* ghost: the client disappeared while a backend was at work

inputVars ==
    <<alive, sent, owed, pipe, watcher, carried, chunks, waiting, pending, serving, taken,
      compiling, interrupted>>
inputClientVars == <<alive, sent, owed, interrupted>>
watcherVars == <<watcher, carried>>

Pieces == 1 .. MaxPiece
HelperRuns == serving \notin {"ended", "killed"}
End == <<>>

InputTypeOK ==
    /\ alive \in BOOLEAN /\ owed \in BOOLEAN /\ waiting \in BOOLEAN /\ compiling \in BOOLEAN
    /\ interrupted \in BOOLEAN
    /\ sent \in 0 .. MaxPiece
    /\ ToSet(pipe) \cup ToSet(carried) \cup ToSet(pending) \cup ToSet(taken) \subseteq Pieces
    /\ \A c \in ToSet(chunks) : ToSet(c) \subseteq Pieces
    /\ watcher \in {"reading", "carrying", "ended", "sending", "gone"}
    /\ serving \in {"reading", "receiving", "received", "working", "answering", "ended", "killed"}

InputInit ==
    /\ alive = TRUE /\ sent = 0 /\ owed = FALSE
    /\ pipe = <<>> /\ chunks = <<>> /\ pending = <<>> /\ taken = <<>>
    /\ watcher = "reading" /\ carried = <<>>
    /\ waiting = FALSE /\ serving = "reading" /\ compiling = FALSE
    /\ interrupted = FALSE

(***************************************************************************)
(* The client.                                                             *)
(***************************************************************************)

ClientWrites ==
    /\ alive /\ sent < MaxPiece /\ HelperRuns
    /\ ~owed \/ sent % 2 = 1
    /\ sent' = sent + 1 /\ owed' = TRUE
    /\ pipe' = Append(pipe, sent + 1)
    /\ UNCHANGED <<alive, interrupted, watcherVars, chunks, waiting, pending, serving, taken,
                   compiling>>

ClientDisappears ==
    /\ alive /\ alive' = FALSE
    /\ interrupted' = (serving = "working")
    /\ UNCHANGED <<sent, owed, pipe, watcherVars, chunks, waiting, pending, serving, taken,
                   compiling>>

(***************************************************************************)
(* The reading thread.                                                     *)
(***************************************************************************)

\* source.read: everything there is, or the end of the stream.
WatcherReads ==
    /\ HelperRuns /\ watcher = "reading"
    /\ \/ pipe # <<>> /\ carried' = pipe /\ pipe' = <<>> /\ watcher' = "carrying"
       \/ pipe = <<>> /\ ~alive /\ watcher' = "ended" /\ UNCHANGED <<carried, pipe>>
    /\ UNCHANGED <<inputClientVars, chunks, waiting, pending, serving, taken, compiling>>

\* A chunk is passed on.
WatcherSends ==
    /\ HelperRuns /\ watcher = "carrying"
    /\ chunks' = Append(chunks, carried) /\ carried' = <<>> /\ watcher' = "reading"
    /\ UNCHANGED <<inputClientVars, pipe, waiting, pending, serving, taken, compiling>>

\* terminate_own_group: this process and every compiler it started.
EndGroup == serving' = "killed" /\ compiling' = FALSE

Orphaned == ~waiting

\* The end of the stream: on_orphaned runs unless somebody waits for a frame.
WatcherDecides ==
    /\ HelperRuns /\ watcher = "ended"
    /\ IF Orphaned THEN EndGroup ELSE UNCHANGED <<serving, compiling>>
    /\ watcher' = "sending"
    /\ UNCHANGED <<inputClientVars, pipe, carried, chunks, waiting, pending, taken>>

WatcherLeaves ==
    /\ HelperRuns /\ watcher = "sending"
    /\ chunks' = Append(chunks, End) /\ watcher' = "gone"
    /\ UNCHANGED <<inputClientVars, pipe, carried, waiting, pending, serving, taken, compiling>>

(***************************************************************************)
(* The serving thread.                                                     *)
(***************************************************************************)

\* Mutant: every read waits for a chunk.
ExhaustedAlways == TRUE
\* read: nothing is pending.
NothingPending == pending = <<>>

ReadWaits ==
    /\ serving = "reading" /\ NothingPending
    /\ waiting' = TRUE /\ serving' = "receiving"
    /\ UNCHANGED <<inputClientVars, pipe, watcherVars, chunks, pending, taken, compiling>>

\* The chunk has come; `waiting` is cleared in a step of its own.
ReadReceives ==
    /\ serving = "receiving" /\ chunks # <<>>
    /\ pending' = Head(chunks) /\ chunks' = Tail(chunks)
    /\ serving' = "received"
    /\ UNCHANGED <<inputClientVars, pipe, watcherVars, waiting, taken, compiling>>

NoLongerWaiting == waiting' = FALSE

\* The end of the stream ends the loop, between frames or in the middle of one.
ReadContinues ==
    /\ serving = "received" /\ NoLongerWaiting
    /\ serving' = IF pending = End THEN "ended" ELSE "reading"
    /\ UNCHANGED <<inputClientVars, pipe, watcherVars, chunks, pending, taken, compiling>>

\* read: a piece is copied out; the second one completes a request.
ReadTakes ==
    /\ serving = "reading" /\ pending # <<>>
    /\ taken' = Append(taken, Head(pending)) /\ pending' = Tail(pending)
    /\ serving' = IF Len(taken') % 2 = 0 THEN "working" ELSE "reading"
    /\ UNCHANGED <<inputClientVars, pipe, watcherVars, chunks, waiting, compiling>>

BackendCompiles ==
    /\ serving = "working" /\ ~compiling /\ compiling' = TRUE
    /\ UNCHANGED <<inputClientVars, pipe, watcherVars, chunks, waiting, pending, serving, taken>>

BackendReturns ==
    /\ serving = "working"
    /\ serving' = "answering" /\ compiling' = FALSE
    /\ UNCHANGED <<inputClientVars, pipe, watcherVars, chunks, waiting, pending, taken>>

\* write_frame: a client that has gone fails it, which ends the loop.
AnswersOrEnds ==
    /\ serving = "answering"
    /\ IF alive THEN owed' = FALSE /\ serving' = "reading"
       ELSE serving' = "ended" /\ UNCHANGED owed
    /\ UNCHANGED <<alive, sent, interrupted, pipe, watcherVars, chunks, waiting, pending, taken,
                   compiling>>

Watcher == WatcherReads \/ WatcherSends \/ WatcherDecides \/ WatcherLeaves
Serving == ReadWaits \/ ReadReceives \/ ReadContinues \/ ReadTakes \/ AnswersOrEnds
InputNext ==
    ClientWrites \/ ClientDisappears \/ Watcher \/ Serving \/ BackendCompiles \/ BackendReturns

InputSpec == InputInit /\ [][InputNext]_inputVars
\* Both threads go on.  A backend comes to an end, but for one whose client
\* disappeared while it was at work, which may take for ever; nothing makes the
\* client write or disappear.
InputFairSpec ==
    /\ InputSpec
    /\ WF_inputVars(Watcher) /\ WF_inputVars(Serving)
    /\ WF_inputVars(~interrupted /\ BackendReturns)

(***************************************************************************)
(* Properties.                                                             *)
(***************************************************************************)

\* Reading ahead changes nothing for the serving thread: what it has taken,
\* with all that is on its way, is what the client has written.
ReadsWhatWasWritten ==
    taken \o pending \o FlattenSeq(chunks) \o carried \o pipe = [i \in 1 .. sent |-> i]

\* Only a client that has disappeared ends a helper, and never while the helper
\* waits for a request that has not begun to come.
OnlyOrphansAreEnded ==
    serving = "killed" => ~alive /\ ~waiting

\* However it ends, no compiler is left running.
NoCompilerLeft == ~HelperRuns => ~compiling

\* Reading ahead of the serving thread is sound: no byte is lost, repeated or
\* moved, only the work of a client that has disappeared is ended, and with all
\* its compilers (server.rs, GuardedInput).
InputIsSound ==
    /\ InputTypeOK
    /\ ReadsWhatWasWritten
    /\ OnlyOrphansAreEnded
    /\ NoCompilerLeft
=============================================================================
