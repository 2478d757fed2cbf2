-------------------------- MODULE HelperExchange --------------------------
(***************************************************************************)
(* One helper process and the client that talks to it: client.rs (an         *)
(* exchange and its deadline), client/io.rs (the two threads that carry      *)
(* frames), sandbox.rs (ending and reaping the process), and the helper's    *)
(* serve loop (server.rs).                                                   *)
(*                                                                           *)
(* A frame is two chunks, pipes hold PipeCap chunks and the channel of       *)
(* answers holds AnswerCap answers, so that both ends can be stopped in the  *)
(* middle of a frame.  The helper is only as good as its input lets it be:   *)
(* it may stop at any point, crash, or, as the conformance mock does, send   *)
(* something it was not asked for (at most MaxLies times).                   *)
(***************************************************************************)
EXTENDS Naturals, Sequences, SequencesExt

CONSTANTS
    MaxId,          \* the last request id; bounds the conversation
    PipeCap,        \* chunks a pipe holds
    AnswerCap,      \* sync_channel(16) of read_responses
    MaxLies         \* frames the helper sends of its own accord

ASSUME ExchangeAssumption ==
    MaxId \in Nat /\ PipeCap \in Nat \ {0} /\ AnswerCap \in Nat \ {0} /\ MaxLies \in Nat

Ids == 0 .. MaxId
NoId == MaxId + 1

Bodies == {"fine", "failed", "unreadable"}
Revisions == {"ours", "other"}
Response == [id : Ids, revision : Revisions, body : Bodies]
FrameError == [id |-> NoId, revision |-> "ours", body |-> "unreadable"]
Chunk(r, n) == [of |-> r, part |-> n]
Frame(r) == <<Chunk(r, 1), Chunk(r, 2)>>

\* What an exchange comes to.  After the first three the helper is kept.
Kept == {"answered", "refused", "other revision"}
Broken == {"mismatched", "frame error", "died", "timed out"}

VARIABLES
    client,     \* idle, sending, receiving, reaping, killing, dropping, gone
    asked,      \* the id of the exchange under way, or NoId
    closing,    \* the exchange is the one of shutdown, or the drop has begun
    patient,    \* reap_within has a grace left
    nextId,     \* Helper::next_id
    expired,    \* Helper::poisoned_after_timeout
    result,     \* the last exchange: its id and outcome
    queue,      \* the channel of requests, capacity 1
    outcome,    \* what the writer reported of the request under way
    writer,     \* the writer thread: the chunks it has left, or gone
    toHelper,   \* the helper's standard input
    helper,     \* the serve loop: reading, working, writing; or exited
    request,    \* the request it has read a part of, or works on
    saying,     \* the chunks it has left to write
    toClient,   \* the helper's standard output
    reader,     \* the reader thread: what it has read of a frame, or gone
    answers,    \* the channel of answers
    reaped,     \* HelperProcess::reaped
    ended,      \* ghost: how the helper came to be reaped
    compiler,   \* a compiler the helper started is running
    number,     \* who has the helper's process number now
    stranger,   \* ghost: a process that is not ours was signalled
    lies,       \* ghost: frames sent of the helper's own accord
    got         \* ghost: the request the last accepted answer was made for

clientVars == <<client, asked, closing, patient, nextId, expired, result>>
writerVars == <<queue, outcome, writer>>
readerVars == <<reader, answers>>
helperVars == <<helper, request, saying, compiler, lies>>
processVars == <<reaped, ended, number, stranger>>
exchangeVars ==
    <<clientVars, writerVars, readerVars, helperVars, processVars, toHelper, toClient, got>>

HelperExited == helper = "exited"
WriterGone == writer.at = "gone"
ReaderGone == reader.at = "gone"

ExchangeTypeOK ==
    /\ client \in {"idle", "sending", "receiving", "reaping", "killing", "dropping", "gone"}
    /\ asked \in Ids \cup {NoId}
    /\ closing \in BOOLEAN /\ patient \in BOOLEAN /\ expired \in BOOLEAN /\ reaped \in BOOLEAN
    /\ nextId \in 0 .. MaxId + 1
    /\ result \in [id : Ids \cup {NoId}, what : Kept \cup Broken \cup {"poisoned", "none"}]
    /\ Len(queue) <= 1 /\ ToSet(queue) \subseteq Ids
    /\ outcome \in {"none", "written", "failed", "too large"}
    /\ writer \in [at : {"idle", "writing", "gone"}, id : Ids \cup {NoId}, left : 0 .. 2]
    /\ Len(toHelper) <= PipeCap /\ Len(toClient) <= PipeCap
    /\ helper \in {"reading", "working", "writing", "exited"}
    /\ request \in [id : Ids \cup {NoId}, parts : 0 .. 2]
    /\ Len(saying) <= 4
    /\ reader.at \in {"reading", "sending", "gone"} /\ Len(reader.have) <= 2
    /\ Len(answers) <= AnswerCap /\ ToSet(answers) \subseteq Response \cup {FrameError}
    /\ ended \in {"no", "by itself", "terminated"}
    /\ compiler \in BOOLEAN /\ stranger \in BOOLEAN
    /\ number \in {"helper", "nobody", "stranger"}
    /\ lies \in 0 .. MaxLies /\ got \in Ids \cup {NoId}

\* start_with_sandbox: the process is spawned and its threads started; the
\* handshake is the first exchange.
ExchangeInit ==
    /\ client = "idle" /\ asked = NoId /\ closing = FALSE /\ patient = FALSE
    /\ nextId = 0 /\ expired = FALSE /\ result = [id |-> NoId, what |-> "none"]
    /\ queue = <<>> /\ outcome = "none" /\ writer = [at |-> "idle", id |-> NoId, left |-> 0]
    /\ toHelper = <<>> /\ toClient = <<>>
    /\ helper = "reading" /\ request = [id |-> NoId, parts |-> 0] /\ saying = <<>>
    /\ reader = [at |-> "reading", have |-> <<>>] /\ answers = <<>>
    /\ reaped = FALSE /\ ended = "no" /\ compiler = FALSE
    /\ number = "helper" /\ stranger = FALSE /\ lies = 0 /\ got = NoId

(***************************************************************************)
(* The client: one exchange, bounded by its deadline.                      *)
(***************************************************************************)

\* A handshake that was not answered as expected fails the start, and the
\* half-made Helper is dropped.
Usable == nextId = 0 \/ result.id # 0 \/ result.what = "answered"

\* The client stops waiting: with an outcome, or to end the helper first.
Ends(what) ==
    /\ result' = [id |-> asked, what |-> what]
    /\ asked' = NoId
    /\ IF what = "timed out" THEN client' = "reaping" /\ patient' = FALSE
       ELSE IF closing THEN client' = "reaping" /\ patient' = (what \in {"answered", "died"})
       ELSE client' = "idle" /\ UNCHANGED patient

\* send_within, up to the try_send of deliver.  last: the request is the one
\* of shutdown.
SendWithin(last) ==
    /\ client = "idle" /\ Usable /\ ~expired /\ nextId <= MaxId
    /\ nextId' = nextId + 1 /\ asked' = nextId /\ outcome' = "none"
    /\ client' = "sending" /\ closing' = last
    /\ IF queue = <<>> /\ ~WriterGone THEN queue' = <<nextId>> ELSE UNCHANGED queue
    /\ UNCHANGED <<patient, expired, result, writer, readerVars, helperVars, processVars,
                   toHelper, toClient, got>>

\* Poisoned after a timeout, it refuses without sending; shutdown ends it at once.
SendRefused ==
    /\ client = "idle" /\ Usable /\ expired
    /\ result' = [result EXCEPT !.what = "poisoned"]
    /\ \/ UNCHANGED <<client, patient, closing>>
       \/ client' = "reaping" /\ patient' = FALSE /\ closing' = TRUE
    /\ UNCHANGED <<asked, nextId, expired, writerVars, readerVars, helperVars, processVars,
                   toHelper, toClient, got>>

\* deliver: the frame has reached the pipe.
Delivered ==
    /\ client = "sending" /\ outcome = "written"
    /\ client' = "receiving"
    /\ UNCHANGED <<asked, closing, patient, nextId, expired, result, writerVars, readerVars,
                   helperVars, processVars, toHelper, toClient, got>>

\* A writer that has gone, taking the request with it or before it came.
WriterLeft == outcome = "none" /\ WriterGone

\* explain: a stream failure of a helper that has exited is its death.
NotDelivered ==
    /\ client = "sending" /\ (outcome \in {"failed", "too large"} \/ WriterLeft)
    /\ IF HelperExited /\ outcome # "too large"
       THEN /\ Ends("died") /\ reaped' = TRUE
            /\ ended' = IF reaped THEN ended ELSE "by itself"
            /\ number' = IF reaped THEN number ELSE "nobody"
       ELSE Ends("frame error") /\ UNCHANGED <<reaped, ended, number>>
    /\ UNCHANGED <<closing, nextId, expired, stranger, writerVars, readerVars, helperVars,
                   toHelper, toClient, got>>

\* Mutant: only the answer has a deadline.
SendExpiresNever == FALSE
\* The deadline passes with the request unwritten, or with another one still
\* in the channel.
SendExpires == client = "sending" /\ outcome = "none" /\ ~WriterGone

\* The deadline passes with no answer in the channel.
ReceiveExpires == client = "receiving" /\ answers = <<>> /\ ~ReaderGone

Expire ==
    /\ SendExpires \/ ReceiveExpires
    /\ Ends("timed out") /\ expired' = TRUE
    /\ UNCHANGED <<closing, nextId, writerVars, readerVars, helperVars, processVars, toHelper,
                   toClient, got>>

\* Mutant: the answer's id is not looked at.
OutcomeOfAnyId(r) ==
    IF r = FrameError THEN "frame error"
    ELSE IF r.revision # "ours" THEN "other revision"
    ELSE IF r.body = "failed" THEN "refused" ELSE "answered"
\* receive_with_timeout: the checks on an answer, in their order.
OutcomeOf(r) ==
    IF r = FrameError THEN "frame error"
    ELSE IF r.revision # "ours" THEN "other revision"
    ELSE IF r.id # asked THEN "mismatched"
    ELSE IF r.body = "failed" THEN "refused" ELSE "answered"

ReceiveAnswer ==
    /\ client = "receiving" /\ answers # <<>>
    /\ Ends(OutcomeOf(Head(answers)))
    /\ answers' = Tail(answers)
    /\ got' = IF OutcomeOf(Head(answers)) \in {"answered", "refused"} THEN Head(answers).id
              ELSE got
    /\ UNCHANGED <<closing, nextId, expired, writerVars, reader, helperVars, processVars,
                   toHelper, toClient>>

ReceiveNothing ==
    /\ client = "receiving" /\ answers = <<>> /\ ReaderGone
    /\ Ends("died")
    /\ UNCHANGED <<closing, nextId, expired, writerVars, readerVars, helperVars, processVars,
                   toHelper, toClient, got>>

(***************************************************************************)
(* The end of the helper process.                                          *)
(***************************************************************************)

\* Helper::drop begins.
DropHelper ==
    /\ client = "idle"
    /\ client' = "reaping" /\ patient' = FALSE /\ closing' = TRUE
    /\ UNCHANGED <<asked, nextId, expired, result, writerVars, readerVars, helperVars,
                   processVars, toHelper, toClient, got>>

AfterReaping == IF closing THEN "dropping" ELSE "idle"

\* reap_within: has_exited says it has gone.
FoundExited ==
    /\ client = "reaping" /\ HelperExited
    /\ client' = AfterReaping
    /\ reaped' = TRUE
    /\ ended' = IF reaped THEN ended ELSE "by itself"
    /\ number' = IF reaped THEN number ELSE "nobody"
    /\ UNCHANGED <<asked, closing, patient, nextId, expired, result, stranger, writerVars,
                   readerVars, helperVars, toHelper, toClient, got>>
\* ... or that it has not, and the grace is over.
FoundRunning ==
    /\ client = "reaping" /\ ~HelperExited
    /\ client' = "killing"
    /\ UNCHANGED <<asked, closing, patient, nextId, expired, result, writerVars, readerVars,
                   helperVars, processVars, toHelper, toClient, got>>

\* signal_target: the number stops being the helper's once it is reaped.
SignalTarget == ~reaped

\* signal_process_group and Child::kill.
SignalGroup ==
    IF number = "stranger" THEN stranger' = TRUE /\ UNCHANGED <<helper, compiler>>
    ELSE helper' = "exited" /\ compiler' = FALSE /\ UNCHANGED stranger

\* terminate, then wait: of reap_within, and of HelperProcess::drop, whose
\* calls find nothing left to do.
TerminateAndWait ==
    /\ client \in {"killing", "dropping"}
    /\ IF SignalTarget THEN SignalGroup ELSE UNCHANGED <<helper, compiler, stranger>>
    /\ reaped' = TRUE
    /\ ended' = IF reaped THEN ended ELSE "terminated"
    /\ number' = IF reaped THEN number ELSE "nobody"
    /\ client' = IF client = "killing" THEN AfterReaping ELSE "gone"
    /\ UNCHANGED <<asked, closing, patient, nextId, expired, result, writerVars, readerVars,
                   request, saying, lies, toHelper, toClient, got>>

\* The system gives the number of a reaped process to another one.
NumberReused ==
    /\ number = "nobody" /\ number' = "stranger"
    /\ UNCHANGED <<clientVars, writerVars, readerVars, helperVars, reaped, ended, stranger,
                   toHelper, toClient, got>>

(***************************************************************************)
(* The threads.                                                            *)
(***************************************************************************)

WriterTakes ==
    /\ writer.at = "idle" /\ queue # <<>>
    /\ writer' = [at |-> "writing", id |-> Head(queue), left |-> 2]
    /\ queue' = <<>>
    /\ UNCHANGED <<clientVars, outcome, readerVars, helperVars, processVars, toHelper, toClient,
                   got>>

\* A client that has stopped waiting has dropped the other end.
Reports(o) == outcome' = IF client = "sending" /\ asked = writer.id THEN o ELSE outcome

WriterWrites ==
    /\ writer.at = "writing" /\ ~HelperExited /\ Len(toHelper) < PipeCap
    /\ toHelper' = Append(toHelper, Chunk(writer.id, 3 - writer.left))
    /\ IF writer.left = 1
       THEN writer' = [at |-> "idle", id |-> NoId, left |-> 0] /\ Reports("written")
       ELSE writer' = [writer EXCEPT !.left = 1] /\ UNCHANGED outcome
    /\ UNCHANGED <<clientVars, queue, readerVars, helperVars, processVars, toClient, got>>

\* The pipe is broken, or the request does not fit in a frame.
WriterFails ==
    /\ writer.at = "writing"
    /\ \/ HelperExited /\ Reports("failed")
       \/ writer.left = 2 /\ Reports("too large")
    /\ writer' = [writer EXCEPT !.at = "gone"]
    /\ UNCHANGED <<clientVars, queue, readerVars, helperVars, processVars, toHelper, toClient, got>>

\* The client has gone and with it the sending end of the channel.
WriterLeaves ==
    /\ writer.at = "idle" /\ queue = <<>> /\ client = "gone"
    /\ writer' = [writer EXCEPT !.at = "gone"]
    /\ UNCHANGED <<clientVars, queue, outcome, readerVars, helperVars, processVars, toHelper,
                   toClient, got>>

\* read_frame: a whole frame is parsed.
Parsed(frame) == IF frame[1].of # frame[2].of \/ frame[1].of.body = "unreadable" THEN FrameError
                 ELSE frame[1].of

ReaderReads ==
    /\ reader.at = "reading" /\ toClient # <<>>
    /\ toClient' = Tail(toClient)
    /\ LET have == Append(reader.have, Head(toClient))
       IN  reader' = [at |-> IF Len(have) = 2 THEN "sending" ELSE "reading", have |-> have]
    /\ UNCHANGED <<clientVars, writerVars, answers, helperVars, processVars, toHelper, got>>

\* After an error the stream is not read any further.
ReaderSends ==
    /\ reader.at = "sending" /\ client # "gone" /\ Len(answers) < AnswerCap
    /\ answers' = Append(answers, Parsed(reader.have))
    /\ reader' = [at |-> IF Parsed(reader.have) = FrameError THEN "gone" ELSE "reading",
                  have |-> <<>>]
    /\ UNCHANGED <<clientVars, writerVars, helperVars, processVars, toHelper, toClient, got>>

\* The stream ends between two frames or in the middle of one.
ReaderAtEnd ==
    /\ reader.at = "reading" /\ toClient = <<>> /\ HelperExited
    /\ reader.have = <<>> \/ client = "gone" \/ Len(answers) < AnswerCap
    /\ answers' = IF reader.have = <<>> \/ client = "gone" THEN answers
                  ELSE Append(answers, FrameError)
    /\ reader' = [at |-> "gone", have |-> <<>>]
    /\ UNCHANGED <<clientVars, writerVars, helperVars, processVars, toHelper, toClient, got>>

ReaderLeaves ==
    /\ reader.at = "sending" /\ client = "gone"
    /\ reader' = [at |-> "gone", have |-> <<>>]
    /\ UNCHANGED <<clientVars, writerVars, answers, helperVars, processVars, toHelper, toClient,
                   got>>

(***************************************************************************)
(* The helper.                                                             *)
(***************************************************************************)

\* serve: read_frame.
ServeReads ==
    /\ helper = "reading" /\ toHelper # <<>>
    /\ toHelper' = Tail(toHelper)
    /\ request' = [id |-> Head(toHelper).of, parts |-> request.parts + 1]
    /\ helper' = IF request'.parts = 2 THEN "working" ELSE "reading"
    /\ UNCHANGED <<clientVars, writerVars, readerVars, saying, compiler, lies, processVars,
                   toClient, got>>

CompilerStarts ==
    /\ helper = "working" /\ ~compiler /\ compiler' = TRUE
    /\ UNCHANGED <<clientVars, writerVars, readerVars, helper, request, saying, lies,
                   processVars, toHelper, toClient, got>>

ResponseTo(id, body) == [id |-> id, revision |-> "ours", body |-> body]

\* serve: the answer carries the request's id; one that is too large for a
\* frame is replaced before any of it is written.
AnswerFrame(id, body) == Frame(ResponseTo(id, IF body = "too large" THEN "fine" ELSE body))

ServeAnswers(body) ==
    /\ helper = "working"
    /\ helper' = "writing" /\ compiler' = FALSE
    /\ saying' = AnswerFrame(request.id, body)
    /\ UNCHANGED <<clientVars, writerVars, readerVars, request, lies, processVars, toHelper,
                   toClient, got>>

ServeWrites ==
    /\ helper = "writing" /\ Len(toClient) < PipeCap
    /\ toClient' = Append(toClient, Head(saying))
    /\ saying' = Tail(saying)
    /\ IF saying' = <<>>
       THEN helper' = "reading" /\ request' = [id |-> NoId, parts |-> 0]
       ELSE UNCHANGED <<helper, request>>
    /\ UNCHANGED <<clientVars, writerVars, readerVars, compiler, lies, processVars, toHelper,
                   got>>

\* What the mock does: any frame at all, at a time of its choosing.
Lies(r) ==
    /\ helper = "reading" /\ request.parts = 0 /\ lies < MaxLies
    /\ helper' = "writing" /\ saying' = Frame(r) /\ lies' = lies + 1
    /\ UNCHANGED <<clientVars, writerVars, readerVars, request, compiler, processVars, toHelper,
                   toClient, got>>

\* The end of the input, an acknowledged shutdown, or a crash.  A crash leaves
\* the compiler it started running.
HelperExits ==
    /\ ~HelperExited
    /\ helper' = "exited" /\ saying' = <<>>
    /\ UNCHANGED <<clientVars, writerVars, readerVars, request, compiler, lies, processVars,
                   toHelper, toClient, got>>

Client ==
    \/ Delivered \/ NotDelivered \/ Expire \/ ReceiveAnswer \/ ReceiveNothing
    \/ FoundExited \/ FoundRunning \/ TerminateAndWait
Writer == WriterTakes \/ WriterWrites \/ WriterFails \/ WriterLeaves
Reader == ReaderReads \/ ReaderSends \/ ReaderAtEnd \/ ReaderLeaves
Helper ==
    \/ ServeReads \/ CompilerStarts \/ ServeWrites \/ HelperExits
    \/ \E body \in {"fine", "failed", "too large"} : ServeAnswers(body)
    \/ \E r \in Response : Lies(r)

ExchangeNext ==
    \/ \E last \in BOOLEAN : SendWithin(last)
    \/ SendRefused \/ DropHelper \/ NumberReused
    \/ Client \/ Writer \/ Reader \/ Helper

ExchangeSpec == ExchangeInit /\ [][ExchangeNext]_exchangeVars

\* A thread that can go on does, and deadlines pass; nothing makes the helper
\* do anything.
ExchangeFairSpec ==
    /\ ExchangeSpec
    /\ WF_exchangeVars(Client) /\ WF_exchangeVars(Writer) /\ WF_exchangeVars(Reader)

(***************************************************************************)
(* Properties.                                                             *)
(***************************************************************************)

\* Whatever a helper sends, and however late, the answer a caller is given is
\* the answer to what it asked.
AnswersTheQuestion ==
    result.what \in {"answered", "refused"} => got = result.id

\* While the helper keeps to its loop, a conversation that is kept has nothing
\* under way in it: no part of a frame, no answer that was not asked for.
KeepsItsPlace ==
    client = "idle" /\ result.what \in Kept /\ lies = 0
        => /\ queue = <<>> /\ writer.at = "idle" /\ toHelper = <<>>
           /\ toClient = <<>> /\ answers = <<>> /\ reader.have = <<>>
           /\ HelperExited \/ request.id = NoId

\* deliver finds its channel full only if a deadline passed before (io.rs).
FullOnlyAfterDeadline == client = "idle" /\ queue # <<>> /\ ~WriterGone => expired

\* A helper that missed a deadline is gone by the time the caller hears of it.
LateHelperIsReaped == client = "idle" /\ expired => reaped /\ HelperExited

\* Once reaped, the helper's number may be anybody's: it is never signalled.
StrangersAreSpared == ~stranger

\* A helper that is dropped leaves neither a process nor a zombie, and one that
\* had to be ended leaves no compiler either.
NothingIsLeftBehind ==
    /\ client = "gone" => HelperExited /\ reaped
    /\ ended = "terminated" => ~compiler

\* Every call returns, whatever the helper does: neither a full pipe nor a
\* silent helper holds the caller.
ExchangesReturn == client # "idle" ~> client \in {"idle", "gone"}

\* A conversation with a helper is sound whatever the helper does and however
\* late: answers go with their questions, the conversation that is kept keeps
\* its place, and a helper that is given up on is ended, reaped and never
\* signalled again (client.rs, client/io.rs, sandbox.rs).
ConversationIsSound ==
    /\ ExchangeTypeOK
    /\ AnswersTheQuestion
    /\ KeepsItsPlace
    /\ FullOnlyAfterDeadline
    /\ LateHelperIsReaped
    /\ StrangersAreSpared
    /\ NothingIsLeftBehind
=============================================================================
