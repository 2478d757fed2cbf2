----------------------------- MODULE StoreOpen -----------------------------
(***************************************************************************)
(* Store::open and Store::open_existing: processes open the database at one  *)
(* path while others create it, write it, crash over it, and while a build   *)
(* that knows another schema (or another tool) uses the same file.           *)
(*                                                                           *)
(* A file's content is what its schema marker says and a generation that     *)
(* tells transactions apart; a rollback restores the very same content, byte  *)
(* for byte.  SQLite is external: a rollback journal holds the content before *)
(* the transaction, and is hot when nobody holds the lock; a WAL holds the   *)
(* latest committed content, or is empty: reading makes one.                 *)
(***************************************************************************)
EXTENDS Naturals, FiniteSets

CONSTANTS
    Openers,        \* processes that open the database
    None,           \* no such file, no such process
    Other,          \* the build or tool that shares the path
    Marks,          \* what it writes: a subset of AllMarks
    Found,          \* what the database may hold before anyone comes
    MaxAttempts,    \* MAX_ATTEMPTS
    MaxCommits,     \* bound: transactions the other build commits
    Faults          \* bound: its faults, a subset of {"rollback", "crash"}

AllMarks == {"ours", "other", "bare", "blank"}

Foreign == {"other", "bare", "blank"}
EmptyFile == [mark |-> "empty", gen |-> 0]
Torn == [mark |-> "torn", gen |-> 0]
Content == [mark : AllMarks \cup {"empty", "mixed", "torn"}, gen : Nat]
Disks == [main : Content \cup {None}, wal : Content \cup {None}, journal : Content \cup {None}]

ASSUME OpenAssumption ==
    /\ IsFiniteSet(Openers)
    /\ None \notin Openers /\ Other \notin Openers /\ None # Other
    /\ None \notin Content
    /\ Marks \subseteq AllMarks /\ Found \subseteq AllMarks
    /\ MaxAttempts \in Nat \ {0} /\ MaxCommits \in Nat
    /\ Faults \subseteq {"rollback", "crash"}

VARIABLES
    disk,       \* the database's files: main, wal, journal
    lock,       \* who holds SQLite's write lock
    commits,    \* transactions the other build has committed
    st,         \* st[o]: where an opener is
    ghost       \* ghost[o]: since o began, since it read the real database

openVars == <<disk, lock, commits, st, ghost>>

Member == <<"main", "wal", "journal">>
OpeningOver == {"opened", "refused", "dead"}
Connected == {"revalidating", "peeking", "locking", "creating", "writing", "journalMode", "opened"}
OpenSteps == {"idle", "orphans", "look", "inPlace", "stamping", "copying", "found", "half", "validating",
          "connecting"} \cup Connected \cup OpeningOver
NoFiles == [main |-> None, wal |-> None, journal |-> None]
NotBegun == [pc |-> "idle", create |-> FALSE, existing |-> FALSE, attempt |-> 0, at |-> 0,
         before |-> NoFiles, copy |-> NoFiles, said |-> "nothing", why |-> "nothing"]

Kinds == {"write", "open", "undo", "emptyWal"}
Ghosts == [others : SUBSET Kinds, later : BOOLEAN, been : SUBSET (AllMarks \cup {"empty"})]

Openings ==
    [pc : OpenSteps, create : BOOLEAN, existing : BOOLEAN, attempt : 0 .. MaxAttempts, at : 0 .. 3,
     before : Disks, copy : Disks, said : AllMarks \cup {"empty", "torn", "nothing"},
     why : {"nothing", "orphaned", "unsupported", "changed", "busy", "missing"}]

OpenTypeOK ==
    /\ disk \in Disks /\ lock \in Openers \cup {None, Other} /\ commits \in 0 .. MaxCommits
    /\ st \in [Openers -> Openings]
    /\ ghost \in [Openers -> Ghosts]

(***************************************************************************)
(* What SQLite makes of the files.                                         *)
(***************************************************************************)

RolledBack(d) ==
    IF d.journal = None THEN d ELSE [d EXCEPT !.main = d.journal, !.journal = None]

Latest(d) ==
    LET r == RolledBack(d)
    IN IF r.wal \notin {None, EmptyFile} THEN r.wal ELSE IF r.main # None THEN r.main ELSE EmptyFile

Marker(d) == Latest(d).mark

\* The pages of the main file are being written: readers wait.
Spilled == lock = Other \/ \E o \in Openers : lock = o /\ st[o].pc = "writing"
Hot == disk.journal # None /\ lock = None
AsRead(d) == IF Hot THEN RolledBack(d) ELSE d
Checkpointed(d) ==
    IF d.wal = None THEN d
    ELSE [d EXCEPT !.main = IF d.wal = EmptyFile THEN @ ELSE d.wal, !.wal = None]

\* A database in write-ahead mode is only read with a WAL beside it.
MakesEmptyWal(before, d) ==
    /\ before.main \notin {None, EmptyFile} /\ before.wal = None /\ before.journal = None
    /\ d = [before EXCEPT !.wal = EmptyFile]
Readings(d) == {d} \cup {e \in {[d EXCEPT !.wal = EmptyFile]} : MakesEmptyWal(d, e)}

LooksOrphaned ==
    /\ disk.main \in {None, EmptyFile}
    /\ disk.wal # None \/ disk.journal # None

\* What who does to the files by leaving them as d.
Undoes(before, d) ==
    before.journal # None /\ d.main = before.journal /\ d.main # before.main
Kind(who, d) ==
    IF Undoes(disk, d) THEN "undo" ELSE IF MakesEmptyWal(disk, d) THEN "emptyWal"
    ELSE IF who = Other THEN "write" ELSE "open"

\* What each opener's ghosts say once who leaves the files as d.
Seen(who, d) ==
    [o \in Openers |->
        IF st[o].pc = "idle" THEN ghost[o]
        ELSE [others |-> ghost[o].others \cup (IF o # who /\ d # disk THEN {Kind(who, d)} ELSE {}),
              been |-> ghost[o].been \cup {Marker(d)},
              later |-> ghost[o].later \/ (o # who /\ Marker(d) # Marker(disk))]]

Leaves(who, d) == disk' = d /\ ghost' = Seen(who, d)

Unchanged == UNCHANGED <<disk, ghost>>
Goes(o, pc) == st' = [st EXCEPT ![o].pc = pc]
\* The private copy goes with the directory it was made in.
Without(s) == [s EXCEPT !.before = NoFiles, !.copy = NoFiles, !.at = 0]
Refuse(o, why) == st' = [st EXCEPT ![o] = [Without(@) EXCEPT !.pc = "refused", !.why = why]]

(***************************************************************************)
(* Before the database is opened for writing.                              *)
(***************************************************************************)

StartOpening(o) ==
    /\ st[o].pc = "idle"
    /\ \E create \in BOOLEAN : st' = [st EXCEPT ![o] = [NotBegun EXCEPT !.pc = "orphans", !.create = create]]
    /\ ghost' = [ghost EXCEPT ![o] = [others |-> {}, later |-> FALSE,
                                      been |-> {Marker(disk)}]]
    /\ UNCHANGED <<disk, lock, commits>>

RejectOrphanedSidecars(o) ==
    /\ st[o].pc = "orphans"
    /\ IF LooksOrphaned THEN Refuse(o, "orphaned") ELSE Goes(o, "look")
    /\ Unchanged /\ UNCHANGED <<lock, commits>>

Existing(o) ==
    /\ st[o].pc = "look"
    /\ LET existing == disk.main \notin {None, EmptyFile} IN
       st' = [st EXCEPT ![o].existing = existing, ![o].pc = IF existing THEN "inPlace" ELSE "connecting"]
    /\ Unchanged /\ UNCHANGED <<lock, commits>>

\* Mutant: whatever can be read in place is taken.
InPlaceUnchecked(o) ==
    /\ st[o].pc = "inPlace"
    /\ st' = [st EXCEPT ![o].pc = "connecting"]
    /\ Unchanged /\ UNCHANGED <<lock, commits>>

\* A reader waits for a writer and gives up, and cannot roll a journal back.
ValidateInPlace(o) ==
    /\ st[o].pc = "inPlace"
    /\ \/ /\ Spilled \/ Hot \/ disk.main = None
          /\ st' = [st EXCEPT ![o].pc = "stamping", ![o].attempt = 1]
          /\ Unchanged
       \/ /\ ~Spilled /\ ~Hot /\ disk.main # None
          /\ IF Marker(disk) = "ours" THEN Goes(o, "connecting") ELSE Refuse(o, "unsupported")
          /\ \E d \in Readings(disk) : Leaves(o, d)
    /\ UNCHANGED <<lock, commits>>

StampBefore(o) ==
    /\ st[o].pc = "stamping"
    /\ st' = [st EXCEPT ![o].before = disk, ![o].copy = NoFiles, ![o].at = 1, ![o].pc = "found"]
    /\ Unchanged /\ UNCHANGED <<lock, commits>>

\* copy_snapshot_members: a sidecar that is not there is left out.
FindMember(o) ==
    /\ st[o].pc = "copying"
    /\ st' = IF st[o].at = 3 THEN [st EXCEPT ![o].pc = "validating", ![o].at = 0]
             ELSE IF disk[Member[st[o].at + 1]] = None THEN [st EXCEPT ![o].at = @ + 1]
             ELSE [st EXCEPT ![o].at = @ + 1, ![o].pc = "found"]
    /\ Unchanged /\ UNCHANGED <<lock, commits>>

CopyOne(o) ==
    /\ st[o].pc = "found"
    /\ LET member == Member[st[o].at] IN
       IF disk[member] = None THEN Refuse(o, "changed")
       ELSE st' = [st EXCEPT ![o].copy[member] = disk[member],
                             ![o].pc = IF member = "main" THEN "half" ELSE "copying"]
    /\ Unchanged /\ UNCHANGED <<lock, commits>>

\* The main file is written where it lies: a copy may be half of each content.
CopyRest(o) ==
    /\ st[o].pc = "half"
    /\ st' = [st EXCEPT ![o].pc = "copying",
                        ![o].copy["main"] = IF disk.main = @ THEN @ ELSE Torn]
    /\ Unchanged /\ UNCHANGED <<lock, commits>>

\* Mutant: the copy is tried until the files keep still.
TryForEver(o) == st' = [st EXCEPT ![o] = [Without(@) EXCEPT !.pc = "stamping"]]

TryAgain(o) ==
    IF st[o].attempt = MaxAttempts THEN Refuse(o, "changed")
    ELSE st' = [st EXCEPT ![o] = [Without(@) EXCEPT !.attempt = st[o].attempt + 1, !.pc = "stamping"]]

\* What the private copy says.
Concludes(o) ==
    LET said == Marker(st[o].copy) IN
    st' = [st EXCEPT ![o] =
              IF said = "ours" THEN [Without(@) EXCEPT !.said = said, !.pc = "connecting"]
              ELSE [Without(@) EXCEPT !.said = said, !.pc = "refused", !.why = "unsupported"]]

\* The second stamp, the verdict on the copy and the third stamp.
StampAfterCopy(o) ==
    /\ st[o].pc = "validating" /\ st[o].at = 0
    /\ IF disk # st[o].before THEN TryAgain(o) ELSE st' = [st EXCEPT ![o].at = 1]
    /\ Unchanged /\ UNCHANGED <<lock, commits>>

ValidateSnapshot(o) ==
    /\ st[o].pc = "validating" /\ st[o].at = 1
    /\ IF disk # st[o].before THEN TryAgain(o)
       ELSE Concludes(o)
    /\ Unchanged /\ UNCHANGED <<lock, commits>>

(***************************************************************************)
(* The real connection.                                                    *)
(***************************************************************************)

Connect(o) ==
    /\ st[o].pc = "connecting"
    /\ IF disk.main = None /\ (st[o].existing \/ ~st[o].create)
       THEN Refuse(o, "missing") /\ Unchanged
       ELSE /\ Goes(o, IF st[o].existing \/ ~st[o].create THEN "revalidating" ELSE "peeking")
            /\ Leaves(o, IF disk.main = None THEN [disk EXCEPT !.main = EmptyFile] ELSE disk)
    /\ UNCHANGED <<lock, commits>>

Accepted(o) == IF st[o].create THEN "journalMode" ELSE "opened"

\* o has read the marker on the connection it keeps.
Accept(o, pc) ==
    /\ Goes(o, pc) /\ disk' \in Readings(AsRead(disk))
    /\ ghost' = [Seen(o, disk') EXCEPT ![o].later = FALSE]

\* The last connection to close a database checkpoints its WAL.
Closed(o, d) ==
    Readings(d) \cup
        IF \E p \in Openers \ {o} : st[p].pc \in Connected THEN {} ELSE {Checkpointed(d)}

Reject(o) == Refuse(o, "unsupported") /\ \E d \in Closed(o, AsRead(disk)) : Leaves(o, d)

\* Mutant: what preflight found is trusted.
RevalidateTrusting(o) ==
    /\ st[o].pc = "revalidating" /\ ~Spilled
    /\ Accept(o, Accepted(o))
    /\ UNCHANGED <<lock, commits>>

Revalidate(o) ==
    /\ st[o].pc = "revalidating" /\ ~Spilled
    /\ IF Marker(disk) = "ours" THEN Accept(o, Accepted(o)) ELSE Reject(o)
    /\ UNCHANGED <<lock, commits>>

\* initialize: the look that needs no lock.
Peek(o) ==
    /\ st[o].pc = "peeking" /\ ~Spilled
    /\ \/ Marker(disk) = "ours" /\ Accept(o, "journalMode")
       \/ Marker(disk) = "other" /\ Reject(o)
       \/ /\ Marker(disk) \notin {"ours", "other"}
          /\ Goes(o, "locking") /\ \E d \in Readings(AsRead(disk)) : Leaves(o, d)
    /\ UNCHANGED <<lock, commits>>

\* The journal is written first; the database is as it was.
BeginBaseline(o) ==
    /\ Goes(o, "creating") /\ lock' = o
    /\ Leaves(o, [AsRead(disk) EXCEPT !.journal = Latest(disk)])

\* initialize: the look under the write lock.
LookAgain(o) ==
    /\ st[o].pc = "locking" /\ lock = None
    /\ \/ Marker(disk) = "ours" /\ Accept(o, "journalMode") /\ lock' = lock
       \/ Marker(disk) \in {"other", "bare"} /\ Reject(o) /\ lock' = lock
       \/ Marker(disk) \notin {"ours", "other", "bare"} /\ BeginBaseline(o)
    /\ UNCHANGED commits

Baseline(mark) == [mark |-> IF mark \in {"empty", "blank"} THEN "ours" ELSE "mixed", gen |-> 0]

WriteBaseline(o) ==
    /\ st[o].pc = "creating" /\ Goes(o, "writing")
    /\ Leaves(o, [disk EXCEPT !.main = Baseline(Latest(disk).mark), !.wal = None])
    /\ UNCHANGED <<lock, commits>>

CommitBaseline(o) ==
    /\ st[o].pc = "writing" /\ Goes(o, "journalMode") /\ lock' = None
    /\ disk' = [disk EXCEPT !.journal = None]
    /\ ghost' = [Seen(o, disk') EXCEPT ![o].later = FALSE]
    /\ UNCHANGED commits

SetJournalMode(o) ==
    /\ st[o].pc = "journalMode" /\ lock = None
    /\ Goes(o, "opened") /\ \E d \in Readings(AsRead(disk)) : Leaves(o, d)
    /\ UNCHANGED <<lock, commits>>

\* busy_timeout: a wait on the real connection ends.
BusyTimeout(o) ==
    /\ st[o].pc \in {"revalidating", "peeking", "locking", "journalMode"}
    /\ lock # None /\ (st[o].pc \in {"revalidating", "peeking"} => Spilled)
    /\ Refuse(o, "busy")
    /\ Unchanged /\ UNCHANGED <<lock, commits>>

OpenerCrashes(o) ==
    /\ "crash" \in Faults /\ st[o].pc \notin {"idle"} \cup OpeningOver
    /\ st' = [st EXCEPT ![o] = [Without(@) EXCEPT !.pc = "dead"]]
    /\ lock' = IF lock = o THEN None ELSE lock
    /\ Unchanged /\ UNCHANGED commits

OpenerStep(o) ==
    /\ st[o].pc \notin {"idle"} \cup OpeningOver
    /\ \/ RejectOrphanedSidecars(o) \/ Existing(o) \/ ValidateInPlace(o)
       \/ StampBefore(o) \/ FindMember(o) \/ CopyOne(o) \/ CopyRest(o)
       \/ StampAfterCopy(o) \/ ValidateSnapshot(o)
       \/ Connect(o) \/ Revalidate(o) \/ Peek(o) \/ LookAgain(o)
       \/ WriteBaseline(o) \/ CommitBaseline(o) \/ SetJournalMode(o) \/ BusyTimeout(o)

(***************************************************************************)
(* The other build: transactions over a rollback journal or a WAL.          *)
(***************************************************************************)

\* No two transactions leave the same bytes: a generation nobody remembers.
Held(d) == {d.main, d.wal, d.journal} \ {None}
Copies == {disk} \cup {st[o].before : o \in Openers} \cup {st[o].copy : o \in Openers}
Remembered == {c.gen : c \in UNION {Held(d) : d \in Copies}}
Fresh == CHOOSE g \in 1 .. Cardinality(Remembered) + 1 : g \notin Remembered
Written(mark) == [mark |-> mark, gen |-> Fresh]

OtherBegin ==
    /\ lock = None /\ ~Hot /\ disk.wal = None /\ commits < MaxCommits
    /\ \E mark \in Marks :
        Leaves(Other, [disk EXCEPT !.journal = Latest(disk), !.main = Written(mark)])
    /\ lock' = Other /\ UNCHANGED <<commits, st>>

OtherCommit ==
    /\ lock = Other /\ lock' = None /\ commits' = commits + 1
    /\ Leaves(Other, [disk EXCEPT !.journal = None])
    /\ UNCHANGED st

OtherRollsBack ==
    /\ "rollback" \in Faults /\ lock = Other /\ lock' = None
    /\ Leaves(Other, RolledBack(disk))
    /\ UNCHANGED <<commits, st>>

OtherCrashes ==
    /\ "crash" \in Faults /\ lock = Other /\ lock' = None /\ commits' = commits + 1
    /\ Unchanged /\ UNCHANGED st

OtherAppends ==
    /\ lock = None /\ ~Hot /\ disk.main \notin {None, EmptyFile} /\ commits < MaxCommits
    /\ \E mark \in Marks : Leaves(Other, [disk EXCEPT !.wal = Written(mark)])
    /\ commits' = commits + 1 /\ UNCHANGED <<lock, st>>

OtherCheckpoints ==
    /\ lock = None /\ ~Hot /\ disk.wal # None
    /\ Leaves(Other, Checkpointed(disk))
    /\ UNCHANGED <<lock, commits, st>>

OtherStep ==
    OtherBegin \/ OtherCommit \/ OtherRollsBack \/ OtherCrashes \/ OtherAppends \/ OtherCheckpoints

\* A database nobody is using, one a crash left, and files without a database.
Finished == {EmptyFile} \cup {[mark |-> mark, gen |-> 0] : mark \in Found}
Unfinished == {[mark |-> mark, gen |-> 1] : mark \in Found}
InitialDisks ==
    [main : {None} \cup Finished, wal : {None}, journal : {None}]
    \cup [main : Unfinished, wal : {None}, journal : Finished]
    \cup [main : Finished, wal : Unfinished, journal : {None}]

OpenInit ==
    /\ disk \in InitialDisks /\ lock = None /\ commits = 0
    /\ st = [o \in Openers |-> NotBegun]
    /\ ghost = [o \in Openers |-> [others |-> {}, later |-> FALSE, been |-> {}]]

OpenNext == OtherStep \/ \E o \in Openers : StartOpening(o) \/ OpenerStep(o) \/ OpenerCrashes(o)

OpenSpec == OpenInit /\ [][OpenNext]_openVars
OpenFairness == \A o \in Openers : WF_openVars(OpenerStep(o))

(***************************************************************************)
(* Properties.                                                             *)
(***************************************************************************)

\* The baseline is only ever written where no tables were: however the look
\* at a fresh path, another tool's tables and the transaction interleave,
\* codehelion's tables and another's never share a database (initialize).
NothingIsMixed ==
    \A member \in DOMAIN disk : disk[member] # None => disk[member].mark # "mixed"

\* A database this build does not know keeps every byte while nobody else has
\* changed it since the opening began: its journal is not rolled back, its WAL
\* not checkpointed, and all that appears beside it is the empty WAL without
\* which SQLite does not read it; nor do other readers' empty WALs change that
\* (Store::open, preflight).
IncompatibleIsLeftAlone ==
    [][\A o \in Openers :
        st'[o].pc # st[o].pc /\ disk' # disk /\ Marker(disk) \in Foreign =>
            MakesEmptyWal(disk, disk') \/ ~(ghost[o].others \subseteq {"emptyWal"})]_openVars

\* An opened store speaks of a database that was this build's when the kept
\* connection read it, whatever happened between preflight and that reading.
OpenedIsOurs ==
    \A o \in Openers : st[o].pc = "opened" /\ ~ghost[o].later => Marker(disk) = "ours"

\* Processes that find a fresh or healthy path do not turn each other away as
\* incompatible, as long as nobody rolls a transaction back and none of them has
\* to wait for the others longer than a timeout (initialize, preflight).
NewcomersAreAccepted ==
    \A o \in Openers :
        st[o].why = "unsupported" /\ st[o].create /\ ghost[o].been \subseteq {"empty", "ours"} =>
            st[o].attempt > 0 \/ "undo" \in ghost[o].others

\* What the private copy was found to hold is what the database held at some
\* moment since the opening began, whatever others committed, crashed over,
\* checkpointed or merely read while it was made (preflight's fingerprints).
CopyIsTrue ==
    \A o \in Openers :
        st[o].said # "nothing" /\ ghost[o].others \subseteq {"write", "emptyWal"} => st[o].said \in ghost[o].been

\* An opening ends, opened or refused, however long others keep writing.
OpeningsEnd == \A o \in Openers : st[o].pc = "orphans" ~> st[o].pc \in OpeningOver

\* Openings are safe whoever else uses the path and however it was left: tables
\* are never mixed, a store that opens is this build's, processes that open it
\* together accept each other, and a private copy says what the database said
\* (Store::open, preflight).
OpeningsAreSafe ==
    /\ OpenTypeOK
    /\ NothingIsMixed
    /\ OpenedIsOurs
    /\ NewcomersAreAccepted
    /\ CopyIsTrue
=============================================================================
