--------------------------- MODULE DatabaseLease ---------------------------
(***************************************************************************)
(* The commands that share one audit database: a scan, cache clear, cache    *)
(* prune and cache status, each a process of its own.  Modelled are the      *)
(* lease (scan_lock.rs: an advisory lock on a sidecar file, which has an     *)
(* inode), the files of the database (cache.rs, store/preflight.rs) and the  *)
(* status of the rows a scan stages.  A process may be killed anywhere: its  *)
(* lock goes with it, the files it left behind do not.  The connections a    *)
(* command opens one after the other are taken as one, and SQLite's files    *)
(* are as SQLite's documentation has them.                                   *)
(***************************************************************************)
EXTENDS Naturals, FiniteSets, Sequences

CONSTANTS
    Procs,      \* processes
    Inodes,     \* identities of the lock file
    MaxRow      \* bound on scan_run row ids

Nobody == "nobody"
Absent == "absent"

ASSUME LeaseAssumption ==
    /\ Nobody \notin Procs /\ Absent \notin Inodes
    /\ MaxRow \in Nat \ {0}

VARIABLES
    lockFile,   \* the inode at the lock path, or Absent
    locked,     \* who holds the advisory lock of each inode
    handle,     \* the inode a process has open, or Absent
    db,         \* the main file: absent, empty, torn (a first commit cut short) or full
    sidecars,   \* the files SQLite keeps beside it
    strays,     \* those of them a reader made for a main file that was unlinked
    rows,       \* status of each scan_run row
    cmd,        \* the command a process runs
    pc,         \* where it is in it
    staged,     \* the row a scan has staged, or 0
    doomed,     \* the files cache clear has still to remove
    removed,    \* whether cache clear has removed a file
    seen,       \* the running rows cache status has counted
    conn,       \* whether cache status has a database open, and it is the one at the path
    said        \* what the last command of a process answered

vars == <<lockFile, locked, handle, db, sidecars, strays, rows, cmd, pc, staged, doomed, removed, seen,
          conn, said>>
lockVars == <<lockFile, locked, handle>>
fileVars == <<db, sidecars, strays, rows>>
noteVars == <<staged, doomed, removed, seen, conn>>

Row == 1 .. MaxRow
Sidecars == {"wal", "journal", "shm"}
Commands == {"scan", "clear", "prune", "status"}
Answers == {"none", "recorded", "failed", "in use", "nothing to remove", "removed",
            "pruned", "none abandoned", "abandoned", "a scan is running", "unreadable",
            "no database"}

\* Where a process is once it has the lease for its command.
Work == [scan |-> "open", clear |-> "remove", prune |-> "prune"]

TypeOK ==
    /\ lockFile \in Inodes \cup {Absent}
    /\ locked \in [Inodes -> Procs \cup {Nobody}]
    /\ handle \in [Procs -> Inodes \cup {Absent}]
    /\ db \in {"absent", "empty", "torn", "full"}
    /\ sidecars \subseteq Sidecars /\ strays \subseteq sidecars \cap {"wal", "shm"}
    /\ rows \in [Row -> {"none", "running", "completed", "gone"}]
    /\ cmd \in [Procs -> Commands]
    /\ pc \in [Procs -> {"idle", "open_lock", "try_lock", "open", "init", "stage", "staged",
                         "remove", "prune", "status", "count", "close", "probe", "probe_try",
                         "probe_unlock"}]
    /\ staged \in [Procs -> Row \cup {0}]
    /\ doomed \in [Procs -> Seq(Sidecars \cup {"db"})]
    /\ removed \in [Procs -> BOOLEAN]
    /\ seen \in [Procs -> SUBSET Row]
    /\ conn \in [Procs -> {"none", "here", "unlinked"}]
    /\ said \in [Procs -> Answers]

Init ==
    /\ lockFile = Absent
    /\ locked = [i \in Inodes |-> Nobody]
    /\ handle = [p \in Procs |-> Absent]
    /\ db = "absent" /\ sidecars = {} /\ strays = {}
    /\ rows = [r \in Row |-> "none"]
    /\ cmd = [p \in Procs |-> "scan"]
    /\ pc = [p \in Procs |-> "idle"]
    /\ staged = [p \in Procs |-> 0]
    /\ doomed = [p \in Procs |-> <<>>]
    /\ removed = [p \in Procs |-> FALSE]
    /\ seen = [p \in Procs |-> {}]
    /\ conn = [p \in Procs |-> "none"]
    /\ said = [p \in Procs |-> "none"]

(***************************************************************************)
(* Files and rows.                                                         *)
(***************************************************************************)

\* Mutant: the rollback journal is not listed.
DatabaseFilesWithoutJournal == <<"db", "wal", "shm">>
\* Mutant: the lock file is listed as one of the database's.
DatabaseFilesAndLock == <<"db", "wal", "journal", "shm", "lock">>
\* database_files, in the order cache clear removes them.
DatabaseFiles == <<"db", "wal", "journal", "shm">>

Present(f) == IF f = "db" THEN db # "absent" ELSE f \in sidecars
AnyFile == db # "absent" \/ sidecars # {}

\* looks_orphaned: sidecars beside a missing or empty main file.
LooksOrphaned == db \in {"absent", "empty"} /\ sidecars # {}

\* preflight and schema validation: the journal of a torn database rolls it
\* back to an empty one, which has no schema marker.
Readable == db = "full"

Running == {r \in Row : rows[r] = "running"}

\* AUTOINCREMENT: the id of a removed row is not given out again, as long as
\* the file lives.
Unused == {r \in Row : rows[r] = "none"}

\* The sidecars are in use: by a scan, or by a cache status that has read.
Uses(p) == pc[p] \in {"stage", "staged"} \/ (conn[p] = "here" /\ pc[p] # "count")

\* The last connection to a database takes the sidecars with it.
Disconnects(p) ==
    /\ sidecars' = IF \E q \in Procs \ {p} : Uses(q) THEN sidecars ELSE {}
    /\ strays' = strays \cap sidecars'

\* Where process p holds the lease for the command it runs.
Holding(p) == pc[p] \in {"open", "init", "stage", "staged", "remove", "prune"}

Unlocked(p) ==
    [i \in Inodes |-> IF i = handle[p] /\ locked[i] = p THEN Nobody ELSE locked[i]]

\* The command ends with an answer; the lock and the lock file are closed.
Ends(p, answer) ==
    /\ pc' = [pc EXCEPT ![p] = "idle"]
    /\ said' = [said EXCEPT ![p] = answer]
    /\ locked' = Unlocked(p)
    /\ handle' = [handle EXCEPT ![p] = Absent]
    /\ staged' = [staged EXCEPT ![p] = 0]
    /\ doomed' = [doomed EXCEPT ![p] = <<>>]
    /\ removed' = [removed EXCEPT ![p] = FALSE]
    /\ seen' = [seen EXCEPT ![p] = {}]
    /\ conn' = [conn EXCEPT ![p] = "none"]
    /\ UNCHANGED <<lockFile, cmd>>

Goto(p, s) == pc' = [pc EXCEPT ![p] = s] /\ UNCHANGED <<cmd, said>>

(***************************************************************************)
(* Starting a command, and the lease.                                      *)
(***************************************************************************)

\* cache clear and cache prune look for a database before they lock anything.
Begin(p, c) ==
    /\ pc[p] = "idle"
    /\ cmd' = [cmd EXCEPT ![p] = c]
    /\ \/ /\ \/ c = "scan"
             \/ c = "clear" /\ AnyFile
             \/ c = "prune" /\ db # "absent"
          /\ pc' = [pc EXCEPT ![p] = "open_lock"]
          /\ said' = [said EXCEPT ![p] = "none"]
       \/ /\ c = "clear" /\ ~ AnyFile
          /\ pc' = pc /\ said' = [said EXCEPT ![p] = "nothing to remove"]
       \/ /\ c = "prune" /\ db = "absent"
          /\ pc' = pc /\ said' = [said EXCEPT ![p] = "no database"]
       \/ /\ c = "status"
          /\ pc' = [pc EXCEPT ![p] = "status"]
          /\ said' = [said EXCEPT ![p] = "none"]
    /\ UNCHANGED <<lockVars, fileVars, noteVars>>

\* acquire opens the sidecar, creating it when it is not there.
OpenLock(p) ==
    /\ pc[p] = "open_lock"
    /\ \/ lockFile # Absent /\ lockFile' = lockFile
       \/ /\ lockFile = Absent
          /\ lockFile' \in {i \in Inodes : \A q \in Procs : handle[q] # i}
    /\ handle' = [handle EXCEPT ![p] = lockFile']
    /\ Goto(p, "try_lock")
    /\ UNCHANGED <<locked, fileVars, noteVars>>

\* Mutant: a shared lock is asked for.
GrantedShared(p) ==
    /\ pc[p] = "try_lock"
    /\ locked' = [locked EXCEPT ![handle[p]] = p]
    /\ Goto(p, Work[cmd[p]])
    /\ doomed' = [doomed EXCEPT ![p] = IF cmd[p] = "clear" THEN DatabaseFiles ELSE <<>>]
    /\ UNCHANGED <<lockFile, handle, fileVars, staged, removed, seen, conn>>
Granted(p) ==
    /\ pc[p] = "try_lock" /\ locked[handle[p]] = Nobody
    /\ locked' = [locked EXCEPT ![handle[p]] = p]
    /\ Goto(p, Work[cmd[p]])
    /\ doomed' = [doomed EXCEPT ![p] = IF cmd[p] = "clear" THEN DatabaseFiles ELSE <<>>]
    /\ UNCHANGED <<lockFile, handle, fileVars, staged, removed, seen, conn>>

\* Mutant: the lock is waited for.
Waits(p) ==
    /\ pc[p] = "try_lock" /\ locked[handle[p]] # Nobody
    /\ UNCHANGED vars
Refused(p) ==
    /\ pc[p] = "try_lock" /\ locked[handle[p]] # Nobody
    /\ Ends(p, "in use")
    /\ UNCHANGED fileVars

(***************************************************************************)
(* A scan: one database, created when there is none, one staged row.        *)
(***************************************************************************)

\* Store::open: a missing or empty database is created, another validated and
\* recovered.
OpenStore(p) ==
    /\ pc[p] = "open" /\ ~ LooksOrphaned
    /\ \/ /\ Readable
          /\ sidecars' = {"wal", "shm"} /\ db' = db
          /\ Goto(p, "stage")
       \/ /\ db \in {"absent", "empty"}
          /\ db' = "empty" /\ sidecars' = sidecars
          /\ Goto(p, "init")
    /\ UNCHANGED <<lockVars, noteVars, strays, rows>>

\* The wait before a database counts as orphaned changes nothing: only whoever
\* has the lease makes a main file or removes what lies beside a missing one.
OpenRefused(p) ==
    /\ pc[p] = "open" /\ (LooksOrphaned \/ db = "torn")
    /\ Ends(p, "failed")
    /\ UNCHANGED fileVars

\* The baseline is one transaction under a rollback journal: the journal, the
\* pages, and the commit, after which the journal mode is WAL.
Initialize(p) ==
    /\ pc[p] = "init"
    /\ \/ db = "empty" /\ "journal" \notin sidecars /\ sidecars' = sidecars \cup {"journal"}
          /\ db' = db /\ Goto(p, "init")
       \/ db = "empty" /\ "journal" \in sidecars /\ db' = "torn"
          /\ sidecars' = sidecars /\ Goto(p, "init")
       \/ db = "torn" /\ db' = "full"
          /\ sidecars' = {"wal", "shm"} /\ Goto(p, "stage")
    /\ UNCHANGED <<lockVars, noteVars, strays, rows>>

Stage(p) ==
    /\ pc[p] = "stage" /\ Unused # {}
    /\ \E r \in Unused :
        /\ \A q \in Unused : r <= q
        /\ rows' = [rows EXCEPT ![r] = "running"]
        /\ staged' = [staged EXCEPT ![p] = r]
    /\ Goto(p, "staged")
    /\ UNCHANGED <<lockVars, db, sidecars, strays, doomed, removed, seen, conn>>

Complete(p) ==
    /\ pc[p] = "staged"
    /\ rows' = [rows EXCEPT ![staged[p]] = "completed"]
    /\ Disconnects(p)
    /\ Ends(p, "recorded")
    /\ UNCHANGED db

\* The cleanup of a failed scan may fail as well.
ScanFails(p) ==
    /\ pc[p] \in {"stage", "staged"}
    /\ \/ rows' = rows
       \/ pc[p] = "staged" /\ rows' = [rows EXCEPT ![staged[p]] = "gone"]
    /\ Disconnects(p)
    /\ Ends(p, "failed")
    /\ UNCHANGED db

(***************************************************************************)
(* cache clear and cache prune.                                            *)
(***************************************************************************)

\* A connection stays with the file it has open.
Unlinked == [q \in Procs |-> IF conn[q] = "none" THEN "none" ELSE "unlinked"]

\* Mutant: the lock file goes with the last file of the database.
RemoveLockFile(p) ==
    /\ pc[p] = "remove" /\ doomed[p] # <<>>
    /\ db' = IF Head(doomed[p]) = "db" THEN "absent" ELSE db
    /\ sidecars' = sidecars \ {Head(doomed[p])}
    /\ rows' = IF Head(doomed[p]) = "db" THEN [r \in Row |-> "none"] ELSE rows
    /\ strays' = strays \ {Head(doomed[p])}
    /\ conn' = IF Head(doomed[p]) = "db" THEN Unlinked ELSE conn
    /\ doomed' = [doomed EXCEPT ![p] = Tail(@)]
    /\ removed' = [removed EXCEPT ![p] = @ \/ Present(Head(doomed[p]))]
    /\ lockFile' = IF Tail(doomed[p]) = <<>> THEN Absent ELSE lockFile
    /\ UNCHANGED <<locked, handle, cmd, pc, staged, seen, said>>
\* remove_database_file, one file of database_files after the other.
RemoveFile(p) ==
    /\ pc[p] = "remove" /\ doomed[p] # <<>>
    /\ db' = IF Head(doomed[p]) = "db" THEN "absent" ELSE db
    /\ sidecars' = sidecars \ {Head(doomed[p])}
    /\ rows' = IF Head(doomed[p]) = "db" THEN [r \in Row |-> "none"] ELSE rows
    /\ strays' = strays \ {Head(doomed[p])}
    /\ conn' = IF Head(doomed[p]) = "db" THEN Unlinked ELSE conn
    /\ doomed' = [doomed EXCEPT ![p] = Tail(@)]
    /\ removed' = [removed EXCEPT ![p] = @ \/ Present(Head(doomed[p]))]
    /\ UNCHANGED <<lockVars, cmd, pc, staged, seen, said>>

RemoveFails(p) ==
    /\ pc[p] = "remove" /\ doomed[p] # <<>>
    /\ Ends(p, "failed")
    /\ UNCHANGED fileVars

Cleared(p) ==
    /\ pc[p] = "remove" /\ doomed[p] = <<>>
    /\ Ends(p, IF removed[p] THEN "removed" ELSE "nothing to remove")
    /\ UNCHANGED fileVars

PruneRows(p) ==
    /\ pc[p] = "prune"
    /\ \/ /\ Readable
          /\ rows' = [r \in Row |-> IF r \in Running THEN "gone" ELSE rows[r]]
          /\ Disconnects(p)
          /\ Ends(p, "pruned")
       \/ /\ ~ Readable
          /\ Ends(p, "failed")
          /\ UNCHANGED <<rows, sidecars, strays>>
    /\ UNCHANGED db

(***************************************************************************)
(* cache status takes no lease: it opens the database, counts, probes if it   *)
(* counted any, closes, and probes again for the last line it prints.       *)
(***************************************************************************)

StatusOpen(p) ==
    /\ pc[p] = "status"
    /\ \/ /\ Readable
          /\ conn' = [conn EXCEPT ![p] = "here"]
          /\ Goto(p, "count")
       \/ /\ ~ Readable
          /\ said' = [said EXCEPT ![p] = IF AnyFile THEN "unreadable" ELSE "no database"]
          /\ pc' = [pc EXCEPT ![p] = "probe"]
          /\ UNCHANGED <<conn, cmd>>
    /\ UNCHANGED <<lockVars, fileVars, staged, doomed, removed, seen>>

\* The first read of a connection makes the sidecars of a WAL database.
Count(p) ==
    /\ pc[p] = "count" /\ conn[p] = "here"
    /\ sidecars' = sidecars \cup {"wal", "shm"}
    /\ \/ /\ Running # {}
          /\ seen' = [seen EXCEPT ![p] = Running]
          /\ Goto(p, "probe")
       \/ /\ Running = {}
          /\ said' = [said EXCEPT ![p] = "none abandoned"]
          /\ pc' = [pc EXCEPT ![p] = "close"]
          /\ UNCHANGED <<seen, cmd>>
    /\ UNCHANGED <<lockVars, db, strays, rows, staged, doomed, removed, conn>>

\* When cache clear came first the read fails, or makes sidecars by the name of
\* a file that is gone, as far as SQLite had got; it reads what it has open.
CountUnlinked(p) ==
    /\ pc[p] = "count" /\ conn[p] = "unlinked"
    /\ \E made \in {{}, {"shm"}, {"wal", "shm"}} :
          sidecars' = sidecars \cup made /\ strays' = strays \cup made
    /\ \E answer \in {"none", "none abandoned", "unreadable"} :
          /\ said' = [said EXCEPT ![p] = answer]
          /\ pc' = [pc EXCEPT ![p] = IF answer = "none" THEN "probe" ELSE "close"]
    /\ UNCHANGED <<lockVars, db, rows, staged, doomed, removed, seen, conn, cmd>>

\* The connection is dropped: on a file that is not at the path any more, SQLite
\* removes nothing.
StatusClose(p) ==
    /\ pc[p] = "close"
    /\ \/ conn[p] = "here" /\ Disconnects(p)
       \/ conn[p] # "here" /\ UNCHANGED <<sidecars, strays>>
    /\ conn' = [conn EXCEPT ![p] = "none"]
    /\ Goto(p, "probe")
    /\ UNCHANGED <<lockVars, db, rows, staged, doomed, removed, seen>>

\* What a probe found settles the answer, if it is still open; else it is the
\* last line.
Probed(p, answer) ==
    \/ /\ said[p] # "none"
       /\ Ends(p, said[p])
    \/ /\ said[p] = "none"
       /\ said' = [said EXCEPT ![p] = answer]
       /\ pc' = [pc EXCEPT ![p] = "close"]
       /\ locked' = Unlocked(p)
       /\ handle' = [handle EXCEPT ![p] = Absent]
       /\ UNCHANGED <<lockFile, cmd, noteVars>>

\* lease_status opens the sidecar without creating it ...
Probe(p) ==
    /\ pc[p] = "probe"
    /\ \/ /\ lockFile = Absent
          /\ Probed(p, "abandoned")
       \/ /\ lockFile # Absent
          /\ handle' = [handle EXCEPT ![p] = lockFile]
          /\ Goto(p, "probe_try")
          /\ UNCHANGED <<lockFile, locked, noteVars>>
    /\ UNCHANGED fileVars

\* ... and tries the lock itself, for want of a way to ask.
ProbeTry(p) ==
    /\ pc[p] = "probe_try"
    /\ \/ /\ locked[handle[p]] = Nobody
          /\ locked' = [locked EXCEPT ![handle[p]] = p]
          /\ Goto(p, "probe_unlock")
          /\ UNCHANGED <<lockFile, handle, noteVars>>
       \/ /\ locked[handle[p]] # Nobody
          /\ Probed(p, "a scan is running")
    /\ UNCHANGED fileVars

ProbeUnlock(p) ==
    /\ pc[p] = "probe_unlock"
    /\ Probed(p, "abandoned")
    /\ UNCHANGED fileVars

-----------------------------------------------------------------------------

\* A process is killed, or gives up over an I/O error: the system closes its
\* files.
Crash(p) ==
    /\ pc[p] # "idle"
    /\ Ends(p, "none")
    /\ UNCHANGED fileVars

Step(p) ==
    \/ OpenLock(p) \/ Granted(p) \/ Refused(p)
    \/ OpenStore(p) \/ OpenRefused(p) \/ Initialize(p) \/ Stage(p) \/ Complete(p) \/ ScanFails(p)
    \/ RemoveFile(p) \/ RemoveFails(p) \/ Cleared(p) \/ PruneRows(p)
    \/ StatusOpen(p) \/ Count(p) \/ CountUnlinked(p) \/ StatusClose(p)
    \/ Probe(p) \/ ProbeTry(p) \/ ProbeUnlock(p)

Next ==
    \E p \in Procs :
        \/ \E c \in Commands : Begin(p, c)
        \/ Step(p)
        \/ Crash(p)

Spec == Init /\ [][Next]_vars

\* A started command is scheduled; nothing starts one or kills one.
FairSpec == Spec /\ \A p \in Procs : WF_vars(Step(p))

(***************************************************************************)
(* What the lease is for.                                                  *)
(***************************************************************************)

\* Two commands never have the lease at once.  The lock is on an inode and the
\* commands go by a path: this is why the sidecar is never deleted (acquire).
LeaseExclusive ==
    \A p, q \in Procs : Holding(p) /\ Holding(q) => p = q

\* While a scan works, nobody unlinks its database or removes its row: a clear
\* or a prune happens before a scan starts or after it has recorded its result.
StagedWorkSurvives ==
    \A p \in Procs : pc[p] = "staged" => db = "full" /\ rows[staged[p]] = "running"

\* A clear that says there is no database any more leaves no file behind that a
\* later Store::open refuses, whatever state the crash of a scan left it in, but
\* for what a cache status it overtook made afterwards (database_files promises
\* it without the exception; it takes no lease, so there is no keeping it out).
OnlyStraysAreLeft ==
    [][\A p \in Procs :
          pc[p] = "remove" /\ said'[p] \in {"removed", "nothing to remove"}
            => db' = "absent" /\ sidecars' \subseteq strays']_vars

\* No command waits for another: each one started comes to its end.
CommandsEnd == \A p \in Procs : pc[p] # "idle" ~> pc[p] = "idle"

\* A command is refused as "in use by another codehelion scan or cache clear"
\* only while one of them is at work.
RefusedOnlyWhenInUse ==
    [][\A p \in Procs :
          pc[p] = "try_lock" /\ said'[p] = "in use" => \E q \in Procs : Holding(q)]_vars

\* No run cache status reports as abandoned belongs to a scan at work, or has
\* been recorded.
AbandonedMeansAbandoned ==
    [][\A p \in Procs :
          said[p] = "none" /\ said'[p] = "abandoned"
            => \A r \in seen[p] : rows[r] # "completed" /\ \A q \in Procs : staged[q] # r]_vars

=============================================================================
