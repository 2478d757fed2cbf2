------------------------ MODULE DatabaseLease_proofs ------------------------
(***************************************************************************)
(* Proofs about DatabaseLease, for any number of processes.  The argument:   *)
(* the lock file is never replaced, so every open handle is on the same      *)
(* inode (OneLockFile), and a command at work is the one the lock of its     *)
(* handle names (HolderHasLock); two commands at work are then one.  What a  *)
(* scan or a clear builds on (FilesOf) is disturbed by commands at work      *)
(* only, hence by nobody else: a cache status, which has no lease, spares it   *)
(* (Spares), for what it adds to a cleared path is a stray.                    *)
(***************************************************************************)
EXTENDS DatabaseLease, TLAPS

Places == {"idle", "open_lock", "try_lock", "open", "init", "stage", "staged",
           "remove", "prune", "status", "count", "close", "probe", "probe_try", "probe_unlock"}

LockTypeOK ==
    /\ lockFile \in Inodes \cup {Absent}
    /\ locked \in [Inodes -> Procs \cup {Nobody}]
    /\ handle \in [Procs -> Inodes \cup {Absent}]
    /\ cmd \in [Procs -> Commands]
    /\ pc \in [Procs -> Places]

\* The lock file a process has open is the one at the lock path.
OneLockFile == \A p \in Procs : handle[p] \in {Absent, lockFile}

\* Past acquire, a command has the lock of the file it opened.
HolderHasLock ==
    \A p \in Procs : Holding(p) => handle[p] # Absent /\ locked[handle[p]] = p

\* A process that asks for the lock has the lock file open.
AsksOpenFile ==
    \A p \in Procs : pc[p] \in {"try_lock", "probe_try", "probe_unlock"} => handle[p] # Absent

\* Cache status never asks for the lease.
AsksToWork == \A p \in Procs : pc[p] \in {"open_lock", "try_lock"} => cmd[p] # "status"

LockInv == LockTypeOK /\ OneLockFile /\ HolderHasLock /\ AsksOpenFile /\ AsksToWork

(***************************************************************************)
(* The lock.                                                               *)
(***************************************************************************)

\* Two commands at work are the same: the heart of the matter.
LEMMA OneHolder ==
    ASSUME LockInv, NEW p \in Procs, NEW q \in Procs, Holding(p), Holding(q)
    PROVE  p = q
BY DEF LockInv, OneLockFile, HolderHasLock

\* At first there is no lock file and no process has a handle.
LEMMA LockInit == Init => LockInv
BY DEF Init, LockInv, LockTypeOK, OneLockFile, HolderHasLock, AsksOpenFile, AsksToWork, Holding,
       Commands, Places

\* Closing the lock file gives back one's own lock and nobody else's.
LEMMA CloseKeepsLock ==
    ASSUME LockInv, NEW p \in Procs, NEW s \in {"idle", "close"},
           pc' = [pc EXCEPT ![p] = s], locked' = Unlocked(p),
           handle' = [handle EXCEPT ![p] = Absent], UNCHANGED <<lockFile, cmd>>
    PROVE  LockInv'
<1>1. LockTypeOK'
  BY DEF LockInv, LockTypeOK, Unlocked, Places
<1>2. /\ handle'[p] = Absent /\ pc'[p] = s
      /\ \A q \in Procs : q # p => handle'[q] = handle[q] /\ pc'[q] = pc[q]
  BY DEF LockInv, LockTypeOK
<1>3. OneLockFile' /\ AsksOpenFile' /\ AsksToWork'
  BY <1>2 DEF LockInv, OneLockFile, AsksOpenFile, AsksToWork
<1>4. ASSUME NEW q \in Procs, Holding(q)'
      PROVE  handle'[q] # Absent /\ locked'[handle'[q]] = q
  <2>1. q # p /\ Holding(q)
    BY <1>2, <1>4 DEF Holding
  <2>2. handle[q] # Absent /\ locked[handle[q]] = q /\ handle'[q] = handle[q]
    BY <1>2, <2>1 DEF LockInv, HolderHasLock
  <2>3. handle[q] \in Inodes
    BY <2>2 DEF LockInv, LockTypeOK
  <2> QED BY <2>1, <2>2, <2>3 DEF Unlocked, LockInv, LockTypeOK
<1> QED BY <1>1, <1>3, <1>4 DEF LockInv, HolderHasLock

\* A command that ends closes its handle, whatever it answers.
LEMMA EndsKeepsLock ==
    ASSUME LockInv, NEW p \in Procs, NEW answer, Ends(p, answer)
    PROVE  LockInv'
BY CloseKeepsLock DEF Ends

\* So does a probe, which goes on or ends once it has its answer.
LEMMA ProbedKeepsLock ==
    ASSUME LockInv, NEW p \in Procs, NEW answer, Probed(p, answer)
    PROVE  LockInv'
BY CloseKeepsLock, EndsKeepsLock DEF Probed

\* A command that goes on without touching the lock may only stay at work, or
\* stay away from it.
LEMMA GotoKeepsLock ==
    ASSUME LockInv, NEW p \in Procs, NEW s \in Places, Goto(p, s), UNCHANGED lockVars,
           s \in {"open", "init", "stage", "staged", "remove", "prune"} => Holding(p),
           s \notin {"open_lock", "try_lock", "probe_try", "probe_unlock"}
    PROVE  LockInv'
BY DEF LockInv, LockTypeOK, OneLockFile, HolderHasLock, AsksOpenFile, AsksToWork, Goto, lockVars, Holding

\* Every step of every process, kills included, keeps the lock in order.
LEMMA LockKept == LockInv /\ [Next]_vars => LockInv'
<1> SUFFICES ASSUME LockInv, [Next]_vars PROVE LockInv'
  OBVIOUS
<1>1. CASE UNCHANGED vars
  BY <1>1 DEF LockInv, LockTypeOK, OneLockFile, HolderHasLock, AsksOpenFile, AsksToWork, Holding, vars
<1>2. ASSUME NEW p \in Procs, NEW c \in Commands, Begin(p, c)
      PROVE  LockInv'
  <2>1. /\ UNCHANGED lockVars /\ cmd' = [cmd EXCEPT ![p] = c]
        /\ \/ pc' = pc /\ pc[p] = "idle"
           \/ pc' = [pc EXCEPT ![p] = "open_lock"] /\ c # "status"
           \/ pc' = [pc EXCEPT ![p] = "status"]
    BY <1>2 DEF Begin
  <2>2. LockTypeOK'
    BY <2>1 DEF LockInv, LockTypeOK, lockVars, Places
  <2>3. /\ \A q \in Procs : q # p => pc'[q] = pc[q] /\ cmd'[q] = cmd[q]
        /\ pc'[p] \in {"idle", "open_lock", "status"}
        /\ pc'[p] = "open_lock" => cmd'[p] # "status"
    BY <2>1 DEF LockInv, LockTypeOK
  <2> QED BY <2>1, <2>2, <2>3
      DEF LockInv, OneLockFile, HolderHasLock, AsksOpenFile, AsksToWork, Holding, lockVars
<1>3. ASSUME NEW p \in Procs, OpenLock(p)
      PROVE  LockInv'
  <2>1. pc' = [pc EXCEPT ![p] = "try_lock"] /\ cmd' = cmd /\ locked' = locked
    BY <1>3 DEF OpenLock, Goto
  <2>2. handle' = [handle EXCEPT ![p] = lockFile'] /\ lockFile' \in Inodes
    BY <1>3 DEF OpenLock, LockInv, LockTypeOK
  <2>3. lockFile # Absent => lockFile' = lockFile
    BY <1>3 DEF OpenLock
  <2>4. LockTypeOK'
    BY <2>1, <2>2 DEF LockInv, LockTypeOK, Places
  <2>5. \A q \in Procs : q # p => handle'[q] = handle[q] /\ pc'[q] = pc[q]
    BY <2>1, <2>2 DEF LockInv, LockTypeOK
  <2>6. handle'[p] = lockFile' /\ pc'[p] = "try_lock" /\ lockFile' # Absent
    BY <2>1, <2>2, LeaseAssumption DEF LockInv, LockTypeOK
  <2>7. OneLockFile'
    BY <2>3, <2>5, <2>6 DEF LockInv, OneLockFile
  <2>8. HolderHasLock' /\ AsksOpenFile' /\ AsksToWork'
    BY <1>3, <2>1, <2>5, <2>6 DEF LockInv, HolderHasLock, AsksOpenFile, AsksToWork, Holding, OpenLock
  <2> QED BY <2>4, <2>7, <2>8 DEF LockInv
<1>4. ASSUME NEW p \in Procs, Granted(p)
      PROVE  LockInv'
  <2>1. handle[p] \in Inodes /\ locked[handle[p]] = Nobody
    BY <1>4 DEF Granted, LockInv, LockTypeOK, AsksOpenFile
  <2>2. /\ pc' = [pc EXCEPT ![p] = Work[cmd[p]]] /\ cmd' = cmd
        /\ locked' = [locked EXCEPT ![handle[p]] = p] /\ handle' = handle /\ lockFile' = lockFile
    BY <1>4 DEF Granted, Goto
  <2>3. Work[cmd[p]] \in {"open", "remove", "prune"}
    BY <1>4 DEF Granted, LockInv, LockTypeOK, AsksToWork, Commands, Work
  <2> QED BY <2>1, <2>2, <2>3, LeaseAssumption
      DEF LockInv, LockTypeOK, OneLockFile, HolderHasLock, AsksOpenFile, AsksToWork, Holding, Places
<1>5. ASSUME NEW p \in Procs, Refused(p) \/ OpenRefused(p) \/ Complete(p) \/ ScanFails(p)
                              \/ RemoveFails(p) \/ Cleared(p) \/ PruneRows(p) \/ Crash(p)
      PROVE  LockInv'
  <2>1. \E answer : Ends(p, answer)
    BY <1>5 DEF Refused, OpenRefused, Complete, ScanFails, RemoveFails, Cleared, PruneRows, Crash
  <2> QED BY <2>1, EndsKeepsLock
<1>6. ASSUME NEW p \in Procs, OpenStore(p) \/ Initialize(p) \/ Stage(p)
      PROVE  LockInv'
  <2>1. Holding(p) /\ UNCHANGED lockVars /\ \E s \in {"init", "stage", "staged"} : Goto(p, s)
    BY <1>6 DEF OpenStore, Initialize, Stage, Holding
  <2> QED BY <2>1, GotoKeepsLock DEF Places
<1>7. ASSUME NEW p \in Procs, RemoveFile(p)
      PROVE  LockInv'
  BY <1>7 DEF RemoveFile, LockInv, LockTypeOK, OneLockFile, HolderHasLock, AsksOpenFile, AsksToWork, Holding,
              lockVars
<1>8. ASSUME NEW p \in Procs, StatusOpen(p) \/ Count(p) \/ CountUnlinked(p) \/ StatusClose(p)
      PROVE  LockInv'
  <2>1. /\ UNCHANGED <<lockVars, cmd>>
        /\ \E s \in {"count", "close", "probe"} : pc' = [pc EXCEPT ![p] = s]
    BY <1>8 DEF StatusOpen, Count, CountUnlinked, StatusClose, Goto
  <2> QED BY <2>1 DEF LockInv, LockTypeOK, OneLockFile, HolderHasLock, AsksOpenFile, AsksToWork,
                      Holding, lockVars, Places
<1>9. ASSUME NEW p \in Procs, Probe(p)
      PROVE  LockInv'
  <2>1. CASE Probed(p, "abandoned")
    BY <2>1, ProbedKeepsLock
  <2>2. CASE lockFile # Absent /\ handle' = [handle EXCEPT ![p] = lockFile]
             /\ Goto(p, "probe_try") /\ UNCHANGED <<lockFile, locked>>
    BY <1>9, <2>2 DEF Probe, Goto, LockInv, LockTypeOK, OneLockFile, HolderHasLock, AsksOpenFile,
                      AsksToWork, Holding, Places
  <2> QED BY <1>9, <2>1, <2>2 DEF Probe
<1>10. ASSUME NEW p \in Procs, ProbeTry(p)
       PROVE  LockInv'
  <2>1. CASE Probed(p, "a scan is running")
    BY <2>1, ProbedKeepsLock
  <2>2. CASE locked[handle[p]] = Nobody /\ locked' = [locked EXCEPT ![handle[p]] = p]
             /\ Goto(p, "probe_unlock") /\ UNCHANGED <<lockFile, handle>>
    <3>1. handle[p] \in Inodes /\ handle[p] # Absent
      BY <1>10 DEF ProbeTry, LockInv, LockTypeOK, AsksOpenFile
    <3> QED BY <1>10, <2>2, <3>1, LeaseAssumption
        DEF ProbeTry, Goto, LockInv, LockTypeOK, OneLockFile, HolderHasLock, AsksOpenFile,
            AsksToWork, Holding, Places
  <2> QED BY <1>10, <2>1, <2>2 DEF ProbeTry
<1>11. ASSUME NEW p \in Procs, ProbeUnlock(p)
       PROVE  LockInv'
  BY <1>11, ProbedKeepsLock DEF ProbeUnlock
<1> QED BY <1>1, <1>2, <1>3, <1>4, <1>5, <1>6, <1>7, <1>8, <1>9, <1>10, <1>11 DEF Next, Step

\* LockInv holds in every behaviour: no handle is on a file that is gone, and
\* whoever works is named by the lock of its handle (scan_lock.rs).
THEOREM LockInvariant == Spec => []LockInv
<1> QED BY LockInit, LockKept, PTL DEF Spec

\* Two commands never hold the lease at once, however many processes there are
\* and wherever they are killed.
THEOREM LeaseIsExclusive == Spec => []LeaseExclusive
<1>1. LockInv => LeaseExclusive
  BY OneHolder DEF LeaseExclusive
<1> QED BY <1>1, LockInvariant, PTL

(***************************************************************************)
(* The files and the notes.                                                *)
(***************************************************************************)

FileTypeOK ==
    /\ db \in {"absent", "empty", "torn", "full"}
    /\ sidecars \subseteq Sidecars /\ strays \subseteq sidecars \cap {"wal", "shm"}
    /\ rows \in [Row -> {"none", "running", "completed", "gone"}]

NoteTypeOK ==
    /\ staged \in [Procs -> Row \cup {0}]
    /\ doomed \in [Procs -> Seq(Sidecars \cup {"db"})]
    /\ removed \in [Procs -> BOOLEAN]
    /\ seen \in [Procs -> SUBSET Row]
    /\ conn \in [Procs -> {"none", "here", "unlinked"}]
    /\ said \in [Procs -> Answers]

\* What a clear has removed is gone, file by file, strays aside.
ClearedSoFar(p) ==
    \/ doomed[p] = <<"db", "wal", "journal", "shm">>
    \/ doomed[p] = <<"wal", "journal", "shm">> /\ db = "absent"
    \/ doomed[p] = <<"journal", "shm">> /\ db = "absent" /\ sidecars \ strays \subseteq {"journal", "shm"}
    \/ doomed[p] = <<"shm">> /\ db = "absent" /\ sidecars \ strays \subseteq {"shm"}
    \/ doomed[p] = <<>> /\ db = "absent" /\ sidecars \ strays = {}

\* What the command of a process builds on.
FilesOf(p) ==
    /\ pc[p] = "stage" => db = "full" /\ staged[p] = 0
    /\ pc[p] = "staged" => db = "full" /\ staged[p] \in Row /\ rows[staged[p]] = "running"
    /\ pc[p] = "remove" => ClearedSoFar(p)

\* A command answers when it ends, and has staged nothing before it stages.
Silent ==
    \A p \in Procs : pc[p] \in {"open_lock", "try_lock", "remove"} => said[p] = "none"
Unstaged == \A p \in Procs : pc[p] # "staged" => staged[p] = 0

\* The file at the path that cache status has open is a database.
OpenIsFull == \A p \in Procs : conn[p] = "here" => db = "full"

WorkInv ==
    /\ LockInv /\ FileTypeOK /\ NoteTypeOK /\ Silent /\ Unstaged /\ OpenIsFull
    /\ \A p \in Procs : FilesOf(p)

\* A step that leaves what was cleared cleared, and the database as it was.
Spares ==
    /\ UNCHANGED <<db, rows>>
    /\ db = "full" \/ sidecars' \ strays' \subseteq sidecars \ strays

\* A step that touches no file spares them.
LEMMA UntouchedSpares == UNCHANGED fileVars => Spares
BY DEF fileVars, Spares

\* At first nobody works and there is no database.
LEMMA WorkInit == Init => WorkInv
<1> SUFFICES ASSUME Init PROVE WorkInv
  OBVIOUS
<1>1. LockInv
  BY LockInit
<1>2. FileTypeOK /\ NoteTypeOK
  BY DEF Init, FileTypeOK, NoteTypeOK, Answers
<1> QED BY <1>1, <1>2 DEF Init, WorkInv, Silent, Unstaged, FilesOf, OpenIsFull

\* A command that ends leaves nothing of its own to build on.
LEMMA EndsNotes ==
    ASSUME LockInv, NoteTypeOK, Silent, Unstaged, NEW p \in Procs, NEW answer \in Answers,
           Ends(p, answer)
    PROVE  /\ NoteTypeOK' /\ Silent' /\ Unstaged'
           /\ pc'[p] = "idle" /\ said'[p] = answer
           /\ \A q \in Procs : conn'[q] = "here" => conn[q] = "here"
<1>1. NoteTypeOK'
  BY DEF NoteTypeOK, Ends
<1> QED BY <1>1 DEF NoteTypeOK, LockInv, LockTypeOK, Silent, Unstaged, Ends

\* Whoever disturbs the files has the lease, so nobody else builds on them.
LEMMA OthersUndisturbed ==
    ASSUME WorkInv, NEW p \in Procs, NEW q \in Procs, q # p,
           pc'[q] = pc[q], staged'[q] = staged[q], doomed'[q] = doomed[q],
           Spares \/ Holding(p)
    PROVE  FilesOf(q)'
<1>1. CASE Spares
  <2>1. FilesOf(q) /\ UNCHANGED <<db, rows>>
    BY <1>1 DEF WorkInv, Spares
  <2>2. ClearedSoFar(q) => ClearedSoFar(q)'
    BY <1>1 DEF Spares, ClearedSoFar
  <2> QED BY <2>1, <2>2 DEF FilesOf
<1>2. CASE Holding(p)
  <2>1. ~ Holding(q)
    BY <1>2, OneHolder DEF WorkInv
  <2> QED BY <2>1 DEF FilesOf, Holding
<1> QED BY <1>1, <1>2

\* Every step is one process's own: the others keep their place and notes.
LEMMA OthersKeepNotes ==
    ASSUME WorkInv, NEW p \in Procs, NEW q \in Procs, q # p,
           (\E c \in Commands : Begin(p, c)) \/ Step(p) \/ Crash(p)
    PROVE  /\ pc'[q] = pc[q] /\ staged'[q] = staged[q]
           /\ doomed'[q] = doomed[q] /\ said'[q] = said[q]
<1> USE DEF WorkInv, LockInv, LockTypeOK, NoteTypeOK
<1>1. CASE \E answer : Ends(p, answer)
  BY <1>1 DEF Ends
<1>2. CASE \E c \in Commands : Begin(p, c)
  BY <1>2 DEF Begin, noteVars
<1>3. CASE OpenLock(p) \/ Granted(p) \/ OpenStore(p) \/ Initialize(p) \/ Stage(p) \/ RemoveFile(p)
  BY <1>1, <1>3 DEF OpenLock, Granted, OpenStore, Initialize, Stage, RemoveFile, Goto, noteVars
<1>4. CASE StatusOpen(p) \/ Count(p) \/ CountUnlinked(p) \/ StatusClose(p)
  BY <1>4 DEF StatusOpen, Count, CountUnlinked, StatusClose, Goto
<1>6. CASE Probe(p) \/ ProbeTry(p) \/ ProbeUnlock(p)
  BY <1>1, <1>6 DEF Probe, ProbeTry, ProbeUnlock, Probed, Goto, noteVars
<1>5. CASE Refused(p) \/ OpenRefused(p) \/ Complete(p) \/ ScanFails(p) \/ RemoveFails(p)
           \/ Cleared(p) \/ PruneRows(p) \/ Crash(p)
  BY <1>1, <1>5 DEF Refused, OpenRefused, Complete, ScanFails, RemoveFails, Cleared, PruneRows, Crash
<1> QED BY <1>2, <1>3, <1>4, <1>5, <1>6 DEF Step

\* A step of p keeps the invariant when it keeps p's share of it.
LEMMA OwnShare ==
    ASSUME WorkInv, NEW p \in Procs,
           (\E c \in Commands : Begin(p, c)) \/ Step(p) \/ Crash(p),
           FileTypeOK', NoteTypeOK', Silent', Unstaged', FilesOf(p)', OpenIsFull',
           Spares \/ Holding(p)
    PROVE  WorkInv'
<1>1. LockInv'
  BY LockKept DEF WorkInv, Next
<1>2. \A q \in Procs : FilesOf(q)'
  BY OthersKeepNotes, OthersUndisturbed
<1> QED BY <1>1, <1>2 DEF WorkInv

\* A command that ends keeps it, whatever it left in the files it held.
LEMMA EndsWork ==
    ASSUME WorkInv, NEW p \in Procs, NEW answer \in Answers, Ends(p, answer),
           Step(p) \/ Crash(p), FileTypeOK', db' = db, Spares \/ Holding(p)
    PROVE  WorkInv'
<1>1. /\ NoteTypeOK' /\ Silent' /\ Unstaged' /\ pc'[p] = "idle"
      /\ \A q \in Procs : conn'[q] = "here" => conn[q] = "here"
  BY EndsNotes DEF WorkInv
<1>2. FilesOf(p)' /\ OpenIsFull'
  BY <1>1 DEF FilesOf, OpenIsFull, WorkInv
<1> QED BY <1>1, <1>2, OwnShare

\* A command that goes on, its notes and the files as they were.
LEMMA GotoNotes ==
    ASSUME WorkInv, NEW p \in Procs, NEW s \in Places, Goto(p, s), UNCHANGED noteVars,
           pc[p] # "staged", s # "staged",
           s \in {"open_lock", "try_lock", "remove"} => pc[p] \in {"open_lock", "try_lock", "remove"}
    PROVE  NoteTypeOK' /\ Silent' /\ Unstaged' /\ pc'[p] = s
BY DEF WorkInv, LockInv, LockTypeOK, NoteTypeOK, Silent, Unstaged, Goto, noteVars

\* No step disturbs what a command at work builds on, its own steps aside.
LEMMA WorkKept == WorkInv /\ [Next]_vars => WorkInv'
<1> SUFFICES ASSUME WorkInv, [Next]_vars PROVE WorkInv'
  OBVIOUS
<1>1. CASE UNCHANGED vars
  <2>1. LockInv'
    BY <1>1, LockKept DEF WorkInv
  <2> QED BY <1>1, <2>1 DEF WorkInv, FileTypeOK, NoteTypeOK, Silent, Unstaged, FilesOf,
                            OpenIsFull, ClearedSoFar, vars
<1>2. ASSUME NEW p \in Procs, NEW c \in Commands, Begin(p, c)
      PROVE  WorkInv'
  <2>1. /\ UNCHANGED <<fileVars, noteVars>>
        /\ pc[p] = "idle" /\ pc'[p] \in {"idle", "open_lock", "status"}
        /\ \A q \in Procs : q # p => pc'[q] = pc[q] /\ said'[q] = said[q]
        /\ pc'[p] = "open_lock" => said'[p] = "none"
    BY <1>2 DEF Begin, WorkInv, LockInv, LockTypeOK, NoteTypeOK
  <2>2. said' \in [Procs -> Answers]
    BY <1>2 DEF Begin, WorkInv, NoteTypeOK, Answers
  <2>3. FileTypeOK' /\ NoteTypeOK'
    BY <2>1, <2>2 DEF WorkInv, FileTypeOK, NoteTypeOK, fileVars, noteVars
  <2>4. Silent' /\ Unstaged' /\ FilesOf(p)' /\ OpenIsFull'
    BY <2>1 DEF WorkInv, Silent, Unstaged, FilesOf, OpenIsFull, noteVars, fileVars
  <2> QED BY <1>2, <2>1, <2>3, <2>4, OwnShare, UntouchedSpares
<1>3. ASSUME NEW p \in Procs, OpenLock(p)
      PROVE  WorkInv'
  <2>1. Goto(p, "try_lock") /\ UNCHANGED <<fileVars, noteVars>> /\ pc[p] = "open_lock"
    BY <1>3 DEF OpenLock
  <2>2. NoteTypeOK' /\ Silent' /\ Unstaged' /\ pc'[p] = "try_lock"
    BY <2>1, GotoNotes DEF Places
  <2>3. FileTypeOK' /\ FilesOf(p)' /\ OpenIsFull'
    BY <2>1, <2>2 DEF WorkInv, FileTypeOK, FilesOf, OpenIsFull, fileVars, noteVars
  <2> QED BY <1>3, <2>1, <2>2, <2>3, OwnShare, UntouchedSpares DEF Step
<1>4. ASSUME NEW p \in Procs, Granted(p)
      PROVE  WorkInv'
  <2>1. /\ UNCHANGED <<fileVars, staged, removed, seen, conn, said>> /\ pc[p] = "try_lock"
        /\ pc' = [pc EXCEPT ![p] = Work[cmd[p]]]
        /\ doomed' = [doomed EXCEPT ![p] = IF cmd[p] = "clear" THEN DatabaseFiles ELSE <<>>]
    BY <1>4 DEF Granted, Goto
  <2>2. cmd[p] \in {"scan", "clear", "prune"}
    BY <2>1 DEF WorkInv, LockInv, LockTypeOK, AsksToWork, Commands
  <2>3. pc'[p] \in {"open", "remove", "prune"} /\ (pc'[p] = "remove" => cmd[p] = "clear")
    BY <2>1, <2>2 DEF Work, WorkInv, LockInv, LockTypeOK
  <2>4. DatabaseFiles \in Seq(Sidecars \cup {"db"}) /\ <<>> \in Seq(Sidecars \cup {"db"})
    BY DEF DatabaseFiles, Sidecars
  <2>5. FileTypeOK' /\ NoteTypeOK'
    BY <2>1, <2>4 DEF WorkInv, FileTypeOK, NoteTypeOK, fileVars
  <2>6. Silent' /\ Unstaged'
    BY <2>1, <2>3 DEF WorkInv, Silent, Unstaged, LockInv, LockTypeOK
  <2>7. pc'[p] = "remove" => doomed'[p] = <<"db", "wal", "journal", "shm">>
    BY <2>1, <2>3 DEF DatabaseFiles, WorkInv, NoteTypeOK
  <2>8. FilesOf(p)' /\ OpenIsFull'
    BY <2>1, <2>3, <2>7 DEF FilesOf, ClearedSoFar, OpenIsFull, WorkInv, fileVars
  <2> QED BY <1>4, <2>1, <2>5, <2>6, <2>8, OwnShare, UntouchedSpares DEF Step
<1>5. ASSUME NEW p \in Procs,
             \/ Refused(p) \/ OpenRefused(p) \/ RemoveFails(p) \/ Cleared(p)
             \/ Crash(p)
      PROVE  WorkInv'
  <2>1. UNCHANGED fileVars /\ (\E answer \in Answers : Ends(p, answer)) /\ (Step(p) \/ Crash(p))
    BY <1>5 DEF Refused, OpenRefused, RemoveFails, Cleared, Crash, Answers, Step
  <2>2. FileTypeOK' /\ db' = db
    BY <2>1 DEF WorkInv, FileTypeOK, fileVars
  <2> QED BY <2>1, <2>2, EndsWork, UntouchedSpares
<1>6. ASSUME NEW p \in Procs, Complete(p) \/ ScanFails(p) \/ PruneRows(p)
      PROVE  WorkInv'
  <2>1. Holding(p) /\ (\E answer \in Answers : Ends(p, answer)) /\ Step(p)
    BY <1>6 DEF Complete, ScanFails, PruneRows, Holding, Answers, Step
  <2>2. FileTypeOK' /\ db' = db
    BY <1>6 DEF WorkInv, FileTypeOK, Complete, ScanFails, PruneRows, Disconnects
  <2> QED BY <2>1, <2>2, EndsWork
<1>7. ASSUME NEW p \in Procs, OpenStore(p) \/ Initialize(p)
      PROVE  WorkInv'
  <2>1. /\ UNCHANGED <<noteVars, rows>> /\ Holding(p) /\ pc[p] \in {"open", "init"}
        /\ FileTypeOK' /\ Step(p)
        /\ Goto(p, "init") \/ (Goto(p, "stage") /\ db' = "full")
    BY <1>7 DEF OpenStore, Initialize, Readable, Holding, Sidecars, WorkInv, FileTypeOK, Step
  <2>2. NoteTypeOK' /\ Silent' /\ Unstaged' /\ pc'[p] \in {"init", "stage"}
    BY <2>1, GotoNotes DEF Places
  <2>3. pc'[p] = "stage" => db' = "full"
    BY <2>1 DEF Goto, WorkInv, LockInv, LockTypeOK
  <2>4. FilesOf(p)'
    BY <2>2, <2>3 DEF FilesOf, Unstaged
  <2>5. db = "full" => db' = "full"
    BY <1>7 DEF OpenStore, Initialize
  <2>6. OpenIsFull'
    BY <2>1, <2>5 DEF OpenIsFull, WorkInv, noteVars
  <2> QED BY <2>1, <2>2, <2>4, <2>6, OwnShare
<1>8. ASSUME NEW p \in Procs, Stage(p)
      PROVE  WorkInv'
  <2>1. PICK r \in Unused : /\ rows' = [rows EXCEPT ![r] = "running"]
                            /\ staged' = [staged EXCEPT ![p] = r]
    BY <1>8 DEF Stage
  <2>2. /\ pc[p] = "stage" /\ pc' = [pc EXCEPT ![p] = "staged"]
        /\ UNCHANGED <<db, sidecars, strays, doomed, removed, seen, conn, said>>
    BY <1>8 DEF Stage, Goto
  <2>3. r \in Row
    BY <2>1 DEF Unused
  <2>4. FileTypeOK' /\ NoteTypeOK'
    BY <2>1, <2>2, <2>3 DEF WorkInv, FileTypeOK, NoteTypeOK
  <2>5. Silent' /\ Unstaged'
    BY <2>1, <2>2 DEF WorkInv, Silent, Unstaged, LockInv, LockTypeOK, NoteTypeOK
  <2>6. FilesOf(p)' /\ OpenIsFull'
    BY <2>1, <2>2, <2>3 DEF WorkInv, FilesOf, LockInv, LockTypeOK, NoteTypeOK, FileTypeOK, OpenIsFull
  <2>7. Holding(p)
    BY <2>2 DEF Holding
  <2> QED BY <1>8, <2>4, <2>5, <2>6, <2>7, OwnShare DEF Step
<1>9. ASSUME NEW p \in Procs, RemoveFile(p)
      PROVE  WorkInv'
  <2>1. Holding(p) /\ pc[p] = "remove" /\ pc' = pc /\ UNCHANGED <<staged, seen, said>>
        /\ removed' \in [Procs -> BOOLEAN]
    BY <1>9 DEF RemoveFile, Holding, WorkInv, NoteTypeOK, Present
  <2>2. ClearedSoFar(p) /\ doomed[p] # <<>>
    BY <1>9, <2>1 DEF RemoveFile, WorkInv, FilesOf
  <2>3. /\ db' = (IF Head(doomed[p]) = "db" THEN "absent" ELSE db)
        /\ sidecars' = sidecars \ {Head(doomed[p])} /\ strays' = strays \ {Head(doomed[p])}
        /\ conn' = (IF Head(doomed[p]) = "db" THEN Unlinked ELSE conn)
        /\ rows' = (IF Head(doomed[p]) = "db" THEN [r \in Row |-> "none"] ELSE rows)
        /\ doomed' = [doomed EXCEPT ![p] = Tail(doomed[p])]
    BY <1>9 DEF RemoveFile
  <2>4. FileTypeOK'
    BY <2>3 DEF WorkInv, FileTypeOK
  <2>5. ClearedSoFar(p)'
    <3>1. doomed'[p] = Tail(doomed[p])
      BY <2>3 DEF WorkInv, NoteTypeOK
    <3>2. sidecars \subseteq {"wal", "journal", "shm"}
      BY DEF WorkInv, FileTypeOK, Sidecars
    <3>3. CASE doomed[p] = <<"db", "wal", "journal", "shm">>
      <4>1. Head(doomed[p]) = "db" /\ Tail(doomed[p]) = <<"wal", "journal", "shm">>
        BY <3>3
      <4> QED BY <2>3, <3>1, <4>1 DEF ClearedSoFar, Sidecars
    <3>4. CASE doomed[p] = <<"wal", "journal", "shm">> /\ db = "absent"
      <4>1. Head(doomed[p]) = "wal" /\ Tail(doomed[p]) = <<"journal", "shm">>
        BY <3>4
      <4> QED BY <2>3, <3>1, <3>2, <3>4, <4>1 DEF ClearedSoFar, Sidecars
    <3>5. CASE /\ doomed[p] = <<"journal", "shm">>
               /\ db = "absent" /\ sidecars \ strays \subseteq {"journal", "shm"}
      <4>1. Head(doomed[p]) = "journal" /\ Tail(doomed[p]) = <<"shm">>
        BY <3>5
      <4> QED BY <2>3, <3>1, <3>5, <4>1 DEF ClearedSoFar, Sidecars
    <3>6. CASE doomed[p] = <<"shm">> /\ db = "absent" /\ sidecars \ strays \subseteq {"shm"}
      <4>1. Head(doomed[p]) = "shm" /\ Tail(doomed[p]) = <<>>
        BY <3>6
      <4> QED BY <2>3, <3>1, <3>6, <4>1 DEF ClearedSoFar, Sidecars
    <3> QED BY <2>2, <3>3, <3>4, <3>5, <3>6 DEF ClearedSoFar
  <2>6. NoteTypeOK'
    <3>1. Tail(doomed[p]) \in Seq(Sidecars \cup {"db"})
      BY <2>2 DEF WorkInv, NoteTypeOK
    <3> QED BY <2>1, <2>3, <3>1 DEF WorkInv, NoteTypeOK, Unlinked
  <2>7. Silent' /\ Unstaged' /\ FilesOf(p)'
    BY <2>1, <2>5 DEF WorkInv, Silent, Unstaged, FilesOf
  <2>8. OpenIsFull'
    BY <2>3 DEF WorkInv, OpenIsFull, Unlinked
  <2> QED BY <1>9, <2>1, <2>4, <2>6, <2>7, <2>8, OwnShare DEF Step
<1>10. ASSUME NEW p \in Procs, StatusOpen(p) \/ Count(p) \/ CountUnlinked(p) \/ StatusClose(p)
       PROVE  WorkInv'
  <2>1. Step(p)
    BY <1>10 DEF Step
  <2>2. /\ UNCHANGED <<db, rows, staged, doomed, removed, cmd>>
        /\ pc[p] \in {"status", "count", "close"}
        /\ \E s \in {"count", "close", "probe"} : pc' = [pc EXCEPT ![p] = s]
    BY <1>10 DEF StatusOpen, Count, CountUnlinked, StatusClose, Goto, fileVars
  <2>3. FileTypeOK' /\ Spares
    <3>1. CASE StatusOpen(p)
      BY <3>1 DEF StatusOpen, WorkInv, FileTypeOK, Spares, fileVars
    <3>2. CASE Count(p)
      BY <3>2 DEF Count, WorkInv, FileTypeOK, Sidecars, OpenIsFull, Spares
    <3>3. CASE CountUnlinked(p)
      BY <3>3 DEF CountUnlinked, WorkInv, FileTypeOK, Sidecars, Spares
    <3>4. CASE StatusClose(p)
      BY <3>4 DEF StatusClose, Disconnects, WorkInv, FileTypeOK, OpenIsFull, Spares
    <3> QED BY <1>10, <3>1, <3>2, <3>3, <3>4
  <2>4. NoteTypeOK'
    <3>1. said' \in [Procs -> Answers]
      BY <1>10 DEF StatusOpen, Count, CountUnlinked, StatusClose, Goto, WorkInv, NoteTypeOK, Answers
    <3>2. seen' \in [Procs -> SUBSET Row] /\ conn' \in [Procs -> {"none", "here", "unlinked"}]
      BY <1>10 DEF StatusOpen, Count, CountUnlinked, StatusClose, WorkInv, NoteTypeOK, Running
    <3> QED BY <2>2, <3>1, <3>2 DEF WorkInv, NoteTypeOK
  <2>5. pc'[p] \in {"count", "close", "probe"} /\ \A q \in Procs : q # p => pc'[q] = pc[q]
    BY <2>2 DEF WorkInv, LockInv, LockTypeOK
  <2>6. \A q \in Procs : q # p => said'[q] = said[q]
    BY <2>1, OthersKeepNotes
  <2>7. Silent' /\ Unstaged' /\ FilesOf(p)'
    BY <2>2, <2>5, <2>6 DEF WorkInv, Silent, Unstaged, FilesOf
  <2>8. OpenIsFull'
    BY <1>10 DEF StatusOpen, Readable, Count, CountUnlinked, StatusClose, WorkInv, OpenIsFull,
                 NoteTypeOK, fileVars
  <2> QED BY <2>1, <2>3, <2>4, <2>7, <2>8, OwnShare
<1>11. ASSUME NEW p \in Procs, Probe(p) \/ ProbeTry(p) \/ ProbeUnlock(p)
       PROVE  WorkInv'
  <2>1. /\ FileTypeOK' /\ UNCHANGED fileVars /\ Step(p)
        /\ pc[p] \in {"probe", "probe_try", "probe_unlock"}
    BY <1>11 DEF Probe, ProbeTry, ProbeUnlock, WorkInv, FileTypeOK, fileVars, Step
  <2>2. CASE \E s \in {"probe_try", "probe_unlock"} : Goto(p, s) /\ UNCHANGED noteVars
    <3>1. NoteTypeOK' /\ Silent' /\ Unstaged' /\ pc'[p] \in {"probe_try", "probe_unlock"}
      BY <2>1, <2>2, GotoNotes DEF Places
    <3>2. FilesOf(p)' /\ OpenIsFull'
      BY <2>1, <2>2, <3>1 DEF FilesOf, OpenIsFull, WorkInv, fileVars, noteVars
    <3> QED BY <2>1, <3>1, <3>2, OwnShare, UntouchedSpares
  <2>3. ASSUME NEW answer \in Answers, Probed(p, answer)
        PROVE  WorkInv'
    <3>1. CASE Ends(p, said[p])
      BY <2>1, <3>1, EndsWork, UntouchedSpares DEF WorkInv, NoteTypeOK, fileVars
    <3>2. CASE /\ said' = [said EXCEPT ![p] = answer]
               /\ pc' = [pc EXCEPT ![p] = "close"] /\ UNCHANGED noteVars
      <4>1. NoteTypeOK'
        BY <3>2 DEF WorkInv, NoteTypeOK, noteVars
      <4>2. Silent' /\ Unstaged' /\ FilesOf(p)'
        BY <2>1, <3>2 DEF WorkInv, NoteTypeOK, Silent, Unstaged, FilesOf, LockInv, LockTypeOK,
                          noteVars
      <4>3. OpenIsFull'
        BY <2>1, <3>2 DEF WorkInv, OpenIsFull, fileVars, noteVars
      <4> QED BY <2>1, <4>1, <4>2, <4>3, OwnShare, UntouchedSpares
    <3> QED BY <2>3, <3>1, <3>2 DEF Probed
  <2> QED BY <1>11, <2>2, <2>3 DEF Probe, ProbeTry, ProbeUnlock, Answers
<1> QED BY <1>1, <1>2, <1>3, <1>4, <1>5, <1>6, <1>7, <1>8, <1>9, <1>10, <1>11 DEF Next, Step

\* WorkInv holds in every behaviour: what a scan has staged and what a clear has
\* removed stays so until it ends.
THEOREM WorkInvariant == Spec => []WorkInv
<1> QED BY WorkInit, WorkKept, PTL DEF Spec

\* Every variable keeps its type, wherever the commands are killed.
THEOREM TypeCorrect == Spec => []TypeOK
<1>1. WorkInv => TypeOK
  BY DEF WorkInv, LockInv, LockTypeOK, FileTypeOK, NoteTypeOK, TypeOK, Places
<1> QED BY <1>1, WorkInvariant, PTL

\* The database and the row of a scan at work are there until it records them.
THEOREM StagedWorkIsKept == Spec => []StagedWorkSurvives
<1>1. WorkInv => StagedWorkSurvives
  BY DEF WorkInv, FilesOf, StagedWorkSurvives
<1> QED BY <1>1, WorkInvariant, PTL

\* What a clear that reports success leaves beside its path, and a later open of
\* the store refuses, was made by a cache status it overtook; else it leaves
\* nothing, whatever state a killed scan had left the files in.
THEOREM ClearLeavesStraysOnly == Spec => OnlyStraysAreLeft
<1> DEFINE Clears(p) == pc[p] = "remove" /\ said'[p] \in {"removed", "nothing to remove"}
                          => db' = "absent" /\ sidecars' \subseteq strays'
<1>1. ASSUME WorkInv, [Next]_vars, NEW p \in Procs
      PROVE  Clears(p)
  <2> SUFFICES ASSUME pc[p] = "remove", said'[p] \in {"removed", "nothing to remove"}
               PROVE  db' = "absent" /\ sidecars' \subseteq strays'
    OBVIOUS
  <2>1. said[p] = "none" /\ Holding(p) /\ ClearedSoFar(p)
    BY <1>1 DEF WorkInv, Silent, Holding, FilesOf
  <2>2. Cleared(p)
    <3>1. Next
      BY <1>1, <2>1 DEF vars
    <3>2. PICK q \in Procs : (\E c \in Commands : Begin(q, c)) \/ Step(q) \/ Crash(q)
      BY <3>1 DEF Next
    <3>3. q = p
      BY <2>1, <3>2, <1>1, OthersKeepNotes
    <3>4. ~ Crash(p) /\ \A c \in Commands : ~ Begin(p, c)
      BY <1>1 DEF Crash, Begin, Ends, WorkInv, NoteTypeOK
    <3>5. RemoveFile(p) \/ RemoveFails(p) \/ Cleared(p)
      BY <3>2, <3>3, <3>4 DEF Step, OpenLock, Granted, Refused, OpenStore, OpenRefused, Initialize,
         Stage, Complete, ScanFails, PruneRows, StatusOpen, Count, CountUnlinked, StatusClose,
         Probe, ProbeTry, ProbeUnlock
    <3>6. ~ RemoveFile(p) /\ ~ RemoveFails(p)
      BY <1>1, <2>1 DEF RemoveFile, RemoveFails, Ends, WorkInv, NoteTypeOK
    <3> QED BY <3>5, <3>6
  <2>3. db = "absent" /\ sidecars \ strays = {} /\ UNCHANGED fileVars
    <3>1. doomed[p] = <<>> /\ UNCHANGED fileVars
      BY <2>2 DEF Cleared
    <3>2. /\ <<>> # <<"db", "wal", "journal", "shm">> /\ <<>> # <<"wal", "journal", "shm">>
          /\ <<>> # <<"journal", "shm">> /\ <<>> # <<"shm">>
      OBVIOUS
    <3> QED BY <2>1, <3>1, <3>2 DEF ClearedSoFar
  <2> QED BY <2>3 DEF fileVars
<1>2. WorkInv /\ [Next]_vars => [\A p \in Procs : Clears(p)]_vars
  BY <1>1
<1> QED BY <1>2, WorkInvariant, PTL DEF Spec, OnlyStraysAreLeft

=============================================================================
