--------------------------- MODULE StoreOpen_proofs ---------------------------
(***************************************************************************)
(* What StoreOpen promises, for any number of openers, any contents another  *)
(* build leaves or writes, any number of its transactions and any faults:    *)
(* openings are safe (OpeningsSafe) and an incompatible database keeps every  *)
(* byte (IncompatibleLeftAlone).                                             *)
(***************************************************************************)
EXTENDS StoreOpen, FiniteSetTheorems, TLAPS

(***************************************************************************)
(* The inductive invariant.                                                *)
(***************************************************************************)

Whole == [mark : AllMarks, gen : Nat]
WholeDisks ==
    [main : Whole \cup {EmptyFile, None}, wal : Whole \cup {EmptyFile, None},
     journal : Whole \cup {EmptyFile, None}]
CopyDisks ==
    [main : Whole \cup {EmptyFile, Torn, None}, wal : Whole \cup {EmptyFile, None},
     journal : Whole \cup {EmptyFile, None}]

\* The files, whoever looks.
DiskSound(d, holder) ==
    /\ d \in WholeDisks
    /\ holder = Other => d.main \in Whole /\ d.wal = None /\ d.journal # None

\* What an opener must do before it may hold the lock, and what it then relies on.
CreatorSound(o, s, d, holder) ==
    /\ s.pc \in {"creating", "writing"} <=> holder = o
    /\ s.pc \in Connected => d.main # None
    /\ s.pc = "creating" =>
        /\ d.journal = IF d.wal \notin {None, EmptyFile} THEN d.wal ELSE d.main
        /\ d.journal.mark \in {"empty", "blank"}
    /\ s.pc = "writing" => d.main \in Whole /\ d.main.mark = "ours" /\ d.wal = None /\ d.journal # None

\* Which way an opener came.
PathSound(s) ==
    /\ s.pc # "refused" => s.why = "nothing"
    /\ s.pc \in {"stamping", "found", "half", "copying", "validating"} => s.attempt > 0
    /\ s.pc \in {"inPlace", "stamping", "found", "half", "copying", "validating"} => s.existing
    /\ s.pc = "revalidating" => s.existing \/ ~s.create
    /\ s.pc \in {"peeking", "locking", "creating", "writing"} => s.create /\ ~s.existing

\* What an opener has seen is what was there, and what it accepted is there yet.
SightSound(s, g, d) ==
    /\ s.pc # "idle" => Marker(d) \in g.been
    /\ s.pc \in {"journalMode", "opened"} /\ ~g.later => Marker(d) = "ours"
    /\ g.later => ~(g.others \subseteq {"emptyWal"})
    /\ s.said # "nothing" /\ g.others \subseteq {"write", "emptyWal"} => s.said \in g.been

\* Why a newcomer is not turned away.
NewcomerSound(s, g, d) ==
    /\ s.pc = "inPlace" /\ "undo" \notin g.others => d.main \notin {None, EmptyFile}
    /\ s.pc \in {"connecting", "revalidating"} /\ s.existing /\ s.attempt = 0 => Marker(d) # "empty"
    /\ s.why = "unsupported" /\ s.create /\ g.been \subseteq {"empty", "ours"} =>
        s.attempt > 0 \/ "undo" \in g.others

\* What nobody else has touched is as the opener found it.
Bare(d) == d.wal = None /\ d.journal = None
UndisturbedSound(s, d) ==
    /\ s.pc = "look" /\ d.main \in {None, EmptyFile} => Bare(d)
    /\ s.pc = "connecting" /\ ~s.existing => d.main \in {None, EmptyFile} /\ Bare(d)
    /\ s.pc \in {"connecting", "revalidating"} /\ s.existing => Marker(d) = "ours"
    /\ s.pc = "revalidating" /\ ~s.existing => d.main = EmptyFile /\ Bare(d)
    /\ s.pc \in {"peeking", "locking"} => d.main = EmptyFile /\ Bare(d)
    /\ s.pc = "creating" => d.main = EmptyFile /\ d.wal = None /\ d.journal = EmptyFile
    /\ s.pc = "writing" => d.journal = EmptyFile

\* The files are what they were, whether or not an empty WAL lies beside them.
Sans(c) == IF c = EmptyFile THEN None ELSE c
Same(d, b) == d.main = b.main /\ Sans(d.wal) = Sans(b.wal) /\ d.journal = b.journal

\* The files have left what they were, and only a rollback could bring them back.
New(c, b) == c # None /\ c \notin Held(b)
Moved(d, b) ==
    \/ New(d.main, b) /\ (Sans(d.wal) = None \/ New(d.wal, b))
    \/ Sans(d.wal) # Sans(b.wal) /\ (Sans(d.wal) = None \/ New(d.wal, b))
    \/ d.main = b.main /\ Sans(d.wal) = Sans(b.wal) /\ d.journal = None /\ b.journal # None

\* How many members have been copied.
CopiedSoFar(s) ==
    IF s.pc = "found" THEN s.at - 1 ELSE IF s.pc = "validating" THEN 3 ELSE s.at
UpTo(b, n) ==
    [main |-> IF n >= 1 THEN b.main ELSE None, wal |-> IF n >= 2 THEN b.wal ELSE None,
     journal |-> IF n >= 3 THEN b.journal ELSE None]

CopySound(s, d) ==
    s.pc \in {"found", "half", "copying", "validating"} =>
        \/ Same(d, s.before) /\ Same(s.copy, UpTo(s.before, CopiedSoFar(s)))
        \/ Moved(d, s.before)

CopyTyped(s) ==
    /\ s.before \in WholeDisks /\ s.copy \in CopyDisks
    /\ s.pc = "found" => s.at \in 1 .. 3
    /\ s.pc = "half" => s.at = 1 /\ s.copy.main \in Whole \cup {EmptyFile}
    /\ s.pc = "copying" => s.at \in 1 .. 3

OpenerSound(o, s, g, d, holder) ==
    /\ CreatorSound(o, s, d, holder)
    /\ PathSound(s)
    /\ SightSound(s, g, d)
    /\ NewcomerSound(s, g, d)
    /\ g.others \subseteq {"emptyWal"} => UndisturbedSound(s, d)
    /\ g.others \subseteq {"write", "emptyWal"} => CopySound(s, d)
    /\ CopyTyped(s)

OpenInv ==
    /\ OpenTypeOK
    /\ DiskSound(disk, lock)
    /\ lock = Other => commits < MaxCommits
    /\ \A o \in Openers : OpenerSound(o, st[o], ghost[o], disk, lock)

(***************************************************************************)
(* Contents and files.                                                     *)
(***************************************************************************)

\* No file is none of the contents a file has.
LEMMA ContentsAreSome ==
    /\ None \notin Whole /\ None # EmptyFile /\ None # Torn
    /\ EmptyFile \notin Whole /\ Torn \notin Whole /\ EmptyFile # Torn
    /\ EmptyFile.mark = "empty" /\ Torn.mark = "torn"
    /\ \A c \in Whole : c.mark \in AllMarks
<1>1. \A c \in Whole \cup {EmptyFile, Torn} : c \in Content
  BY DEF Whole, Content, AllMarks, EmptyFile, Torn
<1>2. None \notin Content
  BY OpenAssumption
<1>3. None \notin Whole /\ None # EmptyFile /\ None # Torn
  BY <1>1, <1>2
<1>4. EmptyFile.mark = "empty" /\ Torn.mark = "torn"
  BY DEF EmptyFile, Torn
<1>5. \A c \in Whole : c.mark \in AllMarks
  BY DEF Whole
<1>6. "empty" \notin AllMarks /\ "torn" \notin AllMarks
  BY DEF AllMarks
<1> QED
  BY <1>3, <1>4, <1>5, <1>6

\* Whole files are files, and copies of them are.
LEMMA WholeFilesAreFiles == WholeDisks \subseteq Disks /\ WholeDisks \subseteq CopyDisks /\ CopyDisks \subseteq Disks
BY DEF WholeDisks, CopyDisks, Disks, Whole, Content, AllMarks, EmptyFile, Torn

\* The latest committed content: the WAL's, else what a journal restores.
LEMMA LatestIs ==
    ASSUME NEW d \in CopyDisks
    PROVE  Latest(d) = IF d.wal \notin {None, EmptyFile} THEN d.wal
                       ELSE IF d.journal # None THEN d.journal
                       ELSE IF d.main # None THEN d.main ELSE EmptyFile
BY ContentsAreSome DEF CopyDisks, Latest, RolledBack

\* A database's marker is one of those a transaction leaves, or it has none.
LEMMA MarkerIs ==
    ASSUME NEW d \in WholeDisks
    PROVE  Latest(d) \in Whole \cup {EmptyFile} /\ Marker(d) \in AllMarks \cup {"empty"}
<1>1. d \in CopyDisks
  BY WholeFilesAreFiles
<1>2. Latest(d) \in Whole \cup {EmptyFile}
  BY <1>1, LatestIs DEF WholeDisks
<1> QED
  BY <1>2, ContentsAreSome DEF Marker

\* A rollback puts the journal back and keeps the latest content.
LEMMA RolledBackIs ==
    ASSUME NEW d \in WholeDisks
    PROVE  /\ RolledBack(d) \in WholeDisks
           /\ RolledBack(d).main = (IF d.journal # None THEN d.journal ELSE d.main)
           /\ RolledBack(d).wal = d.wal /\ RolledBack(d).journal = None
           /\ Latest(RolledBack(d)) = Latest(d)
<1>1. /\ RolledBack(d) \in WholeDisks
      /\ RolledBack(d).main = (IF d.journal # None THEN d.journal ELSE d.main)
      /\ RolledBack(d).wal = d.wal /\ RolledBack(d).journal = None
  BY DEF RolledBack, WholeDisks
<1>2. d \in CopyDisks /\ RolledBack(d) \in CopyDisks
  BY <1>1, WholeFilesAreFiles
<1> QED
  BY <1>1, <1>2, LatestIs, ContentsAreSome

\* A checkpoint moves the WAL into the main file.
LEMMA CheckpointedIs ==
    ASSUME NEW d \in WholeDisks, d.journal = None
    PROVE  /\ Checkpointed(d) \in WholeDisks
           /\ Checkpointed(d).main = (IF d.wal \notin {None, EmptyFile} THEN d.wal ELSE d.main)
           /\ Checkpointed(d).wal = None /\ Checkpointed(d).journal = None
           /\ Latest(Checkpointed(d)) = Latest(d)
<1>1. /\ Checkpointed(d) \in WholeDisks
      /\ Checkpointed(d).main = (IF d.wal \notin {None, EmptyFile} THEN d.wal ELSE d.main)
      /\ Checkpointed(d).wal = None /\ Checkpointed(d).journal = None
  BY DEF Checkpointed, WholeDisks
<1>2. d \in CopyDisks /\ Checkpointed(d) \in CopyDisks
  BY <1>1, WholeFilesAreFiles
<1> QED
  BY <1>1, <1>2, LatestIs, ContentsAreSome

\* The empty WAL a reader makes changes nothing the database says.
LEMMA EmptyWalIs ==
    ASSUME NEW d \in WholeDisks, NEW d2, MakesEmptyWal(d, d2)
    PROVE  /\ d2 \in WholeDisks
           /\ d.main \notin {None, EmptyFile} /\ d.wal = None /\ d.journal = None
           /\ d2.main = d.main /\ d2.wal = EmptyFile /\ d2.journal = None
           /\ Marker(d2) = Marker(d)
<1>1. d.main \notin {None, EmptyFile} /\ d.wal = None /\ d.journal = None
  BY DEF MakesEmptyWal
<1>2. /\ d2 \in WholeDisks
      /\ d2.main = d.main /\ d2.wal = EmptyFile /\ d2.journal = None
  BY <1>1 DEF MakesEmptyWal, WholeDisks
<1>3. d \in CopyDisks /\ d2 \in CopyDisks
  BY <1>2, WholeFilesAreFiles
<1>4. Latest(d2) = Latest(d)
  BY <1>1, <1>2, <1>3, LatestIs, ContentsAreSome
<1> QED
  BY <1>1, <1>2, <1>4 DEF Marker

\* The members are all there is to a database's files.
LEMMA SameMembers ==
    ASSUME NEW d \in Disks, NEW e \in Disks, d.main = e.main, d.wal = e.wal, d.journal = e.journal
    PROVE  d = e
BY DEF Disks

\* Files that are the same but for an empty WAL say the same.
LEMMA SameSays ==
    ASSUME NEW d \in CopyDisks, NEW b \in CopyDisks, Same(d, b)
    PROVE  Marker(d) = Marker(b)
BY LatestIs DEF Same, Sans, Marker

\* Files that have moved away from b are not b.
LEMMA MovedIsAway ==
    ASSUME NEW b, NEW d, Moved(d, b)
    PROVE  d # b
BY DEF Moved, New, Held

(***************************************************************************)
(* What a step of somebody else leaves an opener to rely on.                *)
(***************************************************************************)

\* What every step keeps, for those who did not take it.
Step(who, d, holder, d2, holder2) ==
    /\ DiskSound(d2, holder2)
    /\ holder2 # holder => holder \in {None, who} /\ holder2 \in {None, who}
    /\ holder \notin {None, who} => d2 = d
    /\ d.main # None => d2.main # None
    /\ d.main \notin {None, EmptyFile} => d2.main \notin {None, EmptyFile} \/ Undoes(d, d2)
    /\ Marker(d) # "empty" => Marker(d2) # "empty"

KindOf(who, d, d2) ==
    IF Undoes(d, d2) THEN "undo" ELSE IF MakesEmptyWal(d, d2) THEN "emptyWal"
    ELSE IF who = Other THEN "write" ELSE "open"

\* What an opener that did not move has seen of it.
HasSeen(o, s, g, g2, who, d, d2) ==
    IF s.pc = "idle" THEN g2 = g
    ELSE /\ g2.others = g.others \cup
              (IF d2 # d THEN {KindOf(who, d, d2)} ELSE {})
         /\ g2.been = g.been \cup {Marker(d2)}
         /\ g2.later = (g.later \/ Marker(d2) # Marker(d))

\* Writers take the files further away from what they were.
TakesOn(d, d2, b) ==
    /\ Moved(d, b) => Moved(d2, b)
    /\ Same(d, b) => Same(d2, b) \/ Moved(d2, b)
TakesAway(who, d, d2, b) == who = Other /\ d2 # d /\ ~Undoes(d, d2) => TakesOn(d, d2, b)

\* What only an empty WAL tells from what was is where that was.
LEMMA NothingTakenOn ==
    ASSUME NEW d, NEW d2, NEW b, Same(d2, d), Sans(d.wal) = None
    PROVE  TakesOn(d, d2, b)
BY DEF TakesOn, Same, Moved

LEMMA EmptyWalTakesOn ==
    ASSUME NEW d \in WholeDisks, NEW d2, MakesEmptyWal(d, d2), NEW b
    PROVE  TakesOn(d, d2, b)
<1>1. Same(d2, d) /\ Sans(d.wal) = None
  BY EmptyWalIs DEF Same, Sans
<1> QED
  BY <1>1, NothingTakenOn

\* An opener somebody else's step passes by stays sound.
LEMMA BystanderSound ==
    ASSUME NEW o, NEW who, who # o, o # None,
           NEW s, NEW g, NEW g2, NEW d \in WholeDisks, NEW d2, NEW l, NEW l2,
           OpenerSound(o, s, g, d, l), Step(who, d, l, d2, l2),
           HasSeen(o, s, g, g2, who, d, d2), TakesAway(who, d, d2, s.before)
    PROVE  OpenerSound(o, s, g2, d2, l2)
<1> DEFINE kind == KindOf(who, d, d2)
<1>1. CreatorSound(o, s, d2, l2)
  <2>1. l = o => l2 = o /\ d2 = d
    BY DEF Step
  <2>2. l # o => l2 # o
    BY DEF Step
  <2>3. d.main # None => d2.main # None
    BY DEF Step
  <2> QED
    BY <2>1, <2>2, <2>3 DEF OpenerSound, CreatorSound
<1>2. PathSound(s) /\ CopyTyped(s)
  BY DEF OpenerSound
<1>3. CASE s.pc = "idle"
  BY <1>1, <1>2, <1>3 DEF OpenerSound, HasSeen, SightSound, NewcomerSound, UndisturbedSound, CopySound, Connected
<1>4. CASE s.pc # "idle"
  <2>1. /\ g2.others = g.others \cup (IF d2 # d THEN {kind} ELSE {})
        /\ g2.been = g.been \cup {Marker(d2)}
        /\ g2.later = (g.later \/ Marker(d2) # Marker(d))
    BY <1>4 DEF HasSeen
  <2>2. g.others \subseteq g2.others /\ (d2 # d => kind \in g2.others) /\ (d2 = d => g2.others = g.others)
    BY <2>1
  <2>0. kind = "emptyWal" => MakesEmptyWal(d, d2)
    BY DEF KindOf
  <2> HIDE DEF kind
  <2>3. SightSound(s, g2, d2)
    <3>1. Marker(d2) # Marker(d) => ~(g2.others \subseteq {"emptyWal"})
      BY <2>0, <2>2, EmptyWalIs
    <3> QED
      BY <2>1, <2>2, <3>1 DEF OpenerSound, SightSound
  <2>4. NewcomerSound(s, g2, d2)
    <3>1. s.pc = "inPlace" /\ "undo" \notin g2.others => d2.main \notin {None, EmptyFile}
      BY <2>2 DEF OpenerSound, NewcomerSound, Step, kind, KindOf
    <3>2. g2.been \subseteq {"empty", "ours"} => g.been \subseteq {"empty", "ours"}
      BY <2>1
    <3> QED
      BY <3>1, <3>2, <2>2 DEF OpenerSound, NewcomerSound, Step
  <2>5. g2.others \subseteq {"emptyWal"} => UndisturbedSound(s, d2)
    <3> HAVE g2.others \subseteq {"emptyWal"}
    <3>1. UndisturbedSound(s, d)
      BY <2>2 DEF OpenerSound
    <3>2. CASE d2 = d
      BY <3>1, <3>2
    <3>3. CASE d2 # d
      <4>1. /\ d.main \notin {None, EmptyFile} /\ d.journal = None /\ d2.main = d.main
            /\ Marker(d2) = Marker(d)
        BY <2>0, <2>2, <3>3, EmptyWalIs
      <4>2. None # EmptyFile
        BY ContentsAreSome
      <4> QED
        BY <3>1, <4>1, <4>2 DEF UndisturbedSound
    <3> QED
      BY <3>2, <3>3
  <2>6. g2.others \subseteq {"write", "emptyWal"} => CopySound(s, d2)
    <3>1. /\ d2 # d /\ g2.others \subseteq {"write", "emptyWal"} =>
               (who = Other /\ ~Undoes(d, d2)) \/ MakesEmptyWal(d, d2)
      BY <2>2 DEF kind, KindOf
    <3>2. MakesEmptyWal(d, d2) => TakesOn(d, d2, s.before)
      BY EmptyWalTakesOn
    <3>3. d2 # d /\ g2.others \subseteq {"write", "emptyWal"} => TakesOn(d, d2, s.before)
      BY <3>1, <3>2 DEF TakesAway
    <3> QED
      BY <2>2, <3>3 DEF OpenerSound, CopySound, TakesOn
  <2> QED
    BY <1>1, <1>2, <2>3, <2>4, <2>5, <2>6 DEF OpenerSound
<1> QED
  BY <1>3, <1>4

\* What a step that leaves the files as d makes each opener's ghosts say.
LEMMA SeenIs ==
    ASSUME OpenInv, NEW who, NEW d \in WholeDisks
    PROVE  /\ Seen(who, d) \in [Openers -> Ghosts]
           /\ \A p \in Openers \ {who} : HasSeen(p, st[p], ghost[p], Seen(who, d)[p], who, disk, d)
           /\ \A p \in Openers : st[p].pc # "idle" =>
                 Seen(who, d)[p].been = ghost[p].been \cup {Marker(d)}
           /\ who \in Openers =>
                 Seen(who, d)[who].others = ghost[who].others /\ Seen(who, d)[who].later = ghost[who].later
<1>1. ghost \in [Openers -> Ghosts]
  BY DEF OpenInv, OpenTypeOK
<1>2. Marker(d) \in AllMarks \cup {"empty"}
  BY MarkerIs
<1> DEFINE more(p) == IF p # who /\ d # disk THEN {Kind(who, d)} ELSE {}
<1>3. \A p : more(p) \in SUBSET Kinds
  BY DEF Kind, Kinds
<1>4. \A p \in Openers :
        Seen(who, d)[p] = IF st[p].pc = "idle" THEN ghost[p]
                          ELSE [others |-> ghost[p].others \cup more(p),
                                been |-> ghost[p].been \cup {Marker(d)},
                                later |-> (ghost[p].later \/ (p # who /\ Marker(d) # Marker(disk)))]
  BY DEF Seen
<1>5. Seen(who, d) \in [Openers -> Ghosts]
  <2>1. Seen(who, d) = [p \in Openers |-> Seen(who, d)[p]]
    BY DEF Seen
  <2>2. \A p \in Openers : Seen(who, d)[p] \in Ghosts
    <3> TAKE p \in Openers
    <3>1. ghost[p] \in Ghosts
      BY <1>1
    <3> HIDE DEF more
    <3>2. CASE st[p].pc = "idle"
      BY <1>4, <3>1, <3>2
    <3>3. CASE st[p].pc # "idle"
      <4>1. Seen(who, d)[p] = [others |-> ghost[p].others \cup more(p),
                                been |-> ghost[p].been \cup {Marker(d)},
                                later |-> (ghost[p].later \/ (p # who /\ Marker(d) # Marker(disk)))]
        BY <1>4, <3>3
      <4>2. ghost[p].others \cup more(p) \in SUBSET Kinds
        BY <3>1, <1>3 DEF Ghosts
      <4>3. ghost[p].been \cup {Marker(d)} \in SUBSET (AllMarks \cup {"empty"})
        BY <3>1, <1>2 DEF Ghosts
      <4>4. (ghost[p].later \/ (p # who /\ Marker(d) # Marker(disk))) \in BOOLEAN
        OBVIOUS
      <4> QED
        BY <4>1, <4>2, <4>3, <4>4 DEF Ghosts
    <3> QED
      BY <3>2, <3>3
  <2> QED
    BY <2>1, <2>2
<1>6. ASSUME NEW p \in Openers, st[p].pc # "idle"
      PROVE  /\ Seen(who, d)[p].others = ghost[p].others \cup more(p)
             /\ Seen(who, d)[p].been = ghost[p].been \cup {Marker(d)}
             /\ Seen(who, d)[p].later = (ghost[p].later \/ (p # who /\ Marker(d) # Marker(disk)))
  <2> HIDE DEF more
  <2>1. Seen(who, d)[p] = [others |-> ghost[p].others \cup more(p),
                           been |-> ghost[p].been \cup {Marker(d)},
                           later |-> (ghost[p].later \/ (p # who /\ Marker(d) # Marker(disk)))]
    BY <1>4, <1>6
  <2> QED
    BY <2>1
<1>7. ASSUME NEW p \in Openers \ {who}
      PROVE  HasSeen(p, st[p], ghost[p], Seen(who, d)[p], who, disk, d)
  <2>1. CASE st[p].pc = "idle"
    <3>1. Seen(who, d)[p] = ghost[p]
      BY <1>4, <2>1
    <3> QED
      BY <3>1, <2>1 DEF HasSeen
  <2>2. CASE st[p].pc # "idle"
    <3>1. p # who
      OBVIOUS
    <3> QED
      BY <1>6, <2>2, <3>1 DEF HasSeen, Kind, KindOf
  <2> QED
    BY <2>1, <2>2
<1>8. ASSUME who \in Openers
      PROVE  Seen(who, d)[who].others = ghost[who].others /\ Seen(who, d)[who].later = ghost[who].later
  <2>1. ghost[who].later \in BOOLEAN
    BY <1>1, <1>8 DEF Ghosts
  <2>2. CASE st[who].pc = "idle"
    <3>1. Seen(who, d)[who] = ghost[who]
      BY <1>4, <1>8, <2>2
    <3> QED
      BY <3>1
  <2>3. CASE st[who].pc # "idle"
    <3>1. more(who) = {}
      OBVIOUS
    <3> QED
      BY <1>6, <1>8, <2>3, <2>1, <3>1
  <2> QED
    BY <2>2, <2>3
<1> QED
  BY <1>5, <1>6, <1>7, <1>8

\* A step that leaves the files alone shows nobody anything.
LEMMA NothingSeen ==
    ASSUME OpenInv, NEW who
    PROVE  \A p \in Openers : HasSeen(p, st[p], ghost[p], ghost[p], who, disk, disk)
<1> TAKE p \in Openers
<1>1. ghost[p].later \in BOOLEAN /\ SightSound(st[p], ghost[p], disk)
  BY DEF OpenInv, OpenTypeOK, Ghosts, OpenerSound
<1> QED
  BY <1>1 DEF HasSeen, SightSound

\* An opener's step is sound when it is for that opener and for bystanders.
LEMMA OpenerMoves ==
    ASSUME OpenInv, NEW o \in Openers, NEW s2 \in Openings,
           st' = [st EXCEPT ![o] = s2], commits' = commits,
           Step(o, disk, lock, disk', lock'), ghost' \in [Openers -> Ghosts],
           \A p \in Openers \ {o} : HasSeen(p, st[p], ghost[p], ghost'[p], o, disk, disk'),
           OpenerSound(o, s2, ghost'[o], disk', lock')
    PROVE  OpenInv'
<1>1. OpenTypeOK'
  <2>1. disk' \in Disks
    BY WholeFilesAreFiles DEF Step, DiskSound
  <2>2. lock' \in Openers \cup {None, Other}
    BY DEF Step, OpenInv, OpenTypeOK
  <2>3. st' \in [Openers -> Openings]
    BY DEF OpenInv, OpenTypeOK
  <2> QED
    BY <2>1, <2>2, <2>3 DEF OpenInv, OpenTypeOK
<1>2. DiskSound(disk', lock')
  BY DEF Step
<1>3. ASSUME NEW p \in Openers
      PROVE  OpenerSound(p, st'[p], ghost'[p], disk', lock')
  <2>1. CASE p = o
    <3>1. st'[p] = s2
      BY <2>1 DEF OpenInv, OpenTypeOK
    <3> QED
      BY <2>1, <3>1
  <2>2. CASE p # o
    <3>1. st'[p] = st[p]
      BY <2>2 DEF OpenInv, OpenTypeOK
    <3>2. p # None /\ o # Other
      BY OpenAssumption
    <3>3. TakesAway(o, disk, disk', st[p].before)
      BY <3>2 DEF TakesAway
    <3>4. /\ disk \in WholeDisks /\ OpenerSound(p, st[p], ghost[p], disk, lock)
          /\ HasSeen(p, st[p], ghost[p], ghost'[p], o, disk, disk')
      BY <2>2 DEF OpenInv, DiskSound
    <3>5. OpenerSound(p, st[p], ghost'[p], disk', lock')
      BY <3>2, <3>3, <3>4, <2>2, BystanderSound
    <3> QED
      BY <3>1, <3>5
  <2> QED
    BY <2>1, <2>2
<1>4. lock' = Other => commits' < MaxCommits
  BY OpenAssumption DEF Step, OpenInv
<1> QED
  BY <1>1, <1>2, <1>3, <1>4 DEF OpenInv

\* An opener's step that leaves files, lock and ghosts alone.
LEMMA OpenerLooks ==
    ASSUME OpenInv, NEW o \in Openers, NEW s2 \in Openings,
           st' = [st EXCEPT ![o] = s2], UNCHANGED <<disk, ghost, lock, commits>>,
           OpenerSound(o, s2, ghost[o], disk, lock)
    PROVE  OpenInv'
<1>1. Step(o, disk, lock, disk', lock')
  BY DEF Step, OpenInv
<1>2. \A p \in Openers \ {o} : HasSeen(p, st[p], ghost[p], ghost'[p], o, disk, disk')
  BY NothingSeen
<1>3. ghost' \in [Openers -> Ghosts]
  BY DEF OpenInv, OpenTypeOK
<1> QED
  BY <1>1, <1>2, <1>3, OpenerMoves

\* What an opener's own step does to ghosts.
LEMMA OwnStepSeen ==
    ASSUME OpenInv, NEW o \in Openers, st[o].pc # "idle", NEW d2 \in WholeDisks, disk' = d2,
           NEW later \in BOOLEAN,
           \/ ghost' = Seen(o, d2) /\ later = ghost[o].later
           \/ ghost' = [Seen(o, d2) EXCEPT ![o].later = FALSE] /\ later = FALSE
    PROVE  /\ ghost' \in [Openers -> Ghosts]
           /\ \A p \in Openers \ {o} : HasSeen(p, st[p], ghost[p], ghost'[p], o, disk, disk')
           /\ ghost'[o].others = ghost[o].others /\ ghost'[o].later = later
           /\ ghost'[o].been = ghost[o].been \cup {Marker(d2)}
<1> DEFINE seen == Seen(o, d2)
<1>1. /\ seen \in [Openers -> Ghosts]
      /\ \A p \in Openers \ {o} : HasSeen(p, st[p], ghost[p], seen[p], o, disk, d2)
      /\ seen[o].been = ghost[o].been \cup {Marker(d2)}
      /\ seen[o].others = ghost[o].others /\ seen[o].later = ghost[o].later
  BY SeenIs
<1> HIDE DEF seen
<1>2. CASE ghost' = seen /\ later = ghost[o].later
  BY <1>1, <1>2
<1>3. CASE ghost' = [seen EXCEPT ![o].later = FALSE] /\ later = FALSE
  <2>1. seen[o] \in Ghosts
    BY <1>1
  <2>2. [seen[o] EXCEPT !.later = FALSE] \in Ghosts
    BY <2>1 DEF Ghosts
  <2>3. ghost' \in [Openers -> Ghosts]
    BY <1>1, <1>3, <2>2
  <2>4. \A p \in Openers \ {o} : ghost'[p] = seen[p]
    BY <1>1, <1>3
  <2>5. ghost'[o] = [seen[o] EXCEPT !.later = FALSE]
    BY <1>1, <1>3
  <2>6. ghost'[o].others = seen[o].others /\ ghost'[o].later = FALSE /\ ghost'[o].been = seen[o].been
    BY <2>1, <2>5 DEF Ghosts
  <2> QED
    BY <1>1, <1>3, <2>3, <2>4, <2>6
<1> QED
  BY <1>2, <1>3 DEF seen

\* An opener's step on the files, under the ghosts it leaves.
LEMMA OpenerWrites ==
    ASSUME OpenInv, NEW o \in Openers, st[o].pc # "idle", NEW d2, disk' = d2, NEW l2, lock' = l2,
           NEW later \in BOOLEAN, commits' = commits,
           \/ ghost' = Seen(o, d2) /\ later = ghost[o].later
           \/ ghost' = [Seen(o, d2) EXCEPT ![o].later = FALSE] /\ later = FALSE,
           NEW s2 \in Openings, st' = [st EXCEPT ![o] = s2],
           Step(o, disk, lock, d2, l2),
           \A g \in Ghosts :
                /\ g.others = ghost[o].others /\ g.later = later
                /\ g.been = ghost[o].been \cup {Marker(d2)}
                => OpenerSound(o, s2, g, d2, l2)
    PROVE  OpenInv'
<1>1. d2 \in WholeDisks
  BY DEF Step, DiskSound
<1>2. /\ ghost' \in [Openers -> Ghosts]
      /\ \A p \in Openers \ {o} : HasSeen(p, st[p], ghost[p], ghost'[p], o, disk, disk')
      /\ ghost'[o].others = ghost[o].others /\ ghost'[o].later = later
      /\ ghost'[o].been = ghost[o].been \cup {Marker(d2)}
  BY <1>1, OwnStepSeen
<1>3. OpenerSound(o, s2, ghost'[o], disk', lock')
  BY <1>2
<1> QED
  BY <1>2, <1>3, OpenerMoves

(***************************************************************************)
(* Before the database is opened for writing.                              *)
(***************************************************************************)

\* Refusing takes an opener out of everything it could break.
LEMMA RefusedSound ==
    ASSUME NEW o, o # None, NEW s \in Openings, NEW g, NEW d, NEW l, l # o,
           NEW why \in {"nothing", "orphaned", "unsupported", "changed", "busy", "missing"},
           Marker(d) \in g.been, g.later => ~(g.others \subseteq {"emptyWal"}),
           s.said # "nothing" /\ g.others \subseteq {"write", "emptyWal"} => s.said \in g.been,
           why = "unsupported" /\ s.create /\ g.been \subseteq {"empty", "ours"} =>
                s.attempt > 0 \/ "undo" \in g.others
    PROVE  LET s2 == [Without(s) EXCEPT !.pc = "refused", !.why = why]
           IN s2 \in Openings /\ OpenerSound(o, s2, g, d, l)
<1> DEFINE s2 == [Without(s) EXCEPT !.pc = "refused", !.why = why]
<1>1. /\ s2.pc = "refused" /\ s2.why = why /\ s2.create = s.create /\ s2.existing = s.existing
      /\ s2.attempt = s.attempt /\ s2.said = s.said
      /\ s2.before = NoFiles /\ s2.copy = NoFiles /\ s2.at = 0
  BY DEF Without, Openings
<1>2. s2 \in Openings
  <2>1. NoFiles \in Disks
    BY DEF NoFiles, Disks
  <2>2. "refused" \in OpenSteps
    BY DEF OpenSteps, OpeningOver
  <2>3. 0 \in 0 .. 3
    OBVIOUS
  <2> QED
    BY <2>1, <2>2, <2>3 DEF Without, Openings
<1> HIDE DEF s2
<1>3. CreatorSound(o, s2, d, l)
  BY <1>1 DEF CreatorSound, Connected
<1>4. PathSound(s2)
  BY <1>1 DEF PathSound
<1>5. SightSound(s2, g, d)
  BY <1>1 DEF SightSound
<1>6. NewcomerSound(s2, g, d)
  BY <1>1 DEF NewcomerSound
<1>7. UndisturbedSound(s2, d) /\ CopySound(s2, d)
  BY <1>1 DEF UndisturbedSound, CopySound
<1>8. CopyTyped(s2)
  BY <1>1 DEF CopyTyped, NoFiles, WholeDisks, CopyDisks
<1> QED
  BY <1>2, <1>3, <1>4, <1>5, <1>6, <1>7, <1>8 DEF OpenerSound, s2

\* A crash takes an opener and its lock out of everything.
LEMMA DeadSound ==
    ASSUME NEW o, o # None, NEW s \in Openings, NEW g, NEW d, NEW l, l # o, s.why = "nothing",
           Marker(d) \in g.been, g.later => ~(g.others \subseteq {"emptyWal"}),
           s.said # "nothing" /\ g.others \subseteq {"write", "emptyWal"} => s.said \in g.been
    PROVE  LET s2 == [Without(s) EXCEPT !.pc = "dead"]
           IN s2 \in Openings /\ OpenerSound(o, s2, g, d, l)
<1> DEFINE s2 == [Without(s) EXCEPT !.pc = "dead"]
<1>1. /\ s2.pc = "dead" /\ s2.why = s.why /\ s2.create = s.create /\ s2.existing = s.existing
      /\ s2.attempt = s.attempt /\ s2.said = s.said
      /\ s2.before = NoFiles /\ s2.copy = NoFiles /\ s2.at = 0
  BY DEF Without, Openings
<1>2. s2 \in Openings
  <2>1. NoFiles \in Disks
    BY DEF NoFiles, Disks
  <2>2. "dead" \in OpenSteps
    BY DEF OpenSteps, OpeningOver
  <2>3. 0 \in 0 .. 3
    OBVIOUS
  <2> QED
    BY <2>1, <2>2, <2>3 DEF Without, Openings
<1> HIDE DEF s2
<1>3. CreatorSound(o, s2, d, l)
  BY <1>1 DEF CreatorSound, Connected
<1>4. PathSound(s2) /\ SightSound(s2, g, d) /\ NewcomerSound(s2, g, d)
  BY <1>1 DEF PathSound, SightSound, NewcomerSound
<1>5. UndisturbedSound(s2, d) /\ CopySound(s2, d)
  BY <1>1 DEF UndisturbedSound, CopySound
<1>6. CopyTyped(s2)
  BY <1>1 DEF CopyTyped, NoFiles, WholeDisks, CopyDisks
<1> QED
  BY <1>2, <1>3, <1>4, <1>5, <1>6 DEF OpenerSound, s2

\* What the invariant says of one opener.
LEMMA OneOpener ==
    ASSUME OpenInv, NEW o \in Openers
    PROVE  /\ st[o] \in Openings /\ ghost[o] \in Ghosts /\ o # None /\ o # Other
           /\ OpenerSound(o, st[o], ghost[o], disk, lock)
           /\ disk \in WholeDisks /\ disk \in CopyDisks /\ disk \in Disks
BY OpenAssumption, WholeFilesAreFiles DEF OpenInv, OpenTypeOK, DiskSound

\* An opener that looks and refuses leaves everything sound.
LEMMA LookRefused ==
    ASSUME OpenInv, NEW o \in Openers,
           NEW why \in {"orphaned", "unsupported", "changed", "busy", "missing"},
           st[o].pc \notin {"idle", "creating", "writing"}, Refuse(o, why),
           UNCHANGED <<disk, ghost, lock, commits>>,
           why = "unsupported" /\ st[o].create /\ ghost[o].been \subseteq {"empty", "ours"} =>
                st[o].attempt > 0 \/ "undo" \in ghost[o].others
    PROVE  OpenInv'
<1> DEFINE s2 == [Without(st[o]) EXCEPT !.pc = "refused", !.why = why]
<1>1. /\ st[o] \in Openings /\ o # None
      /\ CreatorSound(o, st[o], disk, lock) /\ SightSound(st[o], ghost[o], disk)
  BY OneOpener DEF OpenerSound
<1>2. lock # o
  BY <1>1 DEF CreatorSound
<1>3. /\ Marker(disk) \in ghost[o].been /\ (ghost[o].later => ~(ghost[o].others \subseteq {"emptyWal"}))
      /\ st[o].said # "nothing" /\ ghost[o].others \subseteq {"write", "emptyWal"} => st[o].said \in ghost[o].been
  BY <1>1 DEF SightSound
<1>4. s2 \in Openings /\ OpenerSound(o, s2, ghost[o], disk, lock)
  BY <1>1, <1>2, <1>3, RefusedSound
<1>5. st' = [st EXCEPT ![o] = s2]
  BY DEF Refuse
<1> HIDE DEF s2
<1> QED
  BY <1>4, <1>5, OpenerLooks

\* An opener that reads another marker, whatever its reading leaves, and refuses.
LEMMA ReadRefused ==
    ASSUME OpenInv, NEW o \in Openers, st[o].pc \notin {"idle", "creating", "writing"},
           Refuse(o, "unsupported"), NEW d2, Leaves(o, d2), Step(o, disk, lock, d2, lock),
           UNCHANGED <<lock, commits>>,
           st[o].create /\ ghost[o].been \subseteq {"empty", "ours"} =>
                st[o].attempt > 0 \/ "undo" \in ghost[o].others
    PROVE  OpenInv'
<1> DEFINE s == st[o]
           g == ghost[o]
           s2 == [Without(s) EXCEPT !.pc = "refused", !.why = "unsupported"]
<1>2. disk' = d2 /\ ghost' = Seen(o, d2) /\ st' = [st EXCEPT ![o] = s2]
  BY DEF Leaves, Refuse
<1>3. Step(o, disk, lock, d2, lock)
  OBVIOUS
<1>4. s \in Openings /\ o # None /\ OpenerSound(o, s, g, disk, lock) /\ g \in Ghosts
  BY OneOpener
<1>5. lock # o /\ SightSound(s, g, disk)
  BY <1>4 DEF OpenerSound, CreatorSound
<1>6. ASSUME NEW g2 \in Ghosts, g2.others = g.others, g2.later = g.later,
             g2.been = g.been \cup {Marker(d2)}
      PROVE  OpenerSound(o, s2, g2, d2, lock)
  <2>1. /\ Marker(d2) \in g2.been /\ (g2.later => ~(g2.others \subseteq {"emptyWal"}))
        /\ s.said # "nothing" /\ g2.others \subseteq {"write", "emptyWal"} => s.said \in g2.been
    BY <1>5, <1>6 DEF SightSound
  <2>2. s.create /\ g2.been \subseteq {"empty", "ours"} => s.attempt > 0 \/ "undo" \in g2.others
    BY <1>6
  <2> QED
    BY <1>4, <1>5, <2>1, <2>2, RefusedSound
<1>7. s2 \in Openings
  <2>1. NoFiles \in Disks
    BY DEF NoFiles, Disks
  <2>2. "refused" \in OpenSteps /\ 0 \in 0 .. 3
    BY DEF OpenSteps, OpeningOver
  <2> QED
    BY <1>4, <2>1, <2>2 DEF Without, Openings
<1>8. g.later \in BOOLEAN
  BY <1>4 DEF Ghosts
<1> HIDE DEF s2
<1> QED
  BY <1>2, <1>3, <1>6, <1>7, <1>8, OpenerWrites

\* Sidecars without a database are refused, and what is not is whole.
LEMMA RejectOrphanedSound ==
    ASSUME OpenInv, NEW o \in Openers, RejectOrphanedSidecars(o)
    PROVE  OpenInv'
<1>1. CASE LooksOrphaned
  <2>1. st[o].pc = "orphans" /\ Refuse(o, "orphaned") /\ UNCHANGED <<disk, ghost, lock, commits>>
    BY <1>1 DEF RejectOrphanedSidecars, Unchanged
  <2> QED
    BY <2>1, LookRefused
<1>2. CASE ~LooksOrphaned
  <2> DEFINE s == st[o]
             s2 == [s EXCEPT !.pc = "look"]
  <2>1. /\ s.pc = "orphans" /\ UNCHANGED <<disk, ghost, lock, commits>>
        /\ st' = [st EXCEPT ![o] = s2]
    BY <1>2 DEF RejectOrphanedSidecars, Unchanged, Goes
  <2>2. s \in Openings /\ o # None /\ OpenerSound(o, s, ghost[o], disk, lock)
    BY OneOpener
  <2>3. s2 \in Openings
    BY <2>2 DEF Openings, OpenSteps
  <2>4. /\ s2.pc = "look" /\ s2.why = s.why /\ s2.create = s.create /\ s2.existing = s.existing
        /\ s2.attempt = s.attempt /\ s2.said = s.said /\ s2.before = s.before /\ s2.copy = s.copy
    BY <2>2 DEF Openings
  <2>5. disk.main \in {None, EmptyFile} => Bare(disk)
    BY <1>2 DEF LooksOrphaned, Bare
  <2> HIDE DEF s2, s
  <2>6. CreatorSound(o, s2, disk, lock)
    BY <2>1, <2>2, <2>4 DEF OpenerSound, CreatorSound, Connected
  <2>7. PathSound(s2) /\ SightSound(s2, ghost[o], disk) /\ NewcomerSound(s2, ghost[o], disk)
    BY <2>1, <2>2, <2>4 DEF OpenerSound, PathSound, SightSound, NewcomerSound
  <2>8. UndisturbedSound(s2, disk) /\ CopySound(s2, disk) /\ CopyTyped(s2)
    BY <2>1, <2>2, <2>4, <2>5 DEF OpenerSound, UndisturbedSound, CopySound, CopyTyped
  <2>9. OpenerSound(o, s2, ghost[o], disk, lock)
    BY <2>6, <2>7, <2>8 DEF OpenerSound
  <2> QED
    BY <2>1, <2>3, <2>9, OpenerLooks
<1> QED
  BY <1>1, <1>2

\* What an opener finds to exist is there, and what it does not is nothing.
LEMMA ExistingSound ==
    ASSUME OpenInv, NEW o \in Openers, Existing(o)
    PROVE  OpenInv'
<1> DEFINE s == st[o]
           existing == disk.main \notin {None, EmptyFile}
           pc == IF existing THEN "inPlace" ELSE "connecting"
           s2 == [s EXCEPT !.existing = existing, !.pc = pc]
<1>1. /\ s.pc = "look" /\ UNCHANGED <<disk, ghost, lock, commits>>
      /\ st' = [st EXCEPT ![o] = s2]
  BY DEF Existing, Unchanged
<1>2. s \in Openings /\ o # None /\ OpenerSound(o, s, ghost[o], disk, lock)
  BY OneOpener
<1>3. pc \in OpenSteps /\ existing \in BOOLEAN
  BY DEF OpenSteps
<1>4. pc \in {"inPlace", "connecting"} /\ (pc = "inPlace" <=> existing)
  OBVIOUS
<1>5. existing <=> disk.main \notin {None, EmptyFile}
  OBVIOUS
<1> HIDE DEF pc, existing, s
<1>6. s2 \in Openings
  BY <1>2, <1>3 DEF Openings
<1>7. /\ s2.pc = pc /\ s2.why = s.why /\ s2.create = s.create /\ s2.existing = existing
      /\ s2.attempt = s.attempt /\ s2.said = s.said /\ s2.before = s.before /\ s2.copy = s.copy
  BY <1>2 DEF Openings
<1> HIDE DEF s2
<1>8. CreatorSound(o, s2, disk, lock)
  BY <1>1, <1>2, <1>4, <1>7 DEF OpenerSound, CreatorSound, Connected
<1>9. PathSound(s2) /\ SightSound(s2, ghost[o], disk)
  BY <1>1, <1>2, <1>4, <1>7 DEF OpenerSound, PathSound, SightSound
<1>10. NewcomerSound(s2, ghost[o], disk)
  BY <1>1, <1>2, <1>4, <1>5, <1>7 DEF OpenerSound, NewcomerSound, PathSound
<1>11. ghost[o].others \subseteq {"emptyWal"} => UndisturbedSound(s2, disk)
  BY <1>1, <1>2, <1>4, <1>5, <1>7 DEF OpenerSound, UndisturbedSound
<1>12. CopySound(s2, disk) /\ CopyTyped(s2)
  BY <1>1, <1>2, <1>4, <1>7 DEF OpenerSound, CopySound, CopyTyped
<1>13. OpenerSound(o, s2, ghost[o], disk, lock)
  BY <1>8, <1>9, <1>10, <1>11, <1>12 DEF OpenerSound
<1> QED
  BY <1>1, <1>6, <1>13, OpenerLooks

\* A database nobody is writing, that is there, is not empty.
LEMMA QuietIsNotEmpty ==
    ASSUME OpenInv, ~Spilled, ~Hot, disk.main \notin {None, EmptyFile}
    PROVE  Marker(disk) # "empty"
<1> SUFFICES ASSUME Marker(disk) = "empty"
             PROVE  FALSE
  OBVIOUS
<1>1. disk \in WholeDisks /\ disk \in CopyDisks
  BY WholeFilesAreFiles DEF OpenInv, DiskSound
<1>2. Latest(disk) = EmptyFile
  <2>1. Latest(disk) \in Whole \cup {EmptyFile} /\ Latest(disk).mark = "empty"
    BY <1>1, MarkerIs DEF Marker
  <2>2. \A c \in Whole : c.mark # "empty"
    BY ContentsAreSome DEF AllMarks
  <2> QED
    BY <2>1, <2>2
<1>3. disk.wal \in {None, EmptyFile} /\ disk.journal = EmptyFile
  <2>1. disk.wal \in Whole \cup {EmptyFile, None}
    BY <1>1 DEF WholeDisks
  <2> QED
    BY <1>1, <1>2, <2>1, LatestIs, ContentsAreSome
<1>4. lock # None /\ lock # Other
  BY <1>3, ContentsAreSome DEF Hot, Spilled
<1>5. lock \in Openers
  BY <1>4 DEF OpenInv, OpenTypeOK
<1>6. st[lock].pc = "creating"
  BY <1>5, ~Spilled DEF OpenInv, OpenerSound, CreatorSound, Spilled
<1>7. disk.journal = IF disk.wal \notin {None, EmptyFile} THEN disk.wal ELSE disk.main
  BY <1>5, <1>6 DEF OpenInv, OpenerSound, CreatorSound
<1> QED
  BY <1>3, <1>7

\* Reading the database rolls a hot journal back and says the same.
LEMMA ReadIs ==
    ASSUME OpenInv, NEW o \in Openers
    PROVE  /\ AsRead(disk) \in WholeDisks
           /\ Marker(AsRead(disk)) = Marker(disk) /\ Latest(AsRead(disk)) = Latest(disk)
           /\ disk.main # None => AsRead(disk).main # None
           /\ Step(o, disk, lock, AsRead(disk), lock)
           /\ lock = None => AsRead(disk).journal = None
           /\ disk.journal = None => AsRead(disk) = disk
           /\ AsRead(disk) # disk => lock = None /\ disk.journal # None
<1>1. disk \in WholeDisks /\ DiskSound(disk, lock) /\ disk \in Disks
  BY OneOpener DEF OpenInv
<1>2. CASE Hot
  <2> DEFINE r == RolledBack(disk)
  <2>1. AsRead(disk) = r /\ lock = None /\ disk.journal # None
    BY <1>2 DEF AsRead, Hot
  <2>2. /\ r \in WholeDisks
        /\ r.main = (IF disk.journal # None THEN disk.journal ELSE disk.main)
        /\ r.wal = disk.wal /\ r.journal = None /\ Latest(r) = Latest(disk)
    BY <1>1, RolledBackIs
  <2> HIDE DEF r
  <2>3. Marker(r) = Marker(disk)
    BY <2>2 DEF Marker
  <2>4. None # Other
    BY OpenAssumption
  <2>5. Step(o, disk, lock, r, lock)
    BY <2>1, <2>2, <2>3, <2>4 DEF Step, DiskSound, Undoes
  <2> QED
    BY <2>1, <2>2, <2>3, <2>5
<1>3. CASE ~Hot
  <2>1. AsRead(disk) = disk
    BY <1>3 DEF AsRead
  <2>2. Step(o, disk, lock, disk, lock)
    BY <1>1 DEF Step
  <2>3. lock = None => disk.journal = None
    BY <1>3 DEF Hot
  <2> QED
    BY <1>1, <2>1, <2>2, <2>3
<1> QED
  BY <1>2, <1>3

\* A reading may leave an empty WAL as well, and says the same.
LEMMA ReadingIs ==
    ASSUME OpenInv, NEW o \in Openers, ~Spilled \/ lock = None,
           NEW d2 \in Readings(AsRead(disk))
    PROVE  /\ Step(o, disk, lock, d2, lock) /\ Marker(d2) = Marker(disk)
           /\ disk.main # None => d2.main # None
           /\ disk.main = EmptyFile /\ disk.journal = None => d2 = disk
<1> DEFINE r == AsRead(disk)
<1>1. /\ r \in WholeDisks /\ Marker(r) = Marker(disk) /\ Step(o, disk, lock, r, lock)
      /\ disk.main # None => r.main # None
      /\ disk.journal = None => r = disk
      /\ r # disk => lock = None /\ disk.journal # None
  BY ReadIs
<1>2. d2 = r \/ MakesEmptyWal(r, d2)
  BY DEF Readings
<1> HIDE DEF r
<1>3. CASE d2 = r
  BY <1>1, <1>3
<1>4. CASE MakesEmptyWal(r, d2)
  <2>1. /\ d2 \in WholeDisks /\ r.main \notin {None, EmptyFile} /\ r.wal = None
        /\ r.journal = None /\ d2.main = r.main /\ d2.journal = None /\ Marker(d2) = Marker(r)
    BY <1>1, <1>4, EmptyWalIs
  <2>2. lock = None
    <3> SUFFICES ASSUME lock # None
                 PROVE  FALSE
      OBVIOUS
    <3>1. ~Spilled /\ r = disk
      BY <1>1
    <3>2. lock \in Openers
      BY <3>1 DEF Spilled, OpenInv, OpenTypeOK
    <3>3. CreatorSound(lock, st[lock], disk, lock)
      BY <3>2 DEF OpenInv, OpenerSound
    <3>4. st[lock].pc = "creating"
      BY <3>1, <3>2, <3>3 DEF CreatorSound, Spilled
    <3> QED
      BY <2>1, <3>1, <3>3, <3>4, ContentsAreSome DEF CreatorSound
  <2>3. DiskSound(d2, lock)
    BY <2>1, <2>2, OpenAssumption DEF DiskSound
  <2>4. disk.main \notin {None, EmptyFile} => d2.main \notin {None, EmptyFile} \/ Undoes(disk, d2)
    BY <2>1
  <2>5. Step(o, disk, lock, d2, lock)
    BY <1>1, <2>1, <2>2, <2>3, <2>4 DEF Step
  <2> QED
    BY <1>1, <2>1, <2>5
<1> QED
  BY <1>2, <1>3, <1>4

\* A reading in place accepts this build's database and turns no newcomer away.
LEMMA ValidateInPlaceSound ==
    ASSUME OpenInv, NEW o \in Openers, ValidateInPlace(o)
    PROVE  OpenInv'
<1> DEFINE s == st[o]
           g == ghost[o]
<1>1. s.pc = "inPlace" /\ UNCHANGED <<lock, commits>>
  BY DEF ValidateInPlace
<1>2. /\ s \in Openings /\ o # None /\ OpenerSound(o, s, g, disk, lock) /\ g \in Ghosts
      /\ g.later \in BOOLEAN
  BY OneOpener DEF Ghosts
<1>3. s.existing
  BY <1>1, <1>2 DEF OpenerSound, PathSound
<1>4. CASE st' = [st EXCEPT ![o].pc = "stamping", ![o].attempt = 1] /\ UNCHANGED <<disk, ghost>>
  <2> DEFINE s2 == [s EXCEPT !.pc = "stamping", !.attempt = 1]
  <2>1. st' = [st EXCEPT ![o] = s2]
    BY <1>4
  <2>2. s2 \in Openings
    <3>1. "stamping" \in OpenSteps /\ 1 \in 0 .. MaxAttempts
      BY OpenAssumption DEF OpenSteps
    <3> QED
      BY <1>2, <3>1 DEF Openings
  <2>3. /\ s2.pc = "stamping" /\ s2.why = s.why /\ s2.create = s.create /\ s2.existing = s.existing
        /\ s2.attempt = 1 /\ s2.said = s.said /\ s2.before = s.before /\ s2.copy = s.copy
    BY <1>2 DEF Openings
  <2> HIDE DEF s2, s, g
  <2>4. CreatorSound(o, s2, disk, lock) /\ PathSound(s2)
    BY <1>1, <1>2, <1>3, <2>3 DEF OpenerSound, CreatorSound, PathSound, Connected
  <2>5. SightSound(s2, g, disk) /\ NewcomerSound(s2, g, disk)
    BY <1>1, <1>2, <2>3 DEF OpenerSound, SightSound, NewcomerSound, PathSound
  <2>6. UndisturbedSound(s2, disk) /\ CopySound(s2, disk) /\ CopyTyped(s2)
    BY <1>2, <2>3 DEF OpenerSound, UndisturbedSound, CopySound, CopyTyped
  <2>7. OpenerSound(o, s2, g, disk, lock)
    BY <2>4, <2>5, <2>6 DEF OpenerSound
  <2> QED
    BY <1>1, <1>4, <2>1, <2>2, <2>7, OpenerLooks DEF g
<1>5. ASSUME NEW d2 \in Readings(AsRead(disk)), ~Spilled, Leaves(o, d2),
             Marker(disk) = "ours", Goes(o, "connecting")
      PROVE  OpenInv'
  <2> DEFINE s2 == [s EXCEPT !.pc = "connecting"]
  <2>1. st' = [st EXCEPT ![o] = s2] /\ disk' = d2 /\ ghost' = Seen(o, d2)
    BY <1>5 DEF Goes, Leaves
  <2>2. s2 \in Openings
    BY <1>2 DEF Openings, OpenSteps
  <2>3. /\ s2.pc = "connecting" /\ s2.why = s.why /\ s2.create = s.create /\ s2.existing = s.existing
        /\ s2.attempt = s.attempt /\ s2.said = s.said /\ s2.before = s.before /\ s2.copy = s.copy
    BY <1>2 DEF Openings
  <2>4. Step(o, disk, lock, d2, lock) /\ Marker(d2) = "ours"
    BY <1>5, ReadingIs
  <2> HIDE DEF s2
  <2>5. ASSUME NEW g2 \in Ghosts, g2.others = g.others, g2.later = g.later,
               g2.been = g.been \cup {Marker(d2)}
        PROVE  OpenerSound(o, s2, g2, d2, lock)
    <3> HIDE DEF s, g
    <3>1. CreatorSound(o, s2, d2, lock) /\ PathSound(s2)
      BY <1>1, <1>2, <1>3, <2>3 DEF OpenerSound, CreatorSound, PathSound, Connected
    <3>2. SightSound(s2, g2, d2)
      BY <1>1, <1>2, <2>3, <2>4, <2>5 DEF OpenerSound, SightSound
    <3>3. NewcomerSound(s2, g2, d2)
      BY <1>1, <1>2, <2>3, <2>4, <2>5 DEF OpenerSound, NewcomerSound, PathSound
    <3>4. UndisturbedSound(s2, d2)
      BY <1>3, <2>3, <2>4 DEF UndisturbedSound
    <3>5. CopySound(s2, d2) /\ CopyTyped(s2)
      BY <1>2, <2>3 DEF OpenerSound, CopySound, CopyTyped
    <3> QED
      BY <3>1, <3>2, <3>3, <3>4, <3>5 DEF OpenerSound
  <2> QED
    BY <1>1, <1>2, <2>1, <2>2, <2>4, <2>5, OpenerWrites
<1>6. ASSUME NEW d2 \in Readings(AsRead(disk)), ~Spilled, ~Hot, Leaves(o, d2),
             Marker(disk) # "ours", Refuse(o, "unsupported")
      PROVE  OpenInv'
  <2>1. g.been \subseteq {"empty", "ours"} => Marker(disk) = "empty"
    BY <1>1, <1>2, <1>6 DEF OpenerSound, SightSound
  <2>2. g.been \subseteq {"empty", "ours"} => disk.main \in {None, EmptyFile}
    BY <1>6, <2>1, QuietIsNotEmpty
  <2>3. g.been \subseteq {"empty", "ours"} => "undo" \in g.others
    BY <1>1, <1>2, <2>2 DEF OpenerSound, NewcomerSound
  <2>4. Step(o, disk, lock, d2, lock)
    BY <1>6, ReadingIs
  <2>5. Leaves(o, d2) /\ Refuse(o, "unsupported") /\ s.pc \notin {"idle", "creating", "writing"}
    BY <1>1, <1>6
  <2> QED
    BY <1>1, <2>3, <2>4, <2>5, ReadRefused
<1>7. CASE ~Spilled /\ ~Hot /\ disk.main # None
  <2>1. PICK d2 \in Readings(AsRead(disk)) : Leaves(o, d2)
    BY <1>7 DEF ValidateInPlace, AsRead
  <2> QED
    BY <1>5, <1>6, <1>7, <2>1 DEF ValidateInPlace
<1>8. CASE ~(~Spilled /\ ~Hot /\ disk.main # None)
  BY <1>4, <1>8 DEF ValidateInPlace, Unchanged
<1> QED
  BY <1>7, <1>8

(***************************************************************************)
(* The private copy.                                                       *)
(***************************************************************************)

\* The step of an opener that is making its copy.
LEMMA CopyingSound ==
    ASSUME OpenInv, NEW o \in Openers, NEW s2 \in Openings,
           st[o].pc \in {"stamping", "found", "half", "copying", "validating"},
           s2.pc \in {"stamping", "found", "half", "copying", "validating"},
           st' = [st EXCEPT ![o] = s2], UNCHANGED <<disk, ghost, lock, commits>>,
           s2.why = st[o].why, s2.create = st[o].create, s2.existing = st[o].existing,
           s2.attempt \in {st[o].attempt, st[o].attempt + 1}, s2.said = st[o].said,
           CopyTyped(s2), ghost[o].others \subseteq {"write", "emptyWal"} => CopySound(s2, disk)
    PROVE  OpenInv'
<1> DEFINE s == st[o]
<1>1. s \in Openings /\ s.attempt \in Nat /\ s2.attempt \in Nat /\ OpenerSound(o, s, ghost[o], disk, lock)
  BY OneOpener, OpenAssumption DEF Openings
<1> HIDE DEF s
<1>2. CreatorSound(o, s2, disk, lock)
  BY <1>1 DEF OpenerSound, CreatorSound, Connected, s
<1>3. PathSound(s2)
  BY <1>1 DEF OpenerSound, PathSound, s
<1>4. SightSound(s2, ghost[o], disk)
  BY <1>1 DEF OpenerSound, SightSound, s
<1>5. NewcomerSound(s2, ghost[o], disk)
  BY <1>1 DEF OpenerSound, NewcomerSound, PathSound, s
<1>6. UndisturbedSound(s2, disk)
  BY DEF UndisturbedSound
<1>7. OpenerSound(o, s2, ghost[o], disk, lock)
  BY <1>2, <1>3, <1>4, <1>5, <1>6 DEF OpenerSound
<1> QED
  BY <1>7, OpenerLooks

\* The first stamp is of the files as they are, and nothing is copied yet.
LEMMA StampBeforeSound ==
    ASSUME OpenInv, NEW o \in Openers, StampBefore(o)
    PROVE  OpenInv'
<1> DEFINE s == st[o]
           s2 == [s EXCEPT !.before = disk, !.copy = NoFiles, !.at = 1, !.pc = "found"]
<1>1. s.pc = "stamping" /\ UNCHANGED <<disk, ghost, lock, commits>> /\ st' = [st EXCEPT ![o] = s2]
  BY DEF StampBefore, Unchanged
<1>2. s \in Openings /\ disk \in Disks /\ disk \in WholeDisks
  BY OneOpener
<1>3. s2 \in Openings
  <2>1. NoFiles \in Disks
    BY DEF NoFiles, Disks
  <2>2. "found" \in OpenSteps /\ 1 \in 0 .. 3
    BY DEF OpenSteps
  <2> QED
    BY <1>2, <2>1, <2>2 DEF Openings
<1>4. /\ s2.pc = "found" /\ s2.why = s.why /\ s2.create = s.create /\ s2.existing = s.existing
      /\ s2.attempt = s.attempt /\ s2.said = s.said /\ s2.before = disk /\ s2.copy = NoFiles /\ s2.at = 1
  BY <1>2 DEF Openings
<1>5. s.attempt \in Nat
  BY <1>2, OpenAssumption DEF Openings
<1> HIDE DEF s2
<1>6. CopyTyped(s2)
  BY <1>2, <1>4 DEF CopyTyped, CopyDisks, NoFiles
<1>7. CopySound(s2, disk)
  BY <1>4 DEF CopySound, CopiedSoFar, UpTo, NoFiles, Same
<1> QED
  BY <1>1, <1>3, <1>4, <1>5, <1>6, <1>7, CopyingSound

\* A sidecar that is not there is left out, and that is what the copy then says.
LEMMA FindMemberSound ==
    ASSUME OpenInv, NEW o \in Openers, FindMember(o)
    PROVE  OpenInv'
<1> DEFINE s == st[o]
<1>1. s.pc = "copying" /\ UNCHANGED <<disk, ghost, lock, commits>>
  BY DEF FindMember, Unchanged
<1>2. /\ s \in Openings /\ CopyTyped(s) /\ disk \in Disks
      /\ ghost[o].others \subseteq {"write", "emptyWal"} => CopySound(s, disk)
  BY OneOpener DEF OpenerSound
<1>3. s.at \in 1 .. 3 /\ s.attempt \in Nat
  BY <1>1, <1>2, OpenAssumption DEF CopyTyped, Openings
<1>4. CASE s.at = 3
  <2> DEFINE s2 == [s EXCEPT !.pc = "validating", !.at = 0]
  <2>1. st' = [st EXCEPT ![o] = s2]
    BY <1>4 DEF FindMember
  <2>2. s2 \in Openings
    <3>1. "validating" \in OpenSteps /\ 0 \in 0 .. 3
      BY DEF OpenSteps
    <3> QED
      BY <1>2, <3>1 DEF Openings
  <2>3. /\ s2.pc = "validating" /\ s2.why = s.why /\ s2.create = s.create /\ s2.existing = s.existing
        /\ s2.attempt = s.attempt /\ s2.said = s.said /\ s2.before = s.before /\ s2.copy = s.copy
    BY <1>2 DEF Openings
  <2> HIDE DEF s2
  <2>4. CopyTyped(s2)
    BY <1>2, <2>3 DEF CopyTyped
  <2>5. CopySound(s, disk) => CopySound(s2, disk)
    BY <1>1, <1>4, <2>3 DEF CopySound, CopiedSoFar
  <2> QED
    BY <1>1, <1>2, <1>3, <2>1, <2>2, <2>3, <2>4, <2>5, CopyingSound
<1>5. CASE s.at # 3 /\ disk[Member[s.at + 1]] = None
  <2> DEFINE s2 == [s EXCEPT !.at = @ + 1]
  <2>1. st' = [st EXCEPT ![o] = s2]
    BY <1>5 DEF FindMember
  <2>2. s.at + 1 \in 0 .. 3 /\ s.at + 1 \in 1 .. 3
    BY <1>3, <1>5
  <2>3. s2 \in Openings
    BY <1>2, <2>2 DEF Openings
  <2>4. /\ s2.pc = s.pc /\ s2.why = s.why /\ s2.create = s.create /\ s2.existing = s.existing
        /\ s2.attempt = s.attempt /\ s2.said = s.said /\ s2.before = s.before /\ s2.copy = s.copy
        /\ s2.at = s.at + 1
    BY <1>2 DEF Openings
  <2> HIDE DEF s2
  <2>5. CopyTyped(s2)
    BY <1>1, <1>2, <2>2, <2>4 DEF CopyTyped
  <2>6. CopySound(s, disk) => CopySound(s2, disk)
    <3>1. Same(disk, s.before) /\ Same(s.copy, UpTo(s.before, s.at)) =>
            Same(s.copy, UpTo(s.before, s.at + 1))
      <4>1. CASE s.at = 1
        BY <1>5, <4>1, ContentsAreSome DEF UpTo, Member, Same, Sans
      <4>2. CASE s.at = 2
        BY <1>5, <4>2 DEF UpTo, Member, Same
      <4> QED
        BY <1>3, <1>5, <4>1, <4>2
    <3> QED
      BY <1>1, <2>4, <3>1 DEF CopySound, CopiedSoFar
  <2> QED
    BY <1>1, <1>2, <1>3, <2>1, <2>3, <2>4, <2>5, <2>6, CopyingSound
<1>6. CASE s.at # 3 /\ disk[Member[s.at + 1]] # None
  <2> DEFINE s2 == [s EXCEPT !.at = @ + 1, !.pc = "found"]
  <2>1. st' = [st EXCEPT ![o] = s2]
    BY <1>6 DEF FindMember
  <2>2. s.at + 1 \in 0 .. 3 /\ s.at + 1 \in 1 .. 3 /\ "found" \in OpenSteps
    BY <1>3, <1>6 DEF OpenSteps
  <2>3. s2 \in Openings
    BY <1>2, <2>2 DEF Openings
  <2>4. /\ s2.pc = "found" /\ s2.why = s.why /\ s2.create = s.create /\ s2.existing = s.existing
        /\ s2.attempt = s.attempt /\ s2.said = s.said /\ s2.before = s.before /\ s2.copy = s.copy
        /\ s2.at = s.at + 1
    BY <1>2 DEF Openings
  <2> HIDE DEF s2
  <2>5. CopyTyped(s2)
    BY <1>2, <2>2, <2>4 DEF CopyTyped
  <2>6. CopySound(s, disk) => CopySound(s2, disk)
    BY <1>1, <1>3, <2>4 DEF CopySound, CopiedSoFar
  <2> QED
    BY <1>1, <1>2, <1>3, <2>1, <2>3, <2>4, <2>5, <2>6, CopyingSound
<1> QED
  BY <1>4, <1>5, <1>6

\* What is copied is what the file holds at that moment.
LEMMA CopyOneSound ==
    ASSUME OpenInv, NEW o \in Openers, CopyOne(o)
    PROVE  OpenInv'
<1> DEFINE s == st[o]
           member == Member[s.at]
<1>1. s.pc = "found" /\ UNCHANGED <<disk, ghost, lock, commits>>
  BY DEF CopyOne, Unchanged
<1>2. /\ s \in Openings /\ CopyTyped(s) /\ disk \in Disks /\ disk \in WholeDisks
      /\ ghost[o].others \subseteq {"write", "emptyWal"} => CopySound(s, disk)
  BY OneOpener DEF OpenerSound
<1>3. s.at \in 1 .. 3 /\ s.attempt \in Nat
  BY <1>1, <1>2, OpenAssumption DEF CopyTyped, Openings
<1>4. CASE disk[member] = None
  <2>1. Refuse(o, "changed")
    BY <1>4 DEF CopyOne
  <2> QED
    BY <1>1, <2>1, LookRefused
<1>5. CASE disk[member] # None
  <2> DEFINE pc == IF member = "main" THEN "half" ELSE "copying"
             copy == [s.copy EXCEPT ![member] = disk[member]]
             s2 == [s EXCEPT !.copy = copy, !.pc = pc]
  <2>1. st' = [st EXCEPT ![o] = s2]
    BY <1>5 DEF CopyOne
  <2>2. /\ copy \in CopyDisks
        /\ Same(disk, s.before) /\ Same(s.copy, UpTo(s.before, s.at - 1)) =>
             Same(copy, UpTo(s.before, s.at))
        /\ pc \in {"half", "copying"} /\ (pc = "half" => s.at = 1 /\ copy.main = disk.main)
        /\ disk[member] = disk.main \/ pc # "half"
    <3>1. s.copy \in CopyDisks
      BY <1>2 DEF CopyTyped
    <3>2. CASE s.at = 1
      BY <1>2, <3>1, <3>2 DEF Member, CopyDisks, WholeDisks, UpTo, Same
    <3>3. CASE s.at = 2
      BY <1>2, <3>1, <3>3 DEF Member, CopyDisks, WholeDisks, UpTo, Same
    <3>4. CASE s.at = 3
      BY <1>2, <3>1, <3>4 DEF Member, CopyDisks, WholeDisks, UpTo, Same
    <3> QED
      BY <1>3, <3>2, <3>3, <3>4
  <2>3. copy \in Disks /\ pc \in OpenSteps
    BY <2>2, WholeFilesAreFiles DEF OpenSteps
  <2>4. pc = "half" => copy.main \in Whole \cup {EmptyFile}
    BY <1>2, <1>5, <2>2 DEF WholeDisks
  <2> HIDE DEF pc, copy
  <2>5. s2 \in Openings
    BY <1>2, <2>3 DEF Openings
  <2>6. /\ s2.pc = pc /\ s2.why = s.why /\ s2.create = s.create /\ s2.existing = s.existing
        /\ s2.attempt = s.attempt /\ s2.said = s.said /\ s2.before = s.before /\ s2.copy = copy
        /\ s2.at = s.at
    BY <1>2 DEF Openings
  <2> HIDE DEF s2
  <2>7. CopyTyped(s2)
    BY <1>2, <1>3, <2>2, <2>4, <2>6 DEF CopyTyped
  <2>8. CopySound(s, disk) => CopySound(s2, disk)
    BY <1>1, <2>2, <2>6 DEF CopySound, CopiedSoFar
  <2> QED
    BY <1>1, <1>2, <1>3, <2>1, <2>2, <2>5, <2>6, <2>7, <2>8, CopyingSound
<1> QED
  BY <1>4, <1>5

\* The second half of the main file is torn from the first when it changed.
LEMMA CopyRestSound ==
    ASSUME OpenInv, NEW o \in Openers, CopyRest(o)
    PROVE  OpenInv'
<1> DEFINE s == st[o]
           main == IF disk.main = s.copy["main"] THEN s.copy["main"] ELSE Torn
           copy == [s.copy EXCEPT !["main"] = main]
           s2 == [s EXCEPT !.pc = "copying", !.copy = copy]
<1>1. /\ s.pc = "half" /\ UNCHANGED <<disk, ghost, lock, commits>>
      /\ st' = [st EXCEPT ![o] = s2]
  BY DEF CopyRest, Unchanged
<1>2. /\ s \in Openings /\ CopyTyped(s) /\ disk \in Disks
      /\ ghost[o].others \subseteq {"write", "emptyWal"} => CopySound(s, disk)
  BY OneOpener DEF OpenerSound
<1>3. s.at = 1 /\ s.copy \in CopyDisks /\ s.attempt \in Nat
  BY <1>1, <1>2, OpenAssumption DEF CopyTyped, Openings
<1>4. /\ copy \in CopyDisks
      /\ Same(disk, s.before) /\ Same(s.copy, UpTo(s.before, 1)) => copy = s.copy
  BY <1>2, <1>3 DEF CopyDisks, UpTo, Same
<1>5. copy \in Disks /\ "copying" \in OpenSteps
  BY <1>4, WholeFilesAreFiles DEF OpenSteps
<1> HIDE DEF copy
<1>6. s2 \in Openings
  BY <1>2, <1>5 DEF Openings
<1>7. /\ s2.pc = "copying" /\ s2.why = s.why /\ s2.create = s.create /\ s2.existing = s.existing
      /\ s2.attempt = s.attempt /\ s2.said = s.said /\ s2.before = s.before /\ s2.copy = copy
      /\ s2.at = s.at
  BY <1>2 DEF Openings
<1> HIDE DEF s2
<1>8. CopyTyped(s2)
  BY <1>2, <1>3, <1>4, <1>7 DEF CopyTyped
<1>9. CopySound(s, disk) => CopySound(s2, disk)
  BY <1>1, <1>3, <1>4, <1>7 DEF CopySound, CopiedSoFar
<1> QED
  BY <1>1, <1>2, <1>3, <1>6, <1>7, <1>8, <1>9, CopyingSound

\* Another attempt begins with a stamp of its own.
LEMMA TryAgainSound ==
    ASSUME OpenInv, NEW o \in Openers, st[o].pc = "validating", TryAgain(o),
           UNCHANGED <<disk, ghost, lock, commits>>
    PROVE  OpenInv'
<1> DEFINE s == st[o]
<1>1. s \in Openings /\ s.attempt \in 0 .. MaxAttempts /\ s.attempt \in Nat
  BY OneOpener, OpenAssumption DEF Openings
<1>2. CASE s.attempt = MaxAttempts
  <2>1. Refuse(o, "changed")
    BY <1>2 DEF TryAgain
  <2> QED
    BY <2>1, LookRefused
<1>3. CASE s.attempt # MaxAttempts
  <2> DEFINE s2 == [Without(s) EXCEPT !.attempt = s.attempt + 1, !.pc = "stamping"]
  <2>1. st' = [st EXCEPT ![o] = s2]
    BY <1>3 DEF TryAgain
  <2>2. s2 \in Openings
    <3>1. NoFiles \in Disks
      BY DEF NoFiles, Disks
    <3>2. "stamping" \in OpenSteps /\ 0 \in 0 .. 3 /\ s.attempt + 1 \in 0 .. MaxAttempts
      BY <1>1, <1>3, OpenAssumption DEF OpenSteps
    <3> QED
      BY <1>1, <3>1, <3>2 DEF Openings, Without
  <2>3. /\ s2.pc = "stamping" /\ s2.why = s.why /\ s2.create = s.create /\ s2.existing = s.existing
        /\ s2.attempt = s.attempt + 1 /\ s2.said = s.said /\ s2.before = NoFiles /\ s2.copy = NoFiles
    BY <1>1 DEF Openings, Without
  <2> HIDE DEF s2
  <2>4. CopyTyped(s2)
    BY <2>3 DEF CopyTyped, WholeDisks, CopyDisks, NoFiles
  <2>5. CopySound(s2, disk)
    BY <2>3 DEF CopySound
  <2> QED
    BY <2>1, <2>2, <2>3, <2>4, <2>5, CopyingSound
<1> QED
  BY <1>2, <1>3

\* The second stamp.
LEMMA StampAfterCopySound ==
    ASSUME OpenInv, NEW o \in Openers, StampAfterCopy(o)
    PROVE  OpenInv'
<1> DEFINE s == st[o]
           s2 == [s EXCEPT !.at = 1]
<1>1. s.pc = "validating" /\ UNCHANGED <<disk, ghost, lock, commits>>
  BY DEF StampAfterCopy, Unchanged
<1>2. CASE disk # s.before
  <2>1. TryAgain(o)
    BY <1>2 DEF StampAfterCopy
  <2> QED
    BY <1>1, <2>1, TryAgainSound
<1>3. CASE disk = s.before
  <2>1. st' = [st EXCEPT ![o] = s2]
    BY <1>3 DEF StampAfterCopy
  <2>2. /\ s \in Openings /\ CopyTyped(s) /\ s.attempt \in Nat
        /\ ghost[o].others \subseteq {"write", "emptyWal"} => CopySound(s, disk)
    BY OneOpener, OpenAssumption DEF OpenerSound, Openings
  <2>3. s2 \in Openings
    <3>1. 1 \in 0 .. 3
      OBVIOUS
    <3> QED
      BY <2>2, <3>1 DEF Openings
  <2>4. /\ s2.pc = "validating" /\ s2.why = s.why /\ s2.create = s.create /\ s2.existing = s.existing
        /\ s2.attempt = s.attempt /\ s2.said = s.said /\ s2.before = s.before /\ s2.copy = s.copy
    BY <1>1, <2>2 DEF Openings
  <2> HIDE DEF s2
  <2>5. CopyTyped(s2)
    BY <2>2, <2>4 DEF CopyTyped
  <2>6. CopySound(s, disk) => CopySound(s2, disk)
    BY <1>1, <2>4 DEF CopySound, CopiedSoFar
  <2> QED
    BY <1>1, <2>1, <2>2, <2>3, <2>4, <2>5, <2>6, CopyingSound
<1> QED
  BY <1>2, <1>3

\* The verdict on the copy is one on the database, unless it was brought back.
LEMMA ValidateSnapshotSound ==
    ASSUME OpenInv, NEW o \in Openers, ValidateSnapshot(o)
    PROVE  OpenInv'
<1> DEFINE s == st[o]
           g == ghost[o]
           said == Marker(s.copy)
<1>1. s.pc = "validating" /\ UNCHANGED <<disk, ghost, lock, commits>>
  BY DEF ValidateSnapshot, Unchanged
<1>2. CASE disk # s.before
  <2>1. TryAgain(o)
    BY <1>2 DEF ValidateSnapshot
  <2> QED
    BY <1>1, <2>1, TryAgainSound
<1>3. CASE disk = s.before
  <2>1. /\ s \in Openings /\ o # None /\ OpenerSound(o, s, g, disk, lock) /\ disk \in Disks
    BY OneOpener
  <2>2. said \in AllMarks \cup {"empty", "torn"}
    <3>1. s.copy \in CopyDisks
      BY <2>1 DEF OpenerSound, CopyTyped
    <3>2. Latest(s.copy) \in Whole \cup {EmptyFile, Torn}
      BY <3>1, LatestIs DEF CopyDisks
    <3> QED
      BY <3>2, ContentsAreSome DEF Marker
  <2>3. g.others \subseteq {"write", "emptyWal"} => said = Marker(disk)
    <3> HAVE g.others \subseteq {"write", "emptyWal"}
    <3>1. CopySound(s, disk)
      BY <2>1 DEF OpenerSound
    <3>2. Same(s.copy, UpTo(disk, 3))
      BY <1>1, <1>3, <3>1, MovedIsAway DEF CopySound, CopiedSoFar
    <3>3. Same(s.copy, disk)
      BY <3>2 DEF UpTo, Same
    <3>4. s.copy \in CopyDisks /\ disk \in CopyDisks
      BY <2>1, OneOpener DEF OpenerSound, CopyTyped
    <3> QED
      BY <3>3, <3>4, SameSays
  <2>4. /\ Marker(disk) \in g.been /\ (g.later => ~(g.others \subseteq {"emptyWal"})) /\ lock # o
        /\ s.existing /\ s.attempt > 0
    BY <1>1, <2>1 DEF OpenerSound, SightSound, CreatorSound, PathSound
  <2>5. CASE said = "ours"
    <3> DEFINE s2 == [Without(s) EXCEPT !.said = said, !.pc = "connecting"]
    <3>1. st' = [st EXCEPT ![o] = s2]
      BY <1>3, <2>5 DEF ValidateSnapshot, Concludes
    <3> HIDE DEF said
    <3>2. s2 \in Openings
      <4>1. NoFiles \in Disks
        BY DEF NoFiles, Disks
      <4>2. "connecting" \in OpenSteps /\ 0 \in 0 .. 3 /\ said \in AllMarks \cup {"empty", "torn", "nothing"}
        BY <2>2 DEF OpenSteps
      <4> QED
        BY <2>1, <4>1, <4>2 DEF Openings, Without
    <3>3. /\ s2.pc = "connecting" /\ s2.why = s.why /\ s2.create = s.create /\ s2.existing = s.existing
          /\ s2.attempt = s.attempt /\ s2.said = said /\ s2.before = NoFiles /\ s2.copy = NoFiles
      BY <2>1 DEF Openings, Without
    <3> HIDE DEF s2
    <3>4. CreatorSound(o, s2, disk, lock)
      BY <2>4, <3>3 DEF CreatorSound, Connected
    <3>5. PathSound(s2)
      BY <1>1, <2>1, <3>3 DEF OpenerSound, PathSound
    <3>6. SightSound(s2, g, disk)
      BY <2>3, <2>4, <3>3 DEF SightSound
    <3>7. NewcomerSound(s2, g, disk)
      BY <1>1, <2>1, <2>4, <3>3 DEF NewcomerSound, OpenerSound, PathSound
    <3>8. g.others \subseteq {"emptyWal"} => UndisturbedSound(s2, disk)
      BY <2>3, <2>4, <2>5, <3>3 DEF UndisturbedSound
    <3>9. CopySound(s2, disk) /\ CopyTyped(s2)
      BY <3>3 DEF CopySound, CopyTyped, WholeDisks, CopyDisks, NoFiles
    <3>10. OpenerSound(o, s2, g, disk, lock)
      BY <3>4, <3>5, <3>6, <3>7, <3>8, <3>9 DEF OpenerSound
    <3> QED
      BY <1>1, <3>1, <3>2, <3>10, OpenerLooks
  <2>6. CASE said # "ours"
    <3> DEFINE s1 == [s EXCEPT !.said = said]
               s2 == [Without(s1) EXCEPT !.pc = "refused", !.why = "unsupported"]
    <3>1. st' = [st EXCEPT ![o] = [Without(s) EXCEPT !.said = said, !.pc = "refused", !.why = "unsupported"]]
      BY <1>3, <2>6 DEF ValidateSnapshot, Concludes
    <3> HIDE DEF said
    <3>2. s1 \in Openings /\ s1.said = said /\ s1.create = s.create /\ s1.attempt = s.attempt
      BY <2>1, <2>2 DEF Openings
    <3>3. [Without(s) EXCEPT !.said = said, !.pc = "refused", !.why = "unsupported"] = s2
      BY <2>1 DEF Openings, Without
    <3>4. s1.said # "nothing" /\ g.others \subseteq {"write", "emptyWal"} => s1.said \in g.been
      BY <2>3, <2>4, <3>2
    <3> HIDE DEF s1
    <3>5. s2 \in Openings /\ OpenerSound(o, s2, g, disk, lock)
      BY <2>1, <2>4, <3>2, <3>4, RefusedSound
    <3> HIDE DEF s2
    <3> QED
      BY <1>1, <3>1, <3>3, <3>5, OpenerLooks
  <2> QED
    BY <2>5, <2>6
<1> QED
  BY <1>2, <1>3

(***************************************************************************)
(* The real connection.                                                    *)
(***************************************************************************)

\* A database that does not exist is created empty, and another is left alone.
LEMMA ConnectSound ==
    ASSUME OpenInv, NEW o \in Openers, Connect(o)
    PROVE  OpenInv'
<1> DEFINE s == st[o]
           g == ghost[o]
<1>1. s.pc = "connecting" /\ lock' = lock /\ commits' = commits
  BY DEF Connect
<1>2. /\ s \in Openings /\ o # None /\ OpenerSound(o, s, g, disk, lock) /\ g \in Ghosts
      /\ disk \in WholeDisks /\ disk \in CopyDisks /\ disk \in Disks
  BY OneOpener
<1>3. CASE disk.main = None /\ (s.existing \/ ~s.create)
  <2>1. Refuse(o, "missing") /\ UNCHANGED <<disk, ghost>>
    BY <1>3 DEF Connect, Unchanged
  <2> QED
    BY <1>1, <2>1, LookRefused
<1>4. CASE ~(disk.main = None /\ (s.existing \/ ~s.create))
  <2> DEFINE pc == IF s.existing \/ ~s.create THEN "revalidating" ELSE "peeking"
             d2 == IF disk.main = None THEN [disk EXCEPT !.main = EmptyFile] ELSE disk
             s2 == [s EXCEPT !.pc = pc]
  <2>1. disk' = d2 /\ ghost' = Seen(o, d2) /\ st' = [st EXCEPT ![o] = s2]
    BY <1>4 DEF Connect, Leaves, Goes
  <2>2. /\ d2 \in WholeDisks /\ d2.wal = disk.wal /\ d2.journal = disk.journal
        /\ d2.main = (IF disk.main = None THEN EmptyFile ELSE disk.main)
        /\ disk.main # None => d2 = disk
    BY <1>2 DEF WholeDisks
  <2>3. Latest(d2) = Latest(disk) /\ Marker(d2) = Marker(disk)
    <3>1. d2 \in CopyDisks
      BY <2>2, WholeFilesAreFiles
    <3>2. Latest(d2) = Latest(disk)
      BY <1>2, <2>2, <3>1, LatestIs, ContentsAreSome
    <3> QED
      BY <3>2 DEF Marker
  <2> HIDE DEF d2
  <2>4. pc \in {"revalidating", "peeking"} /\ (pc = "revalidating" <=> s.existing \/ ~s.create)
    OBVIOUS
  <2>6. s2 \in Openings
    <3>1. pc \in OpenSteps
      BY DEF OpenSteps, Connected
    <3> HIDE DEF pc
    <3> QED
      BY <1>2, <3>1 DEF Openings
  <2> HIDE DEF pc
  <2>7. /\ s2.pc = pc /\ s2.why = s.why /\ s2.create = s.create /\ s2.existing = s.existing
        /\ s2.attempt = s.attempt /\ s2.said = s.said /\ s2.before = s.before /\ s2.copy = s.copy
        /\ s.existing \in BOOLEAN /\ s.create \in BOOLEAN
    BY <1>2 DEF Openings
  <2> HIDE DEF s2
  <2>8. Step(o, disk, lock, d2, lock)
    <3>1. disk.main = None => lock \notin Openers /\ lock # Other
      <4>1. lock = Other => disk.main # None
        BY ContentsAreSome DEF OpenInv, DiskSound
      <4>2. ASSUME lock \in Openers
            PROVE  disk.main # None
        <5>1. CreatorSound(lock, st[lock], disk, lock)
          BY <4>2 DEF OpenInv, OpenerSound
        <5> QED
          BY <5>1 DEF CreatorSound, Connected
      <4> QED
        BY <4>1, <4>2
    <3>2. lock \in Openers \cup {None, Other} /\ DiskSound(disk, lock)
      BY DEF OpenInv, OpenTypeOK
    <3>3. DiskSound(d2, lock)
      BY <2>2, <3>1, <3>2 DEF DiskSound
    <3> QED
      BY <2>2, <2>3, <3>1, <3>2, <3>3, ContentsAreSome DEF Step
  <2>9. ASSUME NEW g2 \in Ghosts, g2.others = g.others, g2.later = g.later,
               g2.been = g.been \cup {Marker(d2)}
        PROVE  OpenerSound(o, s2, g2, d2, lock)
    <3> HIDE DEF s, g
    <3>1. CreatorSound(o, s2, d2, lock)
      BY <1>1, <1>2, <2>2, <2>4, <2>7, ContentsAreSome DEF OpenerSound, CreatorSound
    <3>2. PathSound(s2)
      BY <1>1, <1>2, <2>4, <2>7 DEF OpenerSound, PathSound
    <3>3. SightSound(s2, g2, d2)
      BY <1>1, <1>2, <2>3, <2>4, <2>7, <2>9 DEF OpenerSound, SightSound
    <3>4. NewcomerSound(s2, g2, d2)
      BY <1>1, <1>2, <2>3, <2>4, <2>7, <2>9 DEF OpenerSound, NewcomerSound, PathSound
    <3>5. g2.others \subseteq {"emptyWal"} => UndisturbedSound(s2, d2)
      <4> HAVE g2.others \subseteq {"emptyWal"}
      <4>1. UndisturbedSound(s, disk)
        BY <1>2, <2>9 DEF OpenerSound
      <4>2. s.existing => pc = "revalidating" /\ Marker(d2) = "ours"
        BY <1>1, <2>3, <2>4, <4>1 DEF UndisturbedSound
      <4>3. ~s.existing => d2.main = EmptyFile /\ Bare(d2)
        BY <1>1, <2>2, <4>1 DEF UndisturbedSound, Bare
      <4> QED
        BY <2>4, <2>7, <4>2, <4>3 DEF UndisturbedSound
    <3>6. CopySound(s2, d2) /\ CopyTyped(s2)
      BY <1>2, <2>4, <2>7 DEF OpenerSound, CopySound, CopyTyped
    <3> QED
      BY <3>1, <3>2, <3>3, <3>4, <3>5, <3>6 DEF OpenerSound
  <2>10. g.later \in BOOLEAN
    BY <1>2 DEF Ghosts
  <2> QED
    BY <1>1, <2>1, <2>6, <2>8, <2>9, <2>10, OpenerWrites
<1> QED
  BY <1>3, <1>4

\* An opener that reads this build's marker on the connection it keeps.
LEMMA AcceptSound ==
    ASSUME OpenInv, NEW o \in Openers, NEW pc \in {"journalMode", "opened"},
           st[o].pc \in {"revalidating", "peeking", "locking"}, Marker(disk) = "ours",
           ~Spilled \/ lock = None, Accept(o, pc), UNCHANGED <<lock, commits>>
    PROVE  OpenInv'
<1> DEFINE s == st[o]
           g == ghost[o]
           d2 == disk'
           s2 == [s EXCEPT !.pc = pc]
<1>1. /\ st' = [st EXCEPT ![o] = s2] /\ disk' = d2 /\ d2 \in Readings(AsRead(disk))
      /\ ghost' = [Seen(o, d2) EXCEPT ![o].later = FALSE]
  BY DEF Accept, Goes
<1>2. /\ s \in Openings /\ o # None /\ OpenerSound(o, s, g, disk, lock)
  BY OneOpener
<1>3. /\ Marker(d2) = "ours" /\ Step(o, disk, lock, d2, lock)
      /\ disk.main # None => d2.main # None
  BY <1>1, ReadingIs
<1> HIDE DEF d2
<1>4. s2 \in Openings
  <2>1. pc \in OpenSteps
    BY DEF OpenSteps, Connected, OpeningOver
  <2> QED
    BY <1>2, <2>1 DEF Openings
<1>5. /\ s2.pc = pc /\ s2.why = s.why /\ s2.create = s.create /\ s2.existing = s.existing
      /\ s2.attempt = s.attempt /\ s2.said = s.said /\ s2.before = s.before /\ s2.copy = s.copy
  BY <1>2 DEF Openings
<1> HIDE DEF s2
<1>6. ASSUME NEW g2 \in Ghosts, g2.others = g.others, g2.later = FALSE,
             g2.been = g.been \cup {Marker(d2)}
      PROVE  OpenerSound(o, s2, g2, d2, lock)
  <2>1. CreatorSound(o, s2, d2, lock)
    BY <1>2, <1>3, <1>5 DEF OpenerSound, CreatorSound, Connected
  <2>2. PathSound(s2)
    BY <1>2, <1>5 DEF OpenerSound, PathSound
  <2>3. SightSound(s2, g2, d2)
    BY <1>2, <1>3, <1>5, <1>6 DEF OpenerSound, SightSound
  <2>4. NewcomerSound(s2, g2, d2)
    BY <1>2, <1>5, <1>6 DEF OpenerSound, NewcomerSound, PathSound
  <2>5. UndisturbedSound(s2, d2) /\ CopySound(s2, d2) /\ CopyTyped(s2)
    BY <1>2, <1>5 DEF OpenerSound, UndisturbedSound, CopySound, CopyTyped
  <2> QED
    BY <2>1, <2>2, <2>3, <2>4, <2>5 DEF OpenerSound
<1> QED
  BY <1>1, <1>3, <1>4, <1>6, OpenerWrites

\* An opener that closes its connection: the WAL may go with it.
LEMMA ClosedIs ==
    ASSUME OpenInv, NEW o \in Openers, st[o].pc \in {"revalidating", "peeking", "locking"},
           ~Spilled \/ lock = None, NEW d2 \in Closed(o, AsRead(disk))
    PROVE  Step(o, disk, lock, d2, lock) /\ Marker(d2) = Marker(disk)
<1> DEFINE r == AsRead(disk)
<1>1. /\ r \in WholeDisks /\ Marker(r) = Marker(disk) /\ Latest(r) = Latest(disk)
      /\ Step(o, disk, lock, r, lock) /\ (lock = None => r.journal = None)
      /\ r # disk => lock = None /\ disk.journal # None
  BY ReadIs
<1>2. CASE d2 \in Readings(r)
  BY <1>2, ReadingIs
<1>3. CASE d2 \notin Readings(r)
  <2>1. d2 = Checkpointed(r) /\ ~\E p \in Openers \ {o} : st[p].pc \in Connected
    BY <1>3 DEF Closed
  <2>2. lock = None
    <3>1. lock \in Openers \cup {None, Other} /\ lock # Other
      <4>1. None # Other
        BY OpenAssumption
      <4> QED
        BY <4>1 DEF OpenInv, OpenTypeOK, Spilled
    <3>2. ASSUME lock \in Openers
          PROVE  FALSE
      <4>1. CreatorSound(lock, st[lock], disk, lock) /\ CreatorSound(o, st[o], disk, lock)
        BY <3>2 DEF OpenInv, OpenerSound
      <4>2. st[lock].pc \in {"creating", "writing"}
        BY <4>1 DEF CreatorSound
      <4>3. lock # o
        BY <4>1 DEF CreatorSound
      <4> QED
        BY <2>1, <3>2, <4>2, <4>3 DEF Connected
    <3> QED
      BY <3>1, <3>2
  <2>3. r.journal = None
    BY <1>1, <2>2
  <2>4. /\ d2 \in WholeDisks /\ d2.main = (IF r.wal \notin {None, EmptyFile} THEN r.wal ELSE r.main)
        /\ d2.wal = None /\ d2.journal = None /\ Latest(d2) = Latest(r)
    BY <1>1, <2>1, <2>3, CheckpointedIs
  <2>5. Marker(d2) = Marker(disk)
    BY <1>1, <2>4 DEF Marker
  <2>6. r.wal \in Whole \cup {EmptyFile, None}
    BY <1>1 DEF WholeDisks
  <2>7. disk.main # None => d2.main # None
    BY <1>1, <2>4 DEF Step
  <2>8. disk.main \notin {None, EmptyFile} => d2.main \notin {None, EmptyFile} \/ Undoes(disk, d2)
    <3>1. r.wal \notin {None, EmptyFile} => d2.main \notin {None, EmptyFile}
      BY <2>4, <2>6, ContentsAreSome
    <3>2. r.wal \in {None, EmptyFile} => d2.main = r.main
      BY <2>4
    <3> QED
      BY <1>1, <3>1, <3>2 DEF Step, Undoes
  <2>9. DiskSound(d2, lock)
    BY <2>2, <2>4, OpenAssumption DEF DiskSound
  <2> HIDE DEF r
  <2> QED
    BY <2>2, <2>5, <2>7, <2>8, <2>9 DEF Step
<1> QED
  BY <1>2, <1>3

\* An opener that reads another marker closes what it opened.
LEMMA RejectSound ==
    ASSUME OpenInv, NEW o \in Openers, st[o].pc \in {"revalidating", "peeking", "locking"},
           ~Spilled \/ lock = None, Reject(o), UNCHANGED <<lock, commits>>,
           st[o].create /\ ghost[o].been \subseteq {"empty", "ours"} =>
                st[o].attempt > 0 \/ "undo" \in ghost[o].others
    PROVE  OpenInv'
<1>1. PICK d2 \in Closed(o, AsRead(disk)) : Leaves(o, d2)
  BY DEF Reject
<1>2. Step(o, disk, lock, d2, lock) /\ Refuse(o, "unsupported")
  BY ClosedIs DEF Reject
<1>3. st[o].pc \notin {"idle", "creating", "writing"}
  OBVIOUS
<1> QED
  BY <1>1, <1>2, <1>3, ReadRefused

\* The reading of the marker on the real connection.
LEMMA RevalidateSound ==
    ASSUME OpenInv, NEW o \in Openers, Revalidate(o)
    PROVE  OpenInv'
<1>1. st[o].pc = "revalidating" /\ ~Spilled /\ UNCHANGED <<lock, commits>>
  BY DEF Revalidate
<1>2. CASE Marker(disk) = "ours"
  <2>1. Accept(o, Accepted(o)) /\ Accepted(o) \in {"journalMode", "opened"}
    BY <1>2 DEF Revalidate, Accepted
  <2> QED
    BY <1>1, <1>2, <2>1, AcceptSound
<1>3. CASE Marker(disk) # "ours"
  <2>1. Reject(o)
    BY <1>3 DEF Revalidate
  <2>2. OpenerSound(o, st[o], ghost[o], disk, lock) /\ st[o] \in Openings
    BY OneOpener
  <2>3. ASSUME st[o].create, ghost[o].been \subseteq {"empty", "ours"}
        PROVE  st[o].attempt > 0
    <3>1. Marker(disk) = "empty"
      BY <1>1, <1>3, <2>2, <2>3 DEF OpenerSound, SightSound
    <3>2. st[o].existing
      BY <1>1, <2>2, <2>3 DEF OpenerSound, PathSound
    <3>3. st[o].attempt # 0
      BY <1>1, <2>2, <3>1, <3>2 DEF OpenerSound, NewcomerSound
    <3>4. st[o].attempt \in Nat
      BY <2>2, OpenAssumption DEF Openings
    <3> QED
      BY <3>3, <3>4
  <2> QED
    BY <1>1, <2>1, <2>3, RejectSound
<1> QED
  BY <1>2, <1>3

\* The look that needs no lock.
LEMMA PeekSound ==
    ASSUME OpenInv, NEW o \in Openers, Peek(o)
    PROVE  OpenInv'
<1> DEFINE s == st[o]
           g == ghost[o]
<1>1. s.pc = "peeking" /\ ~Spilled /\ UNCHANGED <<lock, commits>>
  BY DEF Peek
<1>2. s \in Openings /\ o # None /\ OpenerSound(o, s, g, disk, lock) /\ g \in Ghosts
  BY OneOpener
<1>3. CASE Marker(disk) = "ours" /\ Accept(o, "journalMode")
  BY <1>1, <1>3, AcceptSound
<1>4. CASE Marker(disk) = "other" /\ Reject(o)
  <2>1. ~(g.been \subseteq {"empty", "ours"})
    BY <1>1, <1>2, <1>4 DEF OpenerSound, SightSound
  <2> QED
    BY <1>1, <1>4, <2>1, RejectSound
<1>5. ASSUME Goes(o, "locking"), NEW d2 \in Readings(AsRead(disk)), Leaves(o, d2)
      PROVE  OpenInv'
  <2> DEFINE s2 == [s EXCEPT !.pc = "locking"]
  <2>1. st' = [st EXCEPT ![o] = s2] /\ disk' = d2 /\ ghost' = Seen(o, d2)
    BY <1>5 DEF Goes, Leaves
  <2>2. /\ Marker(d2) = Marker(disk) /\ Step(o, disk, lock, d2, lock)
        /\ disk.main # None => d2.main # None
        /\ disk.main = EmptyFile /\ disk.journal = None => d2 = disk
    BY <1>1, <1>5, ReadingIs
  <2>3. s2 \in Openings
    BY <1>2 DEF Openings, OpenSteps, Connected
  <2>4. /\ s2.pc = "locking" /\ s2.why = s.why /\ s2.create = s.create /\ s2.existing = s.existing
        /\ s2.attempt = s.attempt /\ s2.said = s.said /\ s2.before = s.before /\ s2.copy = s.copy
    BY <1>2 DEF Openings
  <2> HIDE DEF s2
  <2>5. ASSUME NEW g2 \in Ghosts, g2.others = g.others, g2.later = g.later,
               g2.been = g.been \cup {Marker(d2)}
        PROVE  OpenerSound(o, s2, g2, d2, lock)
    <3>1. CreatorSound(o, s2, d2, lock)
      BY <1>1, <1>2, <2>2, <2>4 DEF OpenerSound, CreatorSound, Connected
    <3>2. PathSound(s2)
      BY <1>1, <1>2, <2>4 DEF OpenerSound, PathSound
    <3>3. SightSound(s2, g2, d2)
      BY <1>2, <2>4, <2>5 DEF OpenerSound, SightSound
    <3>4. NewcomerSound(s2, g2, d2)
      BY <1>1, <1>2, <2>4, <2>5 DEF OpenerSound, NewcomerSound, PathSound
    <3>5. g2.others \subseteq {"emptyWal"} => UndisturbedSound(s2, d2)
      BY <1>1, <1>2, <2>2, <2>4, <2>5 DEF OpenerSound, UndisturbedSound, Bare
    <3>6. CopySound(s2, d2) /\ CopyTyped(s2)
      BY <1>2, <2>4 DEF OpenerSound, CopySound, CopyTyped
    <3> QED
      BY <3>1, <3>2, <3>3, <3>4, <3>5, <3>6 DEF OpenerSound
  <2>6. g.later \in BOOLEAN
    BY <1>2 DEF Ghosts
  <2> QED
    BY <1>1, <2>1, <2>2, <2>3, <2>5, <2>6, OpenerWrites
<1> QED
  BY <1>3, <1>4, <1>5 DEF Peek

\* The lock is taken over a database without tables.
LEMMA BeginSound ==
    ASSUME OpenInv, NEW o \in Openers, st[o].pc = "locking", lock = None,
           Marker(disk) \notin {"ours", "other", "bare"}, BeginBaseline(o), commits' = commits
    PROVE  OpenInv'
<1> DEFINE s == st[o]
           g == ghost[o]
           r == AsRead(disk)
           d2 == [r EXCEPT !.journal = Latest(disk)]
           s2 == [s EXCEPT !.pc = "creating"]
<1>1. st' = [st EXCEPT ![o] = s2] /\ disk' = d2 /\ ghost' = Seen(o, d2) /\ lock' = o
  BY DEF BeginBaseline, Goes, Leaves
<1>2. /\ s \in Openings /\ o # None /\ o # Other /\ OpenerSound(o, s, g, disk, lock) /\ g \in Ghosts
      /\ disk \in WholeDisks
  BY OneOpener
<1>3. /\ r \in WholeDisks /\ Latest(r) = Latest(disk) /\ r.journal = None /\ Step(o, disk, lock, r, lock)
      /\ (disk.main # None => r.main # None) /\ (disk.journal = None => r = disk)
  BY ReadIs
<1>4. Latest(disk) \in Whole \cup {EmptyFile} /\ Marker(disk) \in {"empty", "blank"}
  BY <1>2, MarkerIs DEF AllMarks
<1> HIDE DEF r
<1>5. d2 \in WholeDisks /\ d2.main = r.main /\ d2.wal = r.wal /\ d2.journal = Latest(disk)
  BY <1>3, <1>4 DEF WholeDisks
<1>6. d2.main # None /\ disk.main # None
  BY <1>2, <1>3, <1>5 DEF OpenerSound, CreatorSound, Connected
<1>7. Latest(disk) = (IF r.wal \notin {None, EmptyFile} THEN r.wal ELSE r.main)
  <2>1. r \in CopyDisks
    BY <1>3, WholeFilesAreFiles
  <2> QED
    BY <1>3, <1>5, <1>6, <2>1, LatestIs
<1>8. Marker(d2) = Marker(disk)
  <2>1. d2 \in CopyDisks
    BY <1>5, WholeFilesAreFiles
  <2>2. Latest(d2) = Latest(disk)
    BY <1>4, <1>5, <1>7, <2>1, LatestIs, ContentsAreSome
  <2> QED
    BY <2>2 DEF Marker
<1> HIDE DEF d2
<1>9. Step(o, disk, lock, d2, o)
  <2>1. DiskSound(d2, o)
    BY <1>2, <1>5 DEF DiskSound
  <2>2. disk.main \notin {None, EmptyFile} => d2.main \notin {None, EmptyFile} \/ Undoes(disk, d2)
    BY <1>3, <1>5 DEF Step, Undoes
  <2> QED
    BY <1>6, <1>8, <2>1, <2>2 DEF Step
<1>10. s2 \in Openings
  BY <1>2 DEF Openings, OpenSteps, Connected
<1>11. /\ s2.pc = "creating" /\ s2.why = s.why /\ s2.create = s.create /\ s2.existing = s.existing
       /\ s2.attempt = s.attempt /\ s2.said = s.said /\ s2.before = s.before /\ s2.copy = s.copy
  BY <1>2 DEF Openings
<1> HIDE DEF s2
<1>12. ASSUME NEW g2 \in Ghosts, g2.others = g.others, g2.later = g.later,
              g2.been = g.been \cup {Marker(d2)}
       PROVE  OpenerSound(o, s2, g2, d2, o)
  <2>1. CreatorSound(o, s2, d2, o)
    <3>1. d2.journal.mark \in {"empty", "blank"}
      BY <1>4, <1>5 DEF Marker
    <3> QED
      BY <1>5, <1>6, <1>7, <1>11, <3>1 DEF CreatorSound, Connected
  <2>2. PathSound(s2)
    BY <1>2, <1>11 DEF OpenerSound, PathSound
  <2>3. SightSound(s2, g2, d2)
    BY <1>2, <1>11, <1>12 DEF OpenerSound, SightSound
  <2>4. NewcomerSound(s2, g2, d2)
    BY <1>2, <1>11, <1>12 DEF OpenerSound, NewcomerSound, PathSound
  <2>5. g2.others \subseteq {"emptyWal"} => UndisturbedSound(s2, d2)
    <3> HAVE g2.others \subseteq {"emptyWal"}
    <3>1. disk.main = EmptyFile /\ Bare(disk)
      BY <1>2, <1>12 DEF OpenerSound, UndisturbedSound
    <3>2. d2.main = EmptyFile /\ d2.wal = None /\ d2.journal = EmptyFile
      BY <1>3, <1>5, <1>7, <3>1 DEF Bare
    <3> QED
      BY <1>11, <3>2 DEF UndisturbedSound
  <2>6. CopySound(s2, d2) /\ CopyTyped(s2)
    BY <1>2, <1>11 DEF OpenerSound, CopySound, CopyTyped
  <2> QED
    BY <2>1, <2>2, <2>3, <2>4, <2>5, <2>6 DEF OpenerSound
<1>13. g.later \in BOOLEAN
  BY <1>2 DEF Ghosts
<1> QED
  BY <1>1, <1>9, <1>10, <1>12, <1>13, OpenerWrites

\* The look under the write lock.
LEMMA LookAgainSound ==
    ASSUME OpenInv, NEW o \in Openers, LookAgain(o)
    PROVE  OpenInv'
<1>1. st[o].pc = "locking" /\ lock = None /\ commits' = commits
  BY DEF LookAgain
<1>2. CASE Marker(disk) = "ours" /\ Accept(o, "journalMode") /\ lock' = lock
  BY <1>1, <1>2, AcceptSound
<1>3. CASE Marker(disk) \in {"other", "bare"} /\ Reject(o) /\ lock' = lock
  <2>1. ~(ghost[o].been \subseteq {"empty", "ours"})
    <3>1. SightSound(st[o], ghost[o], disk)
      BY OneOpener DEF OpenerSound
    <3> QED
      BY <1>1, <1>3, <3>1 DEF SightSound
  <2> QED
    BY <1>1, <1>3, <2>1, RejectSound
<1>4. CASE Marker(disk) \notin {"ours", "other", "bare"} /\ BeginBaseline(o)
  BY <1>1, <1>4, BeginSound
<1> QED
  BY <1>2, <1>3, <1>4 DEF LookAgain

\* The baseline is written where no tables were.
LEMMA WriteBaselineSound ==
    ASSUME OpenInv, NEW o \in Openers, WriteBaseline(o)
    PROVE  OpenInv'
<1> DEFINE s == st[o]
           g == ghost[o]
           main == Baseline(Latest(disk).mark)
           d2 == [disk EXCEPT !.main = main, !.wal = None]
           s2 == [s EXCEPT !.pc = "writing"]
<1>1. /\ st' = [st EXCEPT ![o] = s2] /\ disk' = d2 /\ ghost' = Seen(o, d2)
      /\ s.pc = "creating" /\ UNCHANGED <<lock, commits>>
  BY DEF WriteBaseline, Goes, Leaves
<1>2. /\ s \in Openings /\ o # None /\ o # Other /\ OpenerSound(o, s, g, disk, lock) /\ g \in Ghosts
      /\ disk \in WholeDisks /\ disk \in CopyDisks
  BY OneOpener
<1>3. /\ lock = o /\ disk.main # None /\ disk.journal = (IF disk.wal \notin {None, EmptyFile} THEN disk.wal ELSE disk.main)
      /\ disk.journal.mark \in {"empty", "blank"} /\ disk.journal # None
  BY <1>1, <1>2 DEF OpenerSound, CreatorSound, Connected
<1>4. Latest(disk) = disk.journal
  BY <1>2, <1>3, LatestIs
<1>5. main \in Whole /\ main.mark = "ours"
  BY <1>3, <1>4 DEF Baseline, Whole, AllMarks
<1> HIDE DEF main
<1>6. d2 \in WholeDisks /\ d2.main = main /\ d2.wal = None /\ d2.journal = disk.journal
  BY <1>2, <1>5 DEF WholeDisks
<1>7. Marker(d2) = Marker(disk)
  <2>1. d2 \in CopyDisks
    BY <1>6, WholeFilesAreFiles
  <2>2. Latest(d2) = disk.journal
    BY <1>3, <1>6, <2>1, LatestIs
  <2> QED
    BY <1>4, <2>2 DEF Marker
<1> HIDE DEF d2
<1>8. Step(o, disk, lock, d2, lock)
  <2>1. d2.main \notin {None, EmptyFile}
    BY <1>5, <1>6, ContentsAreSome
  <2>2. DiskSound(d2, lock)
    BY <1>2, <1>3, <1>6 DEF DiskSound
  <2> QED
    BY <1>3, <1>7, <2>1, <2>2 DEF Step
<1>9. s2 \in Openings
  BY <1>2 DEF Openings, OpenSteps, Connected
<1>10. /\ s2.pc = "writing" /\ s2.why = s.why /\ s2.create = s.create /\ s2.existing = s.existing
       /\ s2.attempt = s.attempt /\ s2.said = s.said /\ s2.before = s.before /\ s2.copy = s.copy
  BY <1>2 DEF Openings
<1> HIDE DEF s2
<1>11. ASSUME NEW g2 \in Ghosts, g2.others = g.others, g2.later = g.later,
              g2.been = g.been \cup {Marker(d2)}
       PROVE  OpenerSound(o, s2, g2, d2, lock)
  <2>1. CreatorSound(o, s2, d2, lock)
    BY <1>3, <1>5, <1>6, <1>10, ContentsAreSome DEF CreatorSound, Connected
  <2>2. PathSound(s2)
    BY <1>1, <1>2, <1>10 DEF OpenerSound, PathSound
  <2>3. SightSound(s2, g2, d2)
    BY <1>2, <1>10, <1>11 DEF OpenerSound, SightSound
  <2>4. NewcomerSound(s2, g2, d2)
    BY <1>1, <1>2, <1>10, <1>11 DEF OpenerSound, NewcomerSound, PathSound
  <2>5. g2.others \subseteq {"emptyWal"} => UndisturbedSound(s2, d2)
    BY <1>1, <1>2, <1>6, <1>10, <1>11 DEF OpenerSound, UndisturbedSound
  <2>6. CopySound(s2, d2) /\ CopyTyped(s2)
    BY <1>2, <1>10 DEF OpenerSound, CopySound, CopyTyped
  <2> QED
    BY <2>1, <2>2, <2>3, <2>4, <2>5, <2>6 DEF OpenerSound
<1>12. g.later \in BOOLEAN
  BY <1>2 DEF Ghosts
<1> QED
  BY <1>1, <1>8, <1>9, <1>11, <1>12, OpenerWrites

\* The baseline is committed: the database is this build's.
LEMMA CommitBaselineSound ==
    ASSUME OpenInv, NEW o \in Openers, CommitBaseline(o)
    PROVE  OpenInv'
<1> DEFINE s == st[o]
           g == ghost[o]
           d2 == [disk EXCEPT !.journal = None]
           s2 == [s EXCEPT !.pc = "journalMode"]
<1>1. /\ st' = [st EXCEPT ![o] = s2] /\ disk' = d2 /\ ghost' = [Seen(o, d2) EXCEPT ![o].later = FALSE]
      /\ s.pc = "writing" /\ lock' = None /\ commits' = commits
  BY DEF CommitBaseline, Goes
<1>2. /\ s \in Openings /\ o # None /\ o # Other /\ OpenerSound(o, s, g, disk, lock)
      /\ disk \in WholeDisks /\ disk \in CopyDisks
  BY OneOpener
<1>3. /\ lock = o /\ disk.main \in Whole /\ disk.main.mark = "ours" /\ disk.wal = None
      /\ disk.journal # None
  BY <1>1, <1>2 DEF OpenerSound, CreatorSound
<1>4. d2 \in WholeDisks /\ d2.main = disk.main /\ d2.wal = None /\ d2.journal = None
  BY <1>2, <1>3 DEF WholeDisks
<1> HIDE DEF d2
<1>5. Marker(d2) = "ours"
  <2>1. d2 \in CopyDisks
    BY <1>4, WholeFilesAreFiles
  <2>2. Latest(d2) = disk.main
    BY <1>3, <1>4, <2>1, LatestIs, ContentsAreSome
  <2> QED
    BY <1>3, <2>2 DEF Marker
<1>6. Step(o, disk, lock, d2, None)
  <2>1. d2.main \notin {None, EmptyFile}
    BY <1>3, <1>4, ContentsAreSome
  <2>2. DiskSound(d2, None)
    BY <1>4, OpenAssumption DEF DiskSound
  <2> QED
    BY <1>3, <1>5, <2>1, <2>2 DEF Step
<1>7. s2 \in Openings
  BY <1>2 DEF Openings, OpenSteps, Connected
<1>8. /\ s2.pc = "journalMode" /\ s2.why = s.why /\ s2.create = s.create /\ s2.existing = s.existing
      /\ s2.attempt = s.attempt /\ s2.said = s.said /\ s2.before = s.before /\ s2.copy = s.copy
  BY <1>2 DEF Openings
<1> HIDE DEF s2
<1>9. ASSUME NEW g2 \in Ghosts, g2.others = g.others, g2.later = FALSE,
             g2.been = g.been \cup {Marker(d2)}
      PROVE  OpenerSound(o, s2, g2, d2, None)
  <2>1. CreatorSound(o, s2, d2, None)
    BY <1>2, <1>3, <1>4, <1>8, ContentsAreSome DEF CreatorSound, Connected
  <2>2. PathSound(s2)
    BY <1>1, <1>2, <1>8 DEF OpenerSound, PathSound
  <2>3. SightSound(s2, g2, d2)
    BY <1>2, <1>5, <1>8, <1>9 DEF OpenerSound, SightSound
  <2>4. NewcomerSound(s2, g2, d2)
    BY <1>1, <1>2, <1>8, <1>9 DEF OpenerSound, NewcomerSound, PathSound
  <2>5. UndisturbedSound(s2, d2) /\ CopySound(s2, d2) /\ CopyTyped(s2)
    BY <1>2, <1>8 DEF OpenerSound, UndisturbedSound, CopySound, CopyTyped
  <2> QED
    BY <2>1, <2>2, <2>3, <2>4, <2>5 DEF OpenerSound
<1> QED
  BY <1>1, <1>6, <1>7, <1>9, OpenerWrites

\* The database is opened.
LEMMA SetJournalModeSound ==
    ASSUME OpenInv, NEW o \in Openers, SetJournalMode(o)
    PROVE  OpenInv'
<1> DEFINE s == st[o]
           g == ghost[o]
           s2 == [s EXCEPT !.pc = "opened"]
<1>0. PICK d2 \in Readings(AsRead(disk)) : Leaves(o, d2)
  BY DEF SetJournalMode
<1>1. /\ st' = [st EXCEPT ![o] = s2] /\ disk' = d2 /\ ghost' = Seen(o, d2)
      /\ s.pc = "journalMode" /\ lock = None /\ UNCHANGED <<lock, commits>>
  BY <1>0 DEF SetJournalMode, Goes, Leaves
<1>2. s \in Openings /\ o # None /\ OpenerSound(o, s, g, disk, lock) /\ g \in Ghosts
  BY OneOpener
<1>3. /\ Marker(d2) = Marker(disk) /\ Step(o, disk, lock, d2, lock)
      /\ disk.main # None => d2.main # None
  BY <1>0, <1>1, ReadingIs
<1>4. s2 \in Openings
  BY <1>2 DEF Openings, OpenSteps, OpeningOver
<1>5. /\ s2.pc = "opened" /\ s2.why = s.why /\ s2.create = s.create /\ s2.existing = s.existing
      /\ s2.attempt = s.attempt /\ s2.said = s.said /\ s2.before = s.before /\ s2.copy = s.copy
  BY <1>2 DEF Openings
<1> HIDE DEF s2
<1>6. ASSUME NEW g2 \in Ghosts, g2.others = g.others, g2.later = g.later,
             g2.been = g.been \cup {Marker(d2)}
      PROVE  OpenerSound(o, s2, g2, d2, lock)
  <2>1. CreatorSound(o, s2, d2, lock)
    BY <1>1, <1>2, <1>3, <1>5 DEF OpenerSound, CreatorSound, Connected
  <2>2. PathSound(s2)
    BY <1>1, <1>2, <1>5 DEF OpenerSound, PathSound
  <2>3. SightSound(s2, g2, d2)
    BY <1>1, <1>2, <1>3, <1>5, <1>6 DEF OpenerSound, SightSound
  <2>4. NewcomerSound(s2, g2, d2)
    BY <1>1, <1>2, <1>5, <1>6 DEF OpenerSound, NewcomerSound, PathSound
  <2>5. UndisturbedSound(s2, d2) /\ CopySound(s2, d2) /\ CopyTyped(s2)
    BY <1>2, <1>5 DEF OpenerSound, UndisturbedSound, CopySound, CopyTyped
  <2> QED
    BY <2>1, <2>2, <2>3, <2>4, <2>5 DEF OpenerSound
<1>7. g.later \in BOOLEAN
  BY <1>2 DEF Ghosts
<1> QED
  BY <1>1, <1>3, <1>4, <1>6, <1>7, OpenerWrites

\* A wait on the real connection ends.
LEMMA BusyTimeoutSound ==
    ASSUME OpenInv, NEW o \in Openers, BusyTimeout(o)
    PROVE  OpenInv'
<1>1. /\ st[o].pc \notin {"idle", "creating", "writing"} /\ Refuse(o, "busy")
      /\ UNCHANGED <<disk, ghost, lock, commits>>
  BY DEF BusyTimeout, Unchanged
<1> QED
  BY <1>1, LookRefused

\* An opener dies and its lock with it; the files stay as they lie.
LEMMA OpenerCrashesSound ==
    ASSUME OpenInv, NEW o \in Openers, OpenerCrashes(o)
    PROVE  OpenInv'
<1> DEFINE s == st[o]
           g == ghost[o]
           s2 == [Without(s) EXCEPT !.pc = "dead"]
           l2 == IF lock = o THEN None ELSE lock
<1>1. /\ st' = [st EXCEPT ![o] = s2] /\ lock' = l2 /\ UNCHANGED <<disk, ghost, commits>>
      /\ s.pc \notin {"idle", "refused"}
  BY DEF OpenerCrashes, Unchanged, OpeningOver
<1>2. s \in Openings /\ o # None /\ o # Other /\ OpenerSound(o, s, g, disk, lock) /\ None # Other
  BY OneOpener, OpenAssumption
<1>3. l2 # o /\ (l2 = Other => lock = Other) /\ (l2 # lock => lock = o /\ l2 = None)
  BY <1>2
<1> HIDE DEF l2
<1>4. s2 \in Openings /\ OpenerSound(o, s2, g, disk, l2)
  <2>1. /\ Marker(disk) \in g.been /\ (g.later => ~(g.others \subseteq {"emptyWal"})) /\ s.why = "nothing"
        /\ s.said # "nothing" /\ g.others \subseteq {"write", "emptyWal"} => s.said \in g.been
    BY <1>1, <1>2 DEF OpenerSound, SightSound, PathSound
  <2> QED
    BY <1>2, <1>3, <2>1, DeadSound
<1> HIDE DEF s2
<1>5. Step(o, disk, lock, disk, l2)
  <2>1. DiskSound(disk, lock)
    BY DEF OpenInv
  <2>2. DiskSound(disk, l2)
    BY <1>3, <2>1 DEF DiskSound
  <2> QED
    BY <1>3, <2>2 DEF Step
<1>6. ghost' \in [Openers -> Ghosts]
  BY <1>1 DEF OpenInv, OpenTypeOK
<1>7. \A p \in Openers \ {o} : HasSeen(p, st[p], ghost[p], ghost'[p], o, disk, disk')
  BY <1>1, NothingSeen
<1> QED
  BY <1>1, <1>4, <1>5, <1>6, <1>7, OpenerMoves

\* An opening begins.
LEMMA StartOpeningSound ==
    ASSUME OpenInv, NEW o \in Openers, StartOpening(o)
    PROVE  OpenInv'
<1> DEFINE s == st[o]
           g2 == [others |-> {}, later |-> FALSE, been |-> {Marker(disk)}]
<1>1. PICK create \in BOOLEAN : st' = [st EXCEPT ![o] = [NotBegun EXCEPT !.pc = "orphans", !.create = create]]
  BY DEF StartOpening
<1> DEFINE s2 == [NotBegun EXCEPT !.pc = "orphans", !.create = create]
<1>2. /\ s.pc = "idle" /\ ghost' = [ghost EXCEPT ![o] = g2] /\ UNCHANGED <<disk, lock, commits>>
  BY DEF StartOpening
<1>3. /\ o # None /\ OpenerSound(o, s, ghost[o], disk, lock) /\ disk \in WholeDisks
      /\ ghost \in [Openers -> Ghosts]
  BY OneOpener DEF OpenInv, OpenTypeOK
<1>4. /\ s2.pc = "orphans" /\ s2.why = "nothing" /\ s2.create = create /\ s2.existing = FALSE
      /\ s2.attempt = 0 /\ s2.at = 0 /\ s2.said = "nothing" /\ s2.before = NoFiles /\ s2.copy = NoFiles
  BY DEF NotBegun
<1>5. s2 \in Openings
  <2>1. NoFiles \in Disks /\ "orphans" \in OpenSteps /\ 0 \in 0 .. 3 /\ 0 \in 0 .. MaxAttempts
    BY OpenAssumption DEF NoFiles, Disks, OpenSteps
  <2> QED
    BY <2>1 DEF NotBegun, Openings
<1> HIDE DEF s2
<1>6. g2 \in Ghosts
  <2>1. Marker(disk) \in AllMarks \cup {"empty"}
    BY <1>3, MarkerIs
  <2> QED
    BY <2>1 DEF Ghosts
<1>7. g2.others = {} /\ g2.later = FALSE /\ g2.been = {Marker(disk)}
  OBVIOUS
<1> HIDE DEF g2
<1>8. OpenerSound(o, s2, g2, disk, lock)
  <2>1. CreatorSound(o, s2, disk, lock)
    BY <1>2, <1>3, <1>4 DEF OpenerSound, CreatorSound, Connected
  <2>2. PathSound(s2) /\ SightSound(s2, g2, disk) /\ NewcomerSound(s2, g2, disk)
    BY <1>4, <1>7 DEF PathSound, SightSound, NewcomerSound
  <2>3. UndisturbedSound(s2, disk) /\ CopySound(s2, disk)
    BY <1>4 DEF UndisturbedSound, CopySound
  <2>4. CopyTyped(s2)
    BY <1>4 DEF CopyTyped, WholeDisks, CopyDisks, NoFiles
  <2> QED
    BY <2>1, <2>2, <2>3, <2>4 DEF OpenerSound
<1>9. ghost'[o] = g2 /\ ghost' \in [Openers -> Ghosts] /\ \A p \in Openers \ {o} : ghost'[p] = ghost[p]
  BY <1>2, <1>3, <1>6
<1>10. \A p \in Openers \ {o} : HasSeen(p, st[p], ghost[p], ghost'[p], o, disk, disk')
  BY <1>2, <1>9, NothingSeen
<1>11. Step(o, disk, lock, disk', lock')
  BY <1>2 DEF Step, OpenInv
<1> QED
  BY <1>1, <1>2, <1>5, <1>8, <1>9, <1>10, <1>11, OpenerMoves DEF s2

(***************************************************************************)
(* The other build.                                                        *)
(***************************************************************************)

\* What a function makes of a finite set is finite.
LEMMA ImageIsFinite ==
    ASSUME NEW S, IsFiniteSet(S), NEW f, f = [x \in S |-> f[x]]
    PROVE  IsFiniteSet({f[x] : x \in S})
<1> DEFINE T == {f[x] : x \in S}
<1>1. f \in Surjection(S, T)
  <2>1. f \in [S -> T]
    OBVIOUS
  <2>2. \A t \in T : \E x \in S : f[x] = t
    OBVIOUS
  <2> QED
    BY <2>1, <2>2 DEF Surjection
<1> QED
  BY <1>1, FS_Surjection

\* A transaction leaves a content nobody has a copy of.
LEMMA FreshIsNew ==
    ASSUME OpenInv
    PROVE  /\ Fresh \in Nat
           /\ \A o \in Openers : \A c \in Held(st[o].before) : c.gen # Fresh
           /\ \A c \in Held(disk) : c.gen # Fresh
<1> DEFINE held == {Held(d) : d \in Copies}
           contents == UNION held
<1>1. st \in [Openers -> Openings] /\ disk \in Disks
  BY DEF OpenInv, OpenTypeOK
<1>2. Copies \subseteq Disks
  BY <1>1 DEF Copies, Openings
<1>3. IsFiniteSet(Copies)
  <2> DEFINE b == [o \in Openers |-> st[o].before]
             c == [o \in Openers |-> st[o].copy]
  <2>1. IsFiniteSet({b[o] : o \in Openers}) /\ IsFiniteSet({c[o] : o \in Openers})
    <3>1. IsFiniteSet(Openers)
      BY OpenAssumption
    <3>2. b = [o \in Openers |-> b[o]] /\ c = [o \in Openers |-> c[o]]
      OBVIOUS
    <3> HIDE DEF b, c
    <3>3. IsFiniteSet({b[o] : o \in Openers})
      BY <3>1, <3>2, ImageIsFinite
    <3>4. IsFiniteSet({c[o] : o \in Openers})
      BY <3>1, <3>2, ImageIsFinite
    <3> QED
      BY <3>3, <3>4
  <2>2. {b[o] : o \in Openers} = {st[o].before : o \in Openers} /\ {c[o] : o \in Openers} = {st[o].copy : o \in Openers}
    OBVIOUS
  <2>3. IsFiniteSet({disk})
    BY FS_Singleton
  <2>4. IsFiniteSet({disk} \cup {st[o].before : o \in Openers})
    BY <2>1, <2>2, <2>3, FS_Union
  <2> QED
    BY <2>1, <2>2, <2>4, FS_Union DEF Copies
<1>4. IsFiniteSet(held)
  <2> DEFINE h == [d \in Copies |-> Held(d)]
  <2>1. IsFiniteSet({h[d] : d \in Copies})
    BY <1>3, ImageIsFinite
  <2>2. {h[d] : d \in Copies} = held
    OBVIOUS
  <2> QED
    BY <2>1, <2>2
<1>5. \A d \in Copies : IsFiniteSet(Held(d))
  <2> TAKE d \in Copies
  <2>1. IsFiniteSet({d.main}) /\ IsFiniteSet({d.wal}) /\ IsFiniteSet({d.journal})
    BY FS_Singleton
  <2>2. IsFiniteSet(({d.main} \cup {d.wal}) \cup {d.journal})
    BY <2>1, FS_Union
  <2>3. Held(d) \in SUBSET (({d.main} \cup {d.wal}) \cup {d.journal})
    BY DEF Held
  <2> QED
    BY <2>2, <2>3, FS_Subset
<1>6. IsFiniteSet(contents)
  BY <1>4, <1>5, FS_UNION
<1>7. contents \subseteq Content
  BY <1>2 DEF Disks, Held
<1>8. IsFiniteSet(Remembered) /\ Remembered \subseteq Nat
  <2> DEFINE f == [c \in contents |-> c.gen]
  <2>1. IsFiniteSet({f[c] : c \in contents})
    <3> HIDE DEF contents
    <3> QED
      BY <1>6, ImageIsFinite
  <2>2. {f[c] : c \in contents} = Remembered
    BY DEF Remembered
  <2>3. \A c \in Content : c.gen \in Nat
    BY DEF Content
  <2> QED
    BY <1>7, <2>1, <2>2, <2>3 DEF Remembered
<1>9. \E n \in 1 .. Cardinality(Remembered) + 1 : n \notin Remembered
  <2> DEFINE n == Cardinality(Remembered)
  <2>1. n \in Nat
    BY <1>8, FS_CardinalityType
  <2>2. Cardinality(1 .. n + 1) = n + 1
    BY <2>1, FS_Interval
  <2>3. ~(1 .. n + 1 \in SUBSET Remembered)
    <3> SUFFICES ASSUME 1 .. n + 1 \in SUBSET Remembered
                 PROVE  FALSE
      OBVIOUS
    <3>1. Cardinality(1 .. n + 1) <= n
      BY <1>8, FS_Subset
    <3> QED
      BY <2>1, <2>2, <3>1
  <2> QED
    BY <2>3
<1>10. Fresh \in 1 .. Cardinality(Remembered) + 1 /\ Fresh \notin Remembered
  BY <1>9 DEF Fresh
<1>11. Fresh \in Nat
  BY <1>8, <1>10, FS_CardinalityType
<1>12. \A d \in Copies : \A c \in Held(d) : c.gen \in Remembered
  BY DEF Remembered
<1> QED
  BY <1>10, <1>11, <1>12 DEF Copies

\* A step of the other build is sound when it is for every opener.
LEMMA OtherMoves ==
    ASSUME OpenInv, st' = st, commits' \in 0 .. MaxCommits, lock' = Other => commits' < MaxCommits,
           Step(Other, disk, lock, disk', lock'), ghost' \in [Openers -> Ghosts],
           \A p \in Openers : HasSeen(p, st[p], ghost[p], ghost'[p], Other, disk, disk'),
           \A p \in Openers : TakesAway(Other, disk, disk', st[p].before)
    PROVE  OpenInv'
<1>1. disk' \in WholeDisks /\ DiskSound(disk', lock')
  BY DEF Step, DiskSound
<1>2. OpenTypeOK'
  <2>1. disk' \in Disks
    BY <1>1, WholeFilesAreFiles
  <2>2. lock' \in Openers \cup {None, Other}
    BY DEF Step, OpenInv, OpenTypeOK
  <2> QED
    BY <2>1, <2>2 DEF OpenInv, OpenTypeOK
<1>3. ASSUME NEW p \in Openers
      PROVE  OpenerSound(p, st'[p], ghost'[p], disk', lock')
  <2>1. p # None /\ p # Other /\ OpenerSound(p, st[p], ghost[p], disk, lock) /\ disk \in WholeDisks
    BY OneOpener
  <2>2. /\ HasSeen(p, st[p], ghost[p], ghost'[p], Other, disk, disk')
        /\ TakesAway(Other, disk, disk', st[p].before)
    OBVIOUS
  <2>3. OpenerSound(p, st[p], ghost'[p], disk', lock')
    BY <2>1, <2>2, BystanderSound
  <2> QED
    BY <2>3
<1> QED
  BY <1>1, <1>2, <1>3 DEF OpenInv

\* What it leaves the files as, every opener has seen.
LEMMA OtherWrites ==
    ASSUME OpenInv, NEW d2, Leaves(Other, d2), NEW l2, lock' = l2, st' = st,
           commits' \in 0 .. MaxCommits, l2 = Other => commits' < MaxCommits,
           Step(Other, disk, lock, d2, l2),
           \A p \in Openers : TakesAway(Other, disk, d2, st[p].before)
    PROVE  OpenInv'
<1>1. disk' = d2 /\ ghost' = Seen(Other, d2) /\ d2 \in WholeDisks /\ Other \notin Openers
  BY OpenAssumption DEF Leaves, Step, DiskSound
<1>2. /\ ghost' \in [Openers -> Ghosts]
      /\ \A p \in Openers \ {Other} : HasSeen(p, st[p], ghost[p], ghost'[p], Other, disk, d2)
  BY <1>1, SeenIs
<1>3. \A p \in Openers : HasSeen(p, st[p], ghost[p], ghost'[p], Other, disk, d2)
  BY <1>1, <1>2
<1> QED
  BY <1>1, <1>2, <1>3, OtherMoves

\* What the other build writes.
LEMMA WrittenIsNew ==
    ASSUME OpenInv, NEW mark \in Marks
    PROVE  /\ Written(mark) \in Whole /\ Written(mark) \notin {None, EmptyFile}
           /\ \A o \in Openers : New(Written(mark), st[o].before)
<1>1. Fresh \in Nat /\ \A o \in Openers : \A c \in Held(st[o].before) : c.gen # Fresh
  BY FreshIsNew
<1>2. Written(mark) \in Whole /\ Written(mark).gen = Fresh
  BY <1>1, OpenAssumption DEF Written, Whole
<1>3. Written(mark) \notin {None, EmptyFile}
  BY <1>2, ContentsAreSome
<1> QED
  BY <1>1, <1>2, <1>3 DEF New

\* A transaction begins: the journal keeps what was, the main file is new.
LEMMA OtherBeginSound ==
    ASSUME OpenInv, OtherBegin
    PROVE  OpenInv'
<1>1. PICK mark \in Marks : Leaves(Other, [disk EXCEPT !.journal = Latest(disk), !.main = Written(mark)])
  BY DEF OtherBegin
<1>2. /\ lock = None /\ ~Hot /\ disk.wal = None /\ lock' = Other /\ UNCHANGED <<commits, st>>
  BY DEF OtherBegin
<1> DEFINE d2 == [disk EXCEPT !.journal = Latest(disk), !.main = Written(mark)]
<1>3. disk \in WholeDisks /\ disk \in CopyDisks /\ disk.journal = None /\ None # Other
  BY <1>2, WholeFilesAreFiles, OpenAssumption DEF OpenInv, DiskSound, Hot
<1>4. Latest(disk) \in Whole \cup {EmptyFile}
  BY <1>3, MarkerIs
<1>5. /\ Written(mark) \in Whole /\ Written(mark) \notin {None, EmptyFile}
      /\ \A o \in Openers : New(Written(mark), st[o].before)
  BY WrittenIsNew
<1>6. d2 \in WholeDisks /\ d2.main = Written(mark) /\ d2.wal = None /\ d2.journal = Latest(disk)
  BY <1>2, <1>3, <1>4, <1>5 DEF WholeDisks
<1>7. Marker(d2) = Marker(disk)
  <2>1. d2 \in CopyDisks
    BY <1>6, WholeFilesAreFiles
  <2>2. Latest(d2) = Latest(disk)
    BY <1>4, <1>6, <2>1, LatestIs, ContentsAreSome
  <2> QED
    BY <2>2 DEF Marker
<1>8. d2.journal # None
  BY <1>4, <1>6, ContentsAreSome
<1>9. Leaves(Other, d2)
  BY <1>1
<1> HIDE DEF d2
<1>10. Step(Other, disk, lock, d2, Other)
  BY <1>2, <1>5, <1>6, <1>7, <1>8 DEF Step, DiskSound
<1>11. \A p \in Openers : TakesAway(Other, disk, d2, st[p].before)
  BY <1>5, <1>6, ContentsAreSome DEF TakesAway, TakesOn, Moved, Sans
<1>12. commits' \in 0 .. MaxCommits /\ commits' < MaxCommits
  BY <1>2 DEF OpenInv, OpenTypeOK, OtherBegin
<1> QED
  BY <1>2, <1>9, <1>10, <1>11, <1>12, OtherWrites

\* A journal goes and the main file stays: no copy of what was is true any more.
LEMMA JournalGone ==
    ASSUME OpenInv, NEW p \in Openers, NEW d2 \in Disks,
           disk.journal # None, d2.main = disk.main, d2.wal = disk.wal, d2.journal = None
    PROVE  TakesAway(Other, disk, d2, st[p].before)
BY DEF TakesAway, TakesOn, Moved, Same

\* A transaction is committed.
LEMMA OtherCommitSound ==
    ASSUME OpenInv, OtherCommit
    PROVE  OpenInv'
<1> DEFINE d2 == [disk EXCEPT !.journal = None]
<1>1. lock = Other /\ lock' = None /\ commits' = commits + 1 /\ Leaves(Other, d2) /\ st' = st
  BY DEF OtherCommit
<1>2. /\ disk \in WholeDisks /\ disk \in CopyDisks /\ disk.main \in Whole /\ disk.wal = None
      /\ disk.journal # None /\ None # Other
  BY <1>1, WholeFilesAreFiles, OpenAssumption DEF OpenInv, DiskSound
<1>3. d2 \in WholeDisks /\ d2.main = disk.main /\ d2.wal = None /\ d2.journal = None
  BY <1>2 DEF WholeDisks
<1>4. Marker(d2) # "empty"
  <2>1. d2 \in CopyDisks
    BY <1>3, WholeFilesAreFiles
  <2>2. Latest(d2) = disk.main
    BY <1>2, <1>3, <2>1, LatestIs, ContentsAreSome
  <2> QED
    BY <1>2, <2>2, ContentsAreSome DEF Marker, AllMarks
<1> HIDE DEF d2
<1>5. Step(Other, disk, lock, d2, None)
  BY <1>1, <1>2, <1>3, <1>4, ContentsAreSome DEF Step, DiskSound
<1>6. \A p \in Openers : TakesAway(Other, disk, d2, st[p].before)
  BY <1>2, <1>3, WholeFilesAreFiles, JournalGone
<1>7. commits' \in 0 .. MaxCommits
  BY <1>1, OpenAssumption DEF OpenInv, OpenTypeOK
<1> QED
  BY <1>1, <1>2, <1>5, <1>6, <1>7, OtherWrites

\* A transaction is rolled back: the journal is the main file again.
LEMMA OtherRollsBackSound ==
    ASSUME OpenInv, OtherRollsBack
    PROVE  OpenInv'
<1> DEFINE d2 == RolledBack(disk)
<1>1. lock = Other /\ lock' = None /\ commits' = commits /\ Leaves(Other, d2) /\ st' = st
  BY DEF OtherRollsBack
<1>2. disk \in WholeDisks /\ disk.wal = None /\ disk.journal # None /\ None # Other
  BY <1>1, OpenAssumption DEF OpenInv, DiskSound
<1>3. /\ d2 \in WholeDisks /\ d2.main = disk.journal /\ d2.wal = disk.wal /\ d2.journal = None
      /\ Marker(d2) = Marker(disk)
  BY <1>2, RolledBackIs DEF Marker
<1> HIDE DEF d2
<1>4. Step(Other, disk, lock, d2, None)
  BY <1>1, <1>2, <1>3 DEF Step, DiskSound, Undoes
<1>5. ASSUME NEW p \in Openers
      PROVE  TakesAway(Other, disk, d2, st[p].before)
  <2>1. CASE disk.main = disk.journal
    BY <1>2, <1>3, <2>1, WholeFilesAreFiles, JournalGone
  <2>2. CASE disk.main # disk.journal
    <3>1. Undoes(disk, d2)
      BY <1>2, <1>3, <2>2 DEF Undoes
    <3> QED
      BY <3>1 DEF TakesAway
  <2> QED
    BY <2>1, <2>2
<1>6. commits' \in 0 .. MaxCommits
  BY <1>1 DEF OpenInv, OpenTypeOK
<1> QED
  BY <1>1, <1>2, <1>4, <1>5, <1>6, OtherWrites

\* The other build dies in a transaction: its journal is hot from now on.
LEMMA OtherCrashesSound ==
    ASSUME OpenInv, OtherCrashes
    PROVE  OpenInv'
<1>1. /\ lock = Other /\ lock' = None /\ commits' = commits + 1 /\ st' = st
      /\ disk' = disk /\ ghost' = ghost
  BY DEF OtherCrashes, Unchanged
<1>2. None # Other
  BY OpenAssumption
<1>3. Step(Other, disk, lock, disk', lock')
  BY <1>1, <1>2 DEF Step, OpenInv, DiskSound
<1>4. \A p \in Openers : TakesAway(Other, disk, disk', st[p].before)
  BY <1>1 DEF TakesAway
<1>5. commits' \in 0 .. MaxCommits
  BY <1>1, OpenAssumption DEF OpenInv, OpenTypeOK
<1>6. ghost' \in [Openers -> Ghosts]
  BY <1>1 DEF OpenInv, OpenTypeOK
<1>7. \A p \in Openers : HasSeen(p, st[p], ghost[p], ghost'[p], Other, disk, disk')
  BY <1>1, NothingSeen
<1> QED
  BY <1>1, <1>2, <1>3, <1>4, <1>5, <1>6, <1>7, OtherMoves

\* A transaction is appended to the WAL.
LEMMA OtherAppendsSound ==
    ASSUME OpenInv, OtherAppends
    PROVE  OpenInv'
<1>1. PICK mark \in Marks : Leaves(Other, [disk EXCEPT !.wal = Written(mark)])
  BY DEF OtherAppends
<1> DEFINE d2 == [disk EXCEPT !.wal = Written(mark)]
<1>2. /\ lock = None /\ ~Hot /\ disk.main \notin {None, EmptyFile} /\ commits < MaxCommits
      /\ commits' = commits + 1 /\ lock' = None /\ st' = st
  BY DEF OtherAppends
<1>3. disk \in WholeDisks /\ disk.journal = None /\ None # Other
  BY <1>2, OpenAssumption DEF OpenInv, DiskSound, Hot
<1>4. /\ Written(mark) \in Whole /\ Written(mark) \notin {None, EmptyFile}
      /\ \A o \in Openers : New(Written(mark), st[o].before)
  BY WrittenIsNew
<1>5. d2 \in WholeDisks /\ d2.main = disk.main /\ d2.wal = Written(mark) /\ d2.journal = None
  BY <1>3, <1>4 DEF WholeDisks
<1>6. Leaves(Other, d2)
  BY <1>1
<1> HIDE DEF d2
<1>7. Marker(d2) # "empty"
  <2>1. d2 \in CopyDisks
    BY <1>5, WholeFilesAreFiles
  <2>2. Latest(d2) = Written(mark)
    BY <1>4, <1>5, <2>1, LatestIs
  <2> QED
    BY <1>4, <2>2, ContentsAreSome DEF Marker, AllMarks
<1>8. Step(Other, disk, lock, d2, None)
  BY <1>2, <1>3, <1>5, <1>7 DEF Step, DiskSound
<1>9. \A p \in Openers : TakesAway(Other, disk, d2, st[p].before)
  <2> TAKE p \in Openers
  <2>1. New(d2.wal, st[p].before) /\ Sans(d2.wal) # Sans(st[p].before.wal)
    BY <1>4, <1>5 DEF New, Held, Sans
  <2> QED
    BY <2>1 DEF TakesAway, TakesOn, Moved
<1>10. commits' \in 0 .. MaxCommits
  BY <1>2, OpenAssumption DEF OpenInv, OpenTypeOK
<1> QED
  BY <1>2, <1>3, <1>6, <1>8, <1>9, <1>10, OtherWrites

\* The WAL is moved into the main file.
LEMMA OtherCheckpointsSound ==
    ASSUME OpenInv, OtherCheckpoints
    PROVE  OpenInv'
<1> DEFINE d2 == Checkpointed(disk)
<1>1. /\ lock = None /\ ~Hot /\ disk.wal # None /\ Leaves(Other, d2)
      /\ lock' = None /\ commits' = commits /\ st' = st
  BY DEF OtherCheckpoints
<1>2. disk \in WholeDisks /\ disk.journal = None /\ None # Other
  BY <1>1, OpenAssumption DEF OpenInv, DiskSound, Hot
<1>3. /\ d2 \in WholeDisks /\ d2.main = (IF disk.wal # EmptyFile THEN disk.wal ELSE disk.main)
      /\ d2.wal = None /\ d2.journal = None
      /\ Marker(d2) = Marker(disk)
  BY <1>1, <1>2, CheckpointedIs DEF Marker
<1> HIDE DEF d2
<1>4. disk.wal # EmptyFile => disk.wal \in Whole /\ disk.wal \notin {None, EmptyFile}
  BY <1>1, <1>2, ContentsAreSome DEF WholeDisks
<1>5. Step(Other, disk, lock, d2, None)
  BY <1>1, <1>2, <1>3, <1>4 DEF Step, DiskSound
<1>6. ASSUME NEW p \in Openers
      PROVE  TakesAway(Other, disk, d2, st[p].before)
  <2> DEFINE b == st[p].before
  <2>1. CASE disk.wal = EmptyFile
    <3>1. Same(d2, disk) /\ Sans(disk.wal) = None
      BY <1>2, <1>3, <2>1 DEF Same, Sans
    <3> QED
      BY <3>1, NothingTakenOn DEF TakesAway
  <2>2. CASE disk.wal # EmptyFile
    <3>1. d2.main = disk.wal /\ Sans(d2.wal) = None /\ Sans(disk.wal) = disk.wal
      BY <1>3, <2>2, ContentsAreSome DEF Sans
    <3>2. Sans(disk.wal) = Sans(b.wal) => Moved(d2, b)
      BY <1>1, <3>1 DEF Moved
    <3>3. New(disk.wal, b) => Moved(d2, b)
      BY <3>1 DEF Moved
    <3>4. Moved(disk, b) => Sans(disk.wal) = Sans(b.wal) \/ New(disk.wal, b)
      BY <1>1, <3>1 DEF Moved
    <3> QED
      BY <3>2, <3>3, <3>4 DEF TakesAway, TakesOn, Same
  <2> QED
    BY <2>1, <2>2
<1>7. commits' \in 0 .. MaxCommits
  BY <1>1 DEF OpenInv, OpenTypeOK
<1> QED
  BY <1>1, <1>2, <1>5, <1>6, <1>7, OtherWrites

(***************************************************************************)
(* Openings are safe.                                                      *)
(***************************************************************************)

\* However the path was left, nobody has begun.
LEMMA OpenInvInit ==
    ASSUME OpenInit
    PROVE  OpenInv
<1>1. /\ disk \in InitialDisks /\ lock = None /\ commits = 0
      /\ st = [o \in Openers |-> NotBegun]
      /\ ghost = [o \in Openers |-> [others |-> {}, later |-> FALSE, been |-> {}]]
  BY DEF OpenInit
<1>2. disk \in WholeDisks
  <2>1. Found \subseteq AllMarks
    BY OpenAssumption
  <2>2. Finished \subseteq Whole \cup {EmptyFile} /\ Unfinished \subseteq Whole
    BY <2>1 DEF Finished, Unfinished, Whole
  <2>3. InitialDisks \subseteq WholeDisks
    BY <2>2 DEF InitialDisks, WholeDisks
  <2> QED
    BY <1>1, <2>3
<1>3. /\ NotBegun.pc = "idle" /\ NotBegun.why = "nothing" /\ NotBegun.said = "nothing"
      /\ NotBegun.create = FALSE /\ NotBegun.existing = FALSE /\ NotBegun.attempt = 0 /\ NotBegun.at = 0
      /\ NotBegun.before = NoFiles /\ NotBegun.copy = NoFiles
  BY DEF NotBegun
<1>4. NotBegun \in Openings
  <2>1. NoFiles \in Disks /\ "idle" \in OpenSteps /\ 0 \in 0 .. 3 /\ 0 \in 0 .. MaxAttempts
    BY OpenAssumption DEF NoFiles, Disks, OpenSteps
  <2> QED
    BY <2>1 DEF NotBegun, Openings
<1>5. OpenTypeOK
  <2>1. disk \in Disks /\ lock \in Openers \cup {None, Other} /\ commits \in 0 .. MaxCommits
    BY <1>1, <1>2, WholeFilesAreFiles, OpenAssumption
  <2>2. st \in [Openers -> Openings]
    BY <1>1, <1>4
  <2>3. ghost \in [Openers -> Ghosts]
    BY <1>1 DEF Ghosts
  <2> QED
    BY <2>1, <2>2, <2>3 DEF OpenTypeOK
<1>6. ASSUME NEW o \in Openers
      PROVE  OpenerSound(o, st[o], ghost[o], disk, lock)
  <2>1. st[o] = NotBegun /\ lock # o
    BY <1>1, OpenAssumption
  <2>2. ghost[o].later = FALSE
    BY <1>1
  <2>3. CreatorSound(o, NotBegun, disk, lock) /\ PathSound(NotBegun)
    BY <1>3, <2>1 DEF CreatorSound, PathSound, Connected
  <2>4. SightSound(NotBegun, ghost[o], disk) /\ NewcomerSound(NotBegun, ghost[o], disk)
    BY <1>3, <2>2 DEF SightSound, NewcomerSound
  <2>5. UndisturbedSound(NotBegun, disk) /\ CopySound(NotBegun, disk)
    BY <1>3 DEF UndisturbedSound, CopySound
  <2>6. CopyTyped(NotBegun)
    BY <1>3 DEF CopyTyped, WholeDisks, CopyDisks, NoFiles
  <2> QED
    BY <2>1, <2>3, <2>4, <2>5, <2>6 DEF OpenerSound
<1>7. DiskSound(disk, lock) /\ lock # Other
  BY <1>1, <1>2, OpenAssumption DEF DiskSound
<1> QED
  BY <1>5, <1>6, <1>7 DEF OpenInv

\* Every step of the system keeps the invariant.
LEMMA OpenInvStep ==
    ASSUME OpenInv, [OpenNext]_openVars
    PROVE  OpenInv'
<1>1. ASSUME NEW o \in Openers, OpenerStep(o)
      PROVE  OpenInv'
  BY <1>1, RejectOrphanedSound, ExistingSound, ValidateInPlaceSound, StampBeforeSound, FindMemberSound,
     CopyOneSound, CopyRestSound, StampAfterCopySound, ValidateSnapshotSound, ConnectSound,
     RevalidateSound, PeekSound, LookAgainSound, WriteBaselineSound, CommitBaselineSound,
     SetJournalModeSound, BusyTimeoutSound DEF OpenerStep
<1>2. ASSUME OtherStep
      PROVE  OpenInv'
  BY <1>2, OtherBeginSound, OtherCommitSound, OtherRollsBackSound, OtherCrashesSound,
     OtherAppendsSound, OtherCheckpointsSound DEF OtherStep
<1>3. CASE UNCHANGED openVars
  <2>1. disk' = disk /\ lock' = lock /\ commits' = commits /\ st' = st /\ ghost' = ghost
    BY <1>3 DEF openVars
  <2>2. OpenTypeOK'
    BY <2>1 DEF OpenInv, OpenTypeOK
  <2>3. DiskSound(disk', lock') /\ (lock' = Other => commits' < MaxCommits)
    BY <2>1 DEF OpenInv
  <2>4. \A o \in Openers : OpenerSound(o, st'[o], ghost'[o], disk', lock')
    BY <2>1 DEF OpenInv
  <2> QED
    BY <2>2, <2>3, <2>4 DEF OpenInv
<1>4. CASE OpenNext
  BY <1>1, <1>2, <1>4, StartOpeningSound, OpenerCrashesSound DEF OpenNext
<1> QED
  BY <1>3, <1>4

\* The invariant holds however the openings, the other build and the crashes interleave.
LEMMA OpenInvariant == OpenSpec => []OpenInv
<1> QED
  BY OpenInvInit, OpenInvStep, PTL DEF OpenSpec

\* What the invariant says of the openings and of what they find.
LEMMA OpenInvIsSafe == OpenInv => OpeningsAreSafe
<1> SUFFICES ASSUME OpenInv PROVE OpeningsAreSafe
  OBVIOUS
<1>1. NothingIsMixed
  <2> SUFFICES ASSUME NEW member \in DOMAIN disk, disk[member] # None
               PROVE  disk[member].mark # "mixed"
    BY DEF NothingIsMixed
  <2>1. disk \in WholeDisks
    BY DEF OpenInv, DiskSound
  <2>2. DOMAIN disk = {"main", "wal", "journal"}
    BY <2>1 DEF WholeDisks
  <2>3. disk.main # None => disk.main \in Whole \cup {EmptyFile}
    BY <2>1 DEF WholeDisks
  <2>4. disk.wal # None => disk.wal \in Whole \cup {EmptyFile}
    BY <2>1 DEF WholeDisks
  <2>5. disk.journal # None => disk.journal \in Whole \cup {EmptyFile}
    BY <2>1 DEF WholeDisks
  <2>6. disk[member] \in Whole \cup {EmptyFile}
    BY <2>2, <2>3, <2>4, <2>5
  <2> QED
    BY <2>6 DEF Whole, EmptyFile, AllMarks
<1>2. \A o \in Openers : SightSound(st[o], ghost[o], disk) /\ NewcomerSound(st[o], ghost[o], disk)
  BY DEF OpenInv, OpenerSound
<1>3. OpenedIsOurs /\ CopyIsTrue
  BY <1>2 DEF SightSound, OpenedIsOurs, CopyIsTrue
<1>4. NewcomersAreAccepted
  BY <1>2 DEF NewcomerSound, NewcomersAreAccepted
<1> QED
  BY <1>1, <1>3, <1>4 DEF OpeningsAreSafe, OpenInv

\* Whoever shares the path, whatever it wrote, committed, rolled back, crashed over or
\* checkpointed, and however the path was left: tables are never mixed, a store that opens
\* is this build's, newcomers accept each other and a copy says what the database said.
THEOREM OpeningsSafe == OpenSpec => []OpeningsAreSafe
<1> QED
  BY OpenInvariant, OpenInvIsSafe, PTL

(***************************************************************************)
(* An incompatible database is left alone.                                 *)
(***************************************************************************)

Touching == {"connecting", "revalidating", "peeking", "locking", "creating", "writing", "journalMode"}

\* Where an opener touches the files, nobody having disturbed it, they are this
\* build's or nobody's.
LEMMA TouchesItsOwn ==
    ASSUME OpenInv, NEW o \in Openers, st[o].pc \in Touching, ghost[o].others \subseteq {"emptyWal"}
    PROVE  Marker(disk) \notin Foreign
<1>1. /\ OpenerSound(o, st[o], ghost[o], disk, lock) /\ disk \in WholeDisks /\ disk \in CopyDisks
  BY OneOpener
<1>2. UndisturbedSound(st[o], disk)
  BY <1>1 DEF OpenerSound
<1>3. Latest(disk) = IF disk.wal \notin {None, EmptyFile} THEN disk.wal
                     ELSE IF disk.journal # None THEN disk.journal
                     ELSE IF disk.main # None THEN disk.main ELSE EmptyFile
  BY <1>1, LatestIs
<1>4. EmptyFile # None /\ EmptyFile.mark = "empty" /\ "empty" \notin Foreign /\ "ours" \notin Foreign
  BY ContentsAreSome DEF Foreign
<1>5. Latest(disk) = EmptyFile => Marker(disk) \notin Foreign
  BY <1>4 DEF Marker
<1>6. Marker(disk) = "ours" => Marker(disk) \notin Foreign
  BY <1>4
<1>7. CASE st[o].pc \in {"connecting", "revalidating"} /\ st[o].existing
  BY <1>2, <1>6, <1>7 DEF UndisturbedSound
<1>8. CASE st[o].pc \in {"connecting", "revalidating"} /\ ~st[o].existing
  <2>1. disk.main \in {None, EmptyFile} /\ Bare(disk)
    BY <1>2, <1>8 DEF UndisturbedSound
  <2> QED
    BY <1>3, <1>5, <2>1 DEF Bare
<1>9. CASE st[o].pc \in {"peeking", "locking"}
  <2>1. disk.main = EmptyFile /\ Bare(disk)
    BY <1>2, <1>9 DEF UndisturbedSound
  <2> QED
    BY <1>3, <1>5, <2>1 DEF Bare
<1>10. CASE st[o].pc = "creating"
  BY <1>2, <1>3, <1>4, <1>5, <1>10 DEF UndisturbedSound
<1>11. CASE st[o].pc = "writing"
  <2>1. disk.wal = None /\ disk.journal = EmptyFile
    BY <1>1, <1>2, <1>11 DEF OpenerSound, CreatorSound, UndisturbedSound
  <2> QED
    BY <1>3, <1>4, <1>5, <2>1
<1>12. CASE st[o].pc = "journalMode"
  <2>1. Marker(disk) = "ours"
    BY <1>1, <1>12 DEF OpenerSound, SightSound
  <2> QED
    BY <1>6, <2>1
<1> QED
  BY <1>7, <1>8, <1>9, <1>10, <1>11, <1>12 DEF Touching

\* An opener's step is its own, and changes files only where it has connected to them.
LEMMA OneMoves ==
    ASSUME OpenInv, NEW q \in Openers, OpenerStep(q) \/ StartOpening(q) \/ OpenerCrashes(q)
    PROVE  /\ \A o \in Openers \ {q} : st'[o] = st[o]
           /\ disk' = disk \/ MakesEmptyWal(disk, disk') \/ st[q].pc \in Touching
<1>1. st \in [Openers -> Openings]
  BY DEF OpenInv, OpenTypeOK
<1>2. CASE StartOpening(q) \/ OpenerCrashes(q)
  BY <1>1, <1>2 DEF StartOpening, OpenerCrashes, Unchanged
<1>3. CASE RejectOrphanedSidecars(q) \/ Existing(q) \/ ValidateInPlace(q) \/ StampBefore(q)
  BY <1>1, <1>3 DEF RejectOrphanedSidecars, Existing, ValidateInPlace, StampBefore, Refuse, Goes,
     Leaves, Readings, Unchanged
<1>4. CASE FindMember(q) \/ CopyOne(q) \/ CopyRest(q)
  BY <1>1, <1>4 DEF FindMember, CopyOne, CopyRest, Refuse, Unchanged
<1>5. CASE StampAfterCopy(q) \/ ValidateSnapshot(q) \/ BusyTimeout(q)
  BY <1>1, <1>5 DEF StampAfterCopy, ValidateSnapshot, TryAgain, Concludes, BusyTimeout, Refuse, Unchanged
<1>6. CASE Connect(q)
  BY <1>1, <1>6 DEF Connect, Refuse, Goes, Touching
<1>7. CASE Revalidate(q)
  BY <1>1, <1>7 DEF Revalidate, Accept, Reject, Refuse, Goes, Touching
<1>8. CASE Peek(q)
  BY <1>1, <1>8 DEF Peek, Accept, Reject, Refuse, Goes, Touching
<1>9. CASE LookAgain(q)
  BY <1>1, <1>9 DEF LookAgain, Accept, Reject, BeginBaseline, Refuse, Goes, Touching
<1>10. CASE WriteBaseline(q) \/ CommitBaseline(q) \/ SetJournalMode(q)
  BY <1>1, <1>10 DEF WriteBaseline, CommitBaseline, SetJournalMode, Goes, Touching
<1> QED
  BY <1>2, <1>3, <1>4, <1>5, <1>6, <1>7, <1>8, <1>9, <1>10 DEF OpenerStep

\* A database another build wrote keeps every byte through an opening, however it ends,
\* while nobody else has changed it since that began; beside it at most the empty WAL of
\* a reader appears.
THEOREM IncompatibleLeftAlone == OpenSpec => IncompatibleIsLeftAlone
<1> DEFINE LeavesIt == \A o \in Openers :
               st'[o].pc # st[o].pc /\ disk' # disk /\ Marker(disk) \in Foreign =>
                   MakesEmptyWal(disk, disk') \/ ~(ghost[o].others \subseteq {"emptyWal"})
<1>1. OpenInv /\ [OpenNext]_openVars => [LeavesIt]_openVars
  <2> SUFFICES ASSUME OpenInv, OpenNext, NEW o \in Openers,
                      st'[o].pc # st[o].pc, disk' # disk, Marker(disk) \in Foreign,
                      ~MakesEmptyWal(disk, disk')
               PROVE  ~(ghost[o].others \subseteq {"emptyWal"})
    OBVIOUS
  <2>1. ~OtherStep
    BY DEF OtherStep, OtherBegin, OtherCommit, OtherRollsBack, OtherCrashes, OtherAppends, OtherCheckpoints
  <2>2. PICK q \in Openers : StartOpening(q) \/ OpenerStep(q) \/ OpenerCrashes(q)
    BY <2>1 DEF OpenNext
  <2>3. q = o /\ st[q].pc \in Touching
    BY <2>2, OneMoves
  <2> QED
    BY <2>3, TouchesItsOwn
<1> QED
  BY <1>1, OpenInvariant, PTL DEF OpenSpec, IncompatibleIsLeftAlone
=============================================================================
