-------------------------- MODULE Processes_proofs --------------------------
(***************************************************************************)
(* Theorems about the processes codehelion starts and has to live with.      *)
(* Inside a compiler helper reading ahead loses and reorders nothing          *)
(* (InputSound); between it and its client every answer is to the question   *)
(* that was asked, and a helper that is given up on is ended and reaped       *)
(* (ConversationSound), for any number of pieces and requests and any        *)
(* capacity of the pipes.  The supervisor of helpers, for every set of units *)
(* and every budget of restarts, is sound however they fail (SupervisorSound) *)
(* and gives the answers HelperAnswers allows (SupervisorKeepsPromise).  Any  *)
(* set of artifact commands on one database and one destination, each killed, *)
(* timed out or failing at any step, leaves both as it should (CommandsSound). *)
(***************************************************************************)
EXTENDS HelperExchange, HelperInput, HelperSupervisor, ArtifactWorker,
        SequenceTheorems, WellFoundedInduction, TLAPS

(***************************************************************************)
(* Inside the helper.  What the serving thread has taken, what is pending,   *)
(* in the channel, carried by the watcher and in the pipe are consecutive    *)
(* runs of the pieces written, however the watcher cuts them into chunks.    *)
(***************************************************************************)

\* s goes on where the first `after` pieces end.
Continues(s, after) == \A i \in 1 .. Len(s) : s[i] = after + i

\* A run goes on with the piece that follows it.
LEMMA ContinuesAppended ==
    ASSUME NEW s \in Seq(Nat), NEW after \in Nat, Continues(s, after)
    PROVE  /\ Append(s, after + Len(s) + 1) \in Seq(Nat)
           /\ Continues(Append(s, after + Len(s) + 1), after)
           /\ Len(Append(s, after + Len(s) + 1)) = Len(s) + 1
<1> DEFINE t == Append(s, after + Len(s) + 1)
<1>1. t \in Seq(Nat) /\ Len(t) = Len(s) + 1 /\ Len(s) \in Nat
  OBVIOUS
<1>2. ASSUME NEW i \in 1 .. Len(t) PROVE t[i] = after + i
  <2>1. CASE i = Len(s) + 1
    BY <2>1
  <2>2. CASE i # Len(s) + 1
    <3>1. i \in 1 .. Len(s)
      BY <1>1, <2>2
    <3> QED BY <3>1 DEF Continues
  <2> QED BY <2>1, <2>2
<1> QED BY <1>1, <1>2 DEF Continues

\* Two runs of which the second begins where the first ends are one.
LEMMA ContinuesJoined ==
    ASSUME NEW s \in Seq(Nat), NEW t \in Seq(Nat), NEW after \in Nat,
           Continues(s, after), Continues(t, after + Len(s))
    PROVE  /\ s \o t \in Seq(Nat)
           /\ Continues(s \o t, after)
           /\ Len(s \o t) = Len(s) + Len(t)
<1>1. s \o t \in Seq(Nat) /\ Len(s \o t) = Len(s) + Len(t) /\ Len(s) \in Nat /\ Len(t) \in Nat
  OBVIOUS
<1>2. ASSUME NEW i \in 1 .. Len(s \o t) PROVE (s \o t)[i] = after + i
  <2>1. CASE i <= Len(s)
    BY <1>1, <2>1 DEF Continues
  <2>2. CASE i > Len(s)
    <3>1. i - Len(s) \in 1 .. Len(t) /\ (s \o t)[i] = t[i - Len(s)]
      BY <1>1, <2>2
    <3> QED BY <1>1, <3>1 DEF Continues
  <2> QED BY <1>1, <2>1, <2>2
<1> QED BY <1>1, <1>2 DEF Continues

\* Without its first piece a run begins one later.
LEMMA ContinuesTaken ==
    ASSUME NEW s \in Seq(Nat), NEW after \in Nat, Continues(s, after), s # <<>>
    PROVE  /\ Head(s) = after + 1
           /\ Tail(s) \in Seq(Nat) /\ Len(Tail(s)) = Len(s) - 1 /\ Len(s) \in Nat \ {0}
           /\ Continues(Tail(s), after + 1)
<1>1. Head(s) = s[1] /\ Tail(s) \in Seq(Nat) /\ Len(Tail(s)) = Len(s) - 1 /\ Len(s) \in Nat \ {0}
  OBVIOUS
<1>2. ASSUME NEW i \in 1 .. Len(Tail(s)) PROVE Tail(s)[i] = after + 1 + i
  <2>1. Tail(s)[i] = s[i + 1] /\ i + 1 \in 1 .. Len(s)
    BY <1>1
  <2> QED BY <2>1 DEF Continues
<1> QED BY <1>1, <1>2 DEF Continues

\* A set of numbers that is not empty has a least one.
LEMMA LeastPiece ==
    ASSUME NEW T \in SUBSET Nat, T # {}
    PROVE  \E x \in T : \A y \in T : x <= y
<1> DEFINE Less == OpToRel(<, Nat)
<1>1. IsWellFoundedOn(Less, Nat)
  BY NatLessThanWellFounded, Zenon
<1> HIDE DEF Less
<1>2. PICK x \in T : \A y \in T : ~ (<<y, x>> \in Less)
  BY <1>1, WFMin, Zenon
<1>3. ASSUME NEW y \in T, y < x PROVE <<y, x>> \in Less
  <2>1. <<y, x>> \in Nat \X Nat /\ <<y, x>>[1] < <<y, x>>[2]
    BY <1>3
  <2> QED BY <2>1 DEF Less, OpToRel
<1>4. \A y \in T : ~ (y < x)
  BY <1>2, <1>3
<1> QED BY <1>4

\* Consecutive chunks, the k-th beginning after mark[k].
InARow(list, mark) ==
    \A k \in 1 .. Len(list) :
        Continues(list[k], mark[k]) /\ mark[k + 1] = mark[k] + Len(list[k])

\* Chunks in a row, put together, are one run: the shortest list of chunks for
\* which this failed would have a shorter one.
LEMMA FlattenedContinues ==
    ASSUME NEW list \in Seq(Seq(Nat)), NEW mark \in [Nat -> Nat], InARow(list, mark)
    PROVE  /\ FlattenSeq(list) \in Seq(Nat)
           /\ Continues(FlattenSeq(list), mark[1])
           /\ mark[1] + Len(FlattenSeq(list)) = mark[Len(list) + 1]
<1>n. PICK n \in Nat : n = Len(list)
  OBVIOUS
<1>l. \A k \in 1 .. n : list[k] \in Seq(Nat) /\ Len(list[k]) \in Nat
  BY <1>n
<1>m. mark[1] \in Nat /\ \A k \in Nat : mark[k] \in Nat
  OBVIOUS
<1>r. \A k \in 1 .. n : Continues(list[k], mark[k]) /\ mark[k + 1] = mark[k] + Len(list[k])
  BY <1>n DEF InARow
<1>1. CASE n = 0
  <2>1. list = <<>> /\ FlattenSeq(list) = <<>>
    BY <1>1, <1>n DEF FlattenSeq
  <2>2. Len(FlattenSeq(list)) = 0 /\ FlattenSeq(list) \in Seq(Nat)
    <3>1. FlattenSeq(list) = <<>>
      BY <2>1
    <3> QED BY <3>1
  <2>3. mark[Len(list) + 1] = mark[1]
    BY <1>1, <1>n
  <2> QED BY <1>m, <2>2, <2>3 DEF Continues
<1>2. CASE n # 0
  <2> DEFINE Onward(f) == [k \in 1 .. n |-> IF k = 1 THEN list[k] ELSE f[k - 1] \o list[k]]
             Joined(k, s) == s \in Seq(Nat) /\ Continues(s, mark[1])
                             /\ mark[1] + Len(s) = mark[k + 1]
  <2>1. ASSUME NEW f, f = Onward(f), NEW k \in 1 .. n PROVE Joined(k, f[k])
    <3> DEFINE Odd == {j \in 1 .. n : ~Joined(j, f[j])}
    <3> SUFFICES ASSUME Odd # {} PROVE FALSE
      OBVIOUS
    <3>1. PICK j \in Odd : \A i \in Odd : j <= i
      <4>1. Odd \in SUBSET Nat
        OBVIOUS
      <4> HIDE DEF Odd
      <4> QED BY <4>1, LeastPiece
    <3>2. j \in 1 .. n /\ ~Joined(j, f[j]) /\ \A i \in 1 .. n : i < j => Joined(i, f[i])
      <4>1. \A i \in 1 .. n : ~Joined(i, f[i]) => j <= i
        BY <3>1
      <4> HIDE DEF Joined
      <4> QED BY <3>1, <4>1
    <3>3. f[j] = IF j = 1 THEN list[j] ELSE f[j - 1] \o list[j]
      BY <2>1, <3>2
    <3> HIDE DEF Odd, Onward
    <3>4. /\ Continues(list[j], mark[j]) /\ mark[j + 1] = mark[j] + Len(list[j])
          /\ list[j] \in Seq(Nat) /\ Len(list[j]) \in Nat
      BY <1>l, <1>r, <3>2
    <3>5. CASE j = 1
      BY <3>2, <3>3, <3>4, <3>5
    <3>6. CASE j # 1
      <4>1. PICK i \in 1 .. n : j = i + 1
        <5>1. j - 1 \in 1 .. n /\ j = (j - 1) + 1
          BY <3>2, <3>6
        <5> QED BY <5>1
      <4>2. i < j /\ i = j - 1
        BY <4>1
      <4>3. Joined(i, f[i]) /\ f[j] = f[i] \o list[j]
        BY <3>2, <3>3, <3>6, <4>2
      <4>4. PICK s : s = f[i]
        OBVIOUS
      <4>5. s \in Seq(Nat) /\ Continues(s, mark[1]) /\ mark[1] + Len(s) = mark[j] /\ Len(s) \in Nat
        <5>1. s \in Seq(Nat) /\ Continues(s, mark[1]) /\ mark[1] + Len(s) = mark[i + 1]
          BY <4>3, <4>4
        <5>2. mark[i + 1] = mark[j]
          BY <4>1
        <5>3. Len(s) \in Nat
          BY <5>1
        <5> QED BY <5>1, <5>2, <5>3
      <4>6. /\ s \o list[j] \in Seq(Nat)
            /\ Continues(s \o list[j], mark[1])
            /\ Len(s \o list[j]) = Len(s) + Len(list[j])
        BY <1>m, <3>4, <4>5, ContinuesJoined
      <4>7. mark[1] + Len(s \o list[j]) = mark[j + 1]
        <5>1. PICK a \in Nat, b \in Nat, c \in Nat : a = mark[1] /\ b = mark[j] /\ c = mark[j + 1]
          BY <1>m, <3>2
        <5>2. PICK x \in Nat, y \in Nat, z \in Nat : x = Len(s) /\ y = Len(list[j]) /\ z = Len(s \o list[j])
          <6>1. Len(s) \in Nat /\ Len(list[j]) \in Nat
            BY <3>4, <4>5
          <6>2. Len(s \o list[j]) \in Nat
            BY <4>6, LenProperties
          <6> QED BY <6>1, <6>2
        <5>3. a + x = b /\ c = b + y /\ z = x + y
          BY <3>4, <4>5, <4>6, <5>1, <5>2
        <5>4. a + z = c
          BY <5>3
        <5> QED BY <5>1, <5>2, <5>4
      <4> QED BY <3>2, <4>3, <4>4, <4>6, <4>7
    <3> QED BY <3>5, <3>6
  <2>2. \E f : f = Onward(f)
    <3> DEFINE Whole(k) == [i \in 1 .. mark[k + 1] - mark[1] |-> mark[1] + i]
               g == [k \in 1 .. n |-> Whole(k)]
    <3>1. \A k \in 1 .. n : mark[1] <= mark[k]
      <4> DEFINE Low == {j \in 1 .. n : mark[j] < mark[1]}
      <4>1. CASE Low # {}
        <5>1. PICK j \in Low : \A i \in Low : j <= i
          <6>1. Low \in SUBSET Nat
            OBVIOUS
          <6> HIDE DEF Low
          <6> QED BY <4>1, <6>1, LeastPiece
        <5>2. /\ j \in 1 .. n /\ mark[j] < mark[1]
              /\ \A i \in 1 .. n : mark[i] < mark[1] => j <= i
          BY <5>1
        <5> HIDE DEF Low
        <5>3. j # 1
          BY <1>m, <5>2
        <5>4. PICK i \in 1 .. n : j = i + 1
          <6>1. j - 1 \in 1 .. n /\ j = (j - 1) + 1
            BY <5>2, <5>3
          <6> QED BY <6>1
        <5>5. mark[j] = mark[i] + Len(list[i]) /\ Len(list[i]) \in Nat /\ mark[i] \in Nat
          <6>1. mark[i + 1] = mark[i] + Len(list[i]) /\ Len(list[i]) \in Nat
            BY <1>l, <1>r
          <6>2. i \in Nat /\ mark[i + 1] = mark[j]
            BY <5>4
          <6> QED BY <1>m, <6>1, <6>2
        <5>6. ~ (mark[i] < mark[1])
          BY <5>2, <5>4
        <5>7. FALSE
          <6>1. PICK a \in Nat, b \in Nat, c \in Nat : a = mark[1] /\ b = mark[i] /\ c = mark[j]
            BY <1>m, <5>2, <5>5
          <6>2. PICK x \in Nat : x = Len(list[i])
            BY <5>5
          <6>3. c < a /\ c = b + x /\ ~ (b < a)
            BY <5>2, <5>5, <5>6, <6>1, <6>2
          <6> QED BY <6>3
        <5> QED BY <5>7
      <4>2. CASE Low = {}
        <5>1. \A k \in 1 .. n : ~ (mark[k] < mark[1])
          BY <4>2
        <5> HIDE DEF Low
        <5> QED BY <1>m, <5>1
      <4> QED BY <4>1, <4>2
    <3>2. ASSUME NEW k \in 1 .. n
          PROVE  Whole(k) = IF k = 1 THEN list[k] ELSE Whole(k - 1) \o list[k]
      <4>1. PICK a \in Nat, b \in Nat, c \in Nat : a = mark[1] /\ b = mark[k] /\ c = mark[k + 1]
        <5>1. k \in Nat /\ k + 1 \in Nat
          OBVIOUS
        <5>2. mark[1] \in Nat /\ mark[k] \in Nat /\ mark[k + 1] \in Nat
          BY <1>m, <5>1
        <5> QED BY <5>2
      <4>2. PICK t \in Seq(Nat) : t = list[k]
        BY <1>l
      <4>3. Continues(t, b) /\ c = b + Len(t) /\ Len(t) \in Nat /\ a <= b
        <5>1. Continues(list[k], mark[k]) /\ mark[k + 1] = mark[k] + Len(list[k])
          BY <1>r
        <5>2. Len(t) \in Nat /\ mark[1] <= mark[k]
          BY <3>1
        <5> QED BY <4>1, <4>2, <5>1, <5>2
      <4>4. Whole(k) = [i \in 1 .. c - a |-> a + i]
        BY <4>1
      <4>5. CASE k = 1
        <5>1. t = [i \in 1 .. Len(t) |-> t[i]]
          OBVIOUS
        <5>2. a = b /\ c - a = Len(t)
          <6>1. a = b
            BY <4>1, <4>5
          <6> QED BY <4>3, <6>1
        <5>3. t = [i \in 1 .. c - a |-> a + i]
          BY <4>3, <5>1, <5>2 DEF Continues
        <5> QED BY <4>2, <4>4, <4>5, <5>3
      <4>6. CASE k # 1
        <5>1. PICK s : s = [i \in 1 .. b - a |-> a + i]
          OBVIOUS
        <5>2. s = Whole(k - 1)
          <6>1. (k - 1) + 1 = k
            OBVIOUS
          <6> QED BY <4>1, <5>1, <6>1
        <5>3. b - a \in Nat
          BY <4>3
        <5>4. s \in Seq(Nat) /\ Len(s) = b - a
          BY <5>1, <5>3
        <5>5. Continues(s, a) /\ Continues(t, a + Len(s))
          BY <4>3, <5>1, <5>4 DEF Continues
        <5>6. /\ s \o t \in Seq(Nat) /\ Continues(s \o t, a)
              /\ Len(s \o t) = Len(s) + Len(t)
          BY <5>4, <5>5, ContinuesJoined
        <5>7. Len(s \o t) = c - a
          BY <4>3, <5>4, <5>6
        <5>8. s \o t = [i \in 1 .. Len(s \o t) |-> (s \o t)[i]]
          <6>1. PICK u \in Seq(Nat) : u = s \o t
            BY <5>6
          <6>2. u = [i \in 1 .. Len(u) |-> u[i]]
            OBVIOUS
          <6> QED BY <6>1, <6>2
        <5>9. s \o t = [i \in 1 .. c - a |-> a + i]
          BY <5>6, <5>7, <5>8 DEF Continues
        <5> HIDE DEF Whole
        <5> QED BY <4>2, <4>4, <4>6, <5>2, <5>9
      <4> QED BY <4>5, <4>6
    <3> HIDE DEF Whole
    <3>3. ASSUME NEW k \in 1 .. n, k # 1 PROVE g[k - 1] = Whole(k - 1)
      <4>1. k - 1 \in 1 .. n
        BY <1>n, <3>3
      <4> QED BY <4>1
    <3>4. \A k \in 1 .. n : g[k] = IF k = 1 THEN list[k] ELSE g[k - 1] \o list[k]
      BY <3>2, <3>3
    <3>5. g = Onward(g)
      BY <3>4
    <3> QED BY <3>5
  <2>3. PICK f : f = Onward(f) /\ FlattenSeq(list) = f[n]
    <3> DEFINE f == CHOOSE h : h = Onward(h)
    <3>1. f = Onward(f)
      BY <2>2
    <3>2. FlattenSeq(list) = f[n]
      BY <1>2, <1>n DEF FlattenSeq
    <3> QED BY <3>1, <3>2
  <2>4. n \in 1 .. n
    BY <1>n, <1>2
  <2>5. Joined(n, f[n])
    BY <2>1, <2>3, <2>4
  <2> QED BY <1>n, <2>3, <2>5
<1> QED BY <1>1, <1>2

\* One more chunk at the end of the channel.
LEMMA OneMoreInARow ==
    ASSUME NEW list \in Seq(Seq(Nat)), NEW mark \in [Nat -> Nat], InARow(list, mark),
           NEW chunk \in Seq(Nat), Continues(chunk, mark[Len(list) + 1])
    PROVE  \E m \in [Nat -> Nat] :
               /\ m[1] = mark[1]
               /\ InARow(Append(list, chunk), m)
               /\ m[Len(Append(list, chunk)) + 1] = mark[Len(list) + 1] + Len(chunk)
<1>1. PICK n \in Nat : n = Len(list)
  OBVIOUS
<1>2. PICK end \in Nat : end = mark[n + 1]
  BY <1>1
<1>3. PICK size \in Nat : size = Len(chunk)
  OBVIOUS
<1> DEFINE m == [k \in Nat |-> IF k = n + 2 THEN end + size ELSE mark[k]]
<1>4. m \in [Nat -> Nat] /\ m[n + 2] = end + size /\ \A k \in 1 .. n + 1 : m[k] = mark[k]
  <2>1. \A k \in Nat : mark[k] \in Nat
    OBVIOUS
  <2>2. end + size \in Nat /\ n + 2 \in Nat
    OBVIOUS
  <2>3. m \in [Nat -> Nat]
    BY <2>1, <2>2
  <2>4. \A k \in 1 .. n + 1 : k \in Nat /\ k # n + 2
    OBVIOUS
  <2> QED BY <2>2, <2>3, <2>4
<1> HIDE DEF m
<1>5. PICK longer : longer = Append(list, chunk)
  OBVIOUS
<1>6. Len(longer) = n + 1 /\ longer[n + 1] = chunk /\ \A k \in 1 .. n : longer[k] = list[k]
  BY <1>1, <1>5
<1>7. ASSUME NEW k \in 1 .. n + 1
      PROVE  Continues(longer[k], m[k]) /\ m[k + 1] = m[k] + Len(longer[k])
  <2>1. CASE k = n + 1
    <3>1. n + 1 \in 1 .. n + 1 /\ k + 1 = n + 2
      BY <2>1
    <3>2. longer[k] = chunk /\ m[k] = end /\ m[k + 1] = end + size
      BY <1>2, <1>4, <1>6, <2>1, <3>1
    <3>3. Continues(chunk, end)
      BY <1>1, <1>2
    <3> QED BY <1>3, <3>2, <3>3
  <2>2. CASE k # n + 1
    <3>1. k \in 1 .. n /\ k + 1 \in 1 .. n + 1
      BY <2>2
    <3>2. longer[k] = list[k] /\ m[k] = mark[k] /\ m[k + 1] = mark[k + 1]
      BY <1>4, <1>6, <3>1
    <3>3. Continues(list[k], mark[k]) /\ mark[k + 1] = mark[k] + Len(list[k])
      BY <1>1, <3>1 DEF InARow
    <3> QED BY <3>2, <3>3
  <2> QED BY <2>1, <2>2
<1>8. InARow(longer, m)
  BY <1>6, <1>7 DEF InARow
<1>9. m[1] = mark[1]
  BY <1>4
<1>10. m[Len(longer) + 1] = mark[Len(list) + 1] + Len(chunk)
  <2>1. Len(longer) + 1 = n + 2
    BY <1>6
  <2> QED BY <1>1, <1>2, <1>3, <1>4, <2>1
<1> QED BY <1>4, <1>5, <1>8, <1>9, <1>10

\* The first chunk of the channel taken out.
LEMMA OneLessInARow ==
    ASSUME NEW list \in Seq(Seq(Nat)), NEW mark \in [Nat -> Nat], InARow(list, mark),
           list # <<>>
    PROVE  /\ Head(list) \in Seq(Nat) /\ Continues(Head(list), mark[1])
           /\ \E m \in [Nat -> Nat] :
                  /\ m[1] = mark[1] + Len(Head(list))
                  /\ InARow(Tail(list), m)
                  /\ m[Len(Tail(list)) + 1] = mark[Len(list) + 1]
<1>1. PICK n \in Nat : n + 1 = Len(list)
  <2>1. Len(list) - 1 \in Nat /\ (Len(list) - 1) + 1 = Len(list)
    OBVIOUS
  <2> QED BY <2>1
<1>2. PICK rest : rest = Tail(list)
  OBVIOUS
<1>3. Head(list) = list[1] /\ Len(rest) = n /\ \A k \in 1 .. n : rest[k] = list[k + 1]
  BY <1>1, <1>2
<1>4. \A k \in 1 .. n + 1 : Continues(list[k], mark[k]) /\ mark[k + 1] = mark[k] + Len(list[k])
  BY <1>1 DEF InARow
<1> DEFINE m == [k \in Nat |-> mark[k + 1]]
<1>5. m \in [Nat -> Nat] /\ \A k \in Nat : m[k] = mark[k + 1]
  OBVIOUS
<1> HIDE DEF m
<1>6. ASSUME NEW k \in 1 .. n
      PROVE  Continues(rest[k], m[k]) /\ m[k + 1] = m[k] + Len(rest[k])
  <2>1. k + 1 \in 1 .. n + 1 /\ k \in Nat /\ k + 1 \in Nat
    OBVIOUS
  <2>2. Continues(list[k + 1], mark[k + 1]) /\ mark[(k + 1) + 1] = mark[k + 1] + Len(list[k + 1])
    BY <1>4, <2>1
  <2>3. rest[k] = list[k + 1] /\ m[k] = mark[k + 1] /\ m[k + 1] = mark[(k + 1) + 1]
    BY <1>3, <1>5, <2>1
  <2> QED BY <2>2, <2>3
<1>7. InARow(rest, m)
  BY <1>3, <1>6 DEF InARow
<1>8. 1 \in 1 .. n + 1 /\ 1 + 1 = 2
  OBVIOUS
<1>9. Continues(list[1], mark[1]) /\ m[1] = mark[1] + Len(list[1])
  BY <1>4, <1>5, <1>8
<1>10. m[Len(rest) + 1] = mark[Len(list) + 1]
  <2>1. m[n + 1] = mark[(n + 1) + 1]
    <3>1. n + 1 \in Nat
      OBVIOUS
    <3> QED BY <1>5, <3>1
  <2>2. Len(rest) + 1 = n + 1 /\ Len(list) + 1 = (n + 1) + 1
    BY <1>1, <1>3
  <2> QED BY <2>1, <2>2
<1>11. Head(list) \in Seq(Nat)
  OBVIOUS
<1> QED BY <1>2, <1>3, <1>5, <1>7, <1>9, <1>10, <1>11

(***************************************************************************)
(* The inductive invariant.                                                *)
(***************************************************************************)

\* Types, by the pieces each place can hold.
InputTyped ==
    /\ alive \in BOOLEAN /\ owed \in BOOLEAN /\ waiting \in BOOLEAN /\ compiling \in BOOLEAN
    /\ interrupted \in BOOLEAN
    /\ sent \in 0 .. MaxPiece
    /\ taken \in Seq(Pieces) /\ pending \in Seq(Pieces) /\ chunks \in Seq(Seq(Pieces))
    /\ carried \in Seq(Pieces) /\ pipe \in Seq(Pieces)
    /\ watcher \in {"reading", "carrying", "ended", "sending", "gone"}
    /\ serving \in {"reading", "receiving", "received", "working", "answering", "ended", "killed"}

\* What is on its way is the pieces in their order: mark[k] pieces were written
\* before the k-th chunk of the channel.
Marked(mark) ==
    /\ Continues(taken, 0) /\ Continues(pending, Len(taken))
    /\ mark[1] = Len(taken) + Len(pending)
    /\ InARow(chunks, mark)
    /\ Continues(carried, mark[Len(chunks) + 1])
    /\ Continues(pipe, mark[Len(chunks) + 1] + Len(carried))
    /\ sent = mark[Len(chunks) + 1] + Len(carried) + Len(pipe)
InOrder == \E mark \in [Nat -> Nat] : Marked(mark)

\* The reading thread carries a chunk only between reading and sending it, the
\* serving thread waits for one only when it has none, the end is seen only of
\* a client that has gone, and a compiler runs only for a request in work.
ThreadsAgree ==
    /\ watcher # "carrying" => carried = <<>>
    /\ serving = "receiving" => pending = <<>>
    /\ watcher \in {"ended", "sending", "gone"} => ~alive
    /\ compiling => serving = "working"
    /\ OnlyOrphansAreEnded

InputInv == InputTyped /\ InOrder /\ ThreadsAgree

\* The client has written all that is counted, and each piece is a number.
LEMMA PiecesAreNumbers ==
    /\ Seq(Pieces) \subseteq Seq(Nat) /\ Seq(Seq(Pieces)) \subseteq Seq(Seq(Nat))
    /\ Pieces \subseteq Nat /\ MaxPiece \in Nat
<1>1. Pieces \subseteq Nat /\ MaxPiece \in Nat
  BY InputAssumption DEF Pieces
<1>2. Seq(Pieces) \subseteq Seq(Nat)
  BY <1>1, SeqMonotonic
<1>3. Seq(Seq(Pieces)) \subseteq Seq(Seq(Nat))
  BY <1>2, SeqMonotonic
<1> QED BY <1>1, <1>2, <1>3

\* At first nothing is written and every mark is at the beginning.
LEMMA InputInvInit == InputInit => InputInv
<1> SUFFICES ASSUME InputInit PROVE InputInv
  OBVIOUS
<1>1. InputTyped
  <2>1. /\ taken \in Seq(Pieces) /\ pending \in Seq(Pieces) /\ chunks \in Seq(Seq(Pieces))
        /\ carried \in Seq(Pieces) /\ pipe \in Seq(Pieces)
    BY EmptySeq DEF InputInit
  <2>2. sent \in 0 .. MaxPiece
    BY PiecesAreNumbers DEF InputInit
  <2> QED BY <2>1, <2>2 DEF InputInit, InputTyped
<1>2. InOrder
  <2> DEFINE none == [k \in Nat |-> 0]
  <2>1. none \in [Nat -> Nat] /\ none[1] = 0
    OBVIOUS
  <2>2. Len(chunks) = 0 /\ Len(taken) = 0 /\ Len(pending) = 0 /\ Len(carried) = 0 /\ Len(pipe) = 0
    BY DEF InputInit
  <2>3. InARow(chunks, none) /\ none[Len(chunks) + 1] = 0
    BY <2>2 DEF InARow
  <2>4. Continues(taken, 0) /\ Continues(pending, 0) /\ Continues(carried, 0) /\ Continues(pipe, 0)
    BY <2>2 DEF Continues
  <2>5. sent = 0
    BY DEF InputInit
  <2> HIDE DEF none
  <2> QED BY <2>1, <2>2, <2>3, <2>4, <2>5 DEF InOrder, Marked
<1>3. ThreadsAgree
  BY DEF InputInit, ThreadsAgree, OnlyOrphansAreEnded
<1> QED BY <1>1, <1>2, <1>3 DEF InputInv



\* Every action moves pieces from one place to the next.
LEMMA TypedStep == InputTyped /\ InOrder /\ [InputNext]_inputVars => InputTyped'
<1> SUFFICES ASSUME InputTyped, InOrder, [InputNext]_inputVars PROVE InputTyped'
  OBVIOUS
<1> USE DEF InputTyped
<1>1. CASE ClientWrites
  <2>1. sent + 1 \in Pieces /\ sent + 1 \in 0 .. MaxPiece
    BY <1>1, InputAssumption DEF ClientWrites, Pieces
  <2>2. pipe' \in Seq(Pieces)
    BY <1>1, <2>1 DEF ClientWrites
  <2> QED BY <1>1, <2>1, <2>2 DEF ClientWrites, watcherVars
<1>2. CASE ClientDisappears
  BY <1>2 DEF ClientDisappears, watcherVars
<1>3. CASE WatcherReads
  BY <1>3, EmptySeq DEF WatcherReads, inputClientVars
<1>4. CASE WatcherSends
  <2>1. chunks' \in Seq(Seq(Pieces)) /\ carried' \in Seq(Pieces)
    BY <1>4, EmptySeq DEF WatcherSends
  <2> QED BY <1>4, <2>1 DEF WatcherSends, inputClientVars
<1>5. CASE WatcherDecides
  BY <1>5 DEF WatcherDecides, EndGroup, inputClientVars
<1>6. CASE WatcherLeaves
  <2>1. chunks' \in Seq(Seq(Pieces))
    BY <1>6, EmptySeq DEF WatcherLeaves, End
  <2> QED BY <1>6, <2>1 DEF WatcherLeaves, inputClientVars
<1>7. CASE ReadWaits
  BY <1>7 DEF ReadWaits, inputClientVars, watcherVars
<1>8. CASE ReadReceives
  <2>1. chunks' \in Seq(Seq(Pieces)) /\ pending' \in Seq(Pieces)
    BY <1>8 DEF ReadReceives
  <2> QED BY <1>8, <2>1 DEF ReadReceives, inputClientVars, watcherVars
<1>9. CASE ReadContinues
  BY <1>9 DEF ReadContinues, NoLongerWaiting, inputClientVars, watcherVars
<1>10. CASE ReadTakes
  <2>1. taken' \in Seq(Pieces) /\ pending' \in Seq(Pieces)
    BY <1>10 DEF ReadTakes
  <2> QED BY <1>10, <2>1 DEF ReadTakes, inputClientVars, watcherVars
<1>11. CASE BackendCompiles \/ BackendReturns
  BY <1>11 DEF BackendCompiles, BackendReturns, inputClientVars, watcherVars
<1>12. CASE AnswersOrEnds
  BY <1>12 DEF AnswersOrEnds, watcherVars
<1>13. CASE UNCHANGED inputVars
  BY <1>13 DEF inputVars
<1> QED BY <1>1, <1>2, <1>3, <1>4, <1>5, <1>6, <1>7, <1>8, <1>9, <1>10, <1>11, <1>12, <1>13
        DEF InputNext, Watcher, Serving

\* The watcher and the serving thread keep agreeing on who waits.
LEMMA AgreementStep ==
    InputTyped /\ ThreadsAgree /\ [InputNext]_inputVars => ThreadsAgree'
<1> SUFFICES ASSUME InputTyped, ThreadsAgree, [InputNext]_inputVars PROVE ThreadsAgree'
  OBVIOUS
<1> USE DEF InputTyped, ThreadsAgree, OnlyOrphansAreEnded, HelperRuns
<1>1. CASE ClientWrites \/ ClientDisappears
  BY <1>1 DEF ClientWrites, ClientDisappears, watcherVars
<1>2. CASE Watcher
  BY <1>2 DEF Watcher, WatcherReads, WatcherSends, WatcherDecides, WatcherLeaves, EndGroup,
              Orphaned, inputClientVars
<1>3. CASE Serving
  <2>1. CASE ReadTakes
    <3>1. serving' \in {"working", "reading"} /\ serving = "reading"
      BY <2>1 DEF ReadTakes
    <3>2. ~compiling /\ UNCHANGED <<inputClientVars, watcherVars, waiting, compiling>>
      BY <2>1, <3>1 DEF ReadTakes
    <3> QED BY <3>1, <3>2 DEF inputClientVars, watcherVars
  <2>2. CASE ReadWaits \/ ReadReceives
    BY <2>2 DEF ReadWaits, NothingPending, ReadReceives, inputClientVars, watcherVars
  <2>3. CASE ReadContinues
    BY <2>3 DEF ReadContinues, NoLongerWaiting, inputClientVars, watcherVars
  <2>4. CASE AnswersOrEnds
    BY <2>4 DEF AnswersOrEnds, watcherVars
  <2> QED BY <1>3, <2>1, <2>2, <2>3, <2>4 DEF Serving
<1>4. CASE BackendCompiles \/ BackendReturns
  BY <1>4 DEF BackendCompiles, BackendReturns, inputClientVars, watcherVars
<1>5. CASE UNCHANGED inputVars
  BY <1>5 DEF inputVars
<1> QED BY <1>1, <1>2, <1>3, <1>4, <1>5 DEF InputNext

\* Lengths, and sequences of pieces as sequences of numbers.
LEMMA TypedAsNumbers ==
    ASSUME InputTyped
    PROVE  /\ taken \in Seq(Nat) /\ pending \in Seq(Nat) /\ carried \in Seq(Nat)
           /\ pipe \in Seq(Nat) /\ chunks \in Seq(Seq(Nat)) /\ sent \in Nat
           /\ Len(taken) \in Nat /\ Len(pending) \in Nat /\ Len(carried) \in Nat
           /\ Len(pipe) \in Nat /\ Len(chunks) \in Nat
<1>1. /\ taken \in Seq(Nat) /\ pending \in Seq(Nat) /\ carried \in Seq(Nat)
      /\ pipe \in Seq(Nat) /\ chunks \in Seq(Seq(Nat))
  BY PiecesAreNumbers DEF InputTyped
<1>2. sent \in Nat
  BY PiecesAreNumbers DEF InputTyped
<1> QED BY <1>1, <1>2

\* The client writes the next piece.
LEMMA WrittenInOrder ==
    ASSUME InputTyped, NEW mark \in [Nat -> Nat], Marked(mark), ClientWrites
    PROVE  Marked(mark)'
<1>1. PICK after \in Nat : after = mark[Len(chunks) + 1] + Len(carried)
  BY TypedAsNumbers
<1>2. sent = after + Len(pipe) /\ Continues(pipe, after)
  BY <1>1 DEF Marked
<1>3. Continues(pipe', after) /\ Len(pipe') = Len(pipe) + 1
  BY <1>2, TypedAsNumbers, ContinuesAppended DEF ClientWrites
<1>4. sent' = after + Len(pipe')
  BY <1>1, <1>2, <1>3, TypedAsNumbers DEF ClientWrites
<1>5. UNCHANGED <<taken, pending, chunks, carried>>
  BY DEF ClientWrites, watcherVars
<1> QED BY <1>1, <1>3, <1>4, <1>5 DEF Marked

\* The pipe is emptied into the reading thread.
LEMMA ReadInOrder ==
    ASSUME InputTyped, ThreadsAgree, NEW mark \in [Nat -> Nat], Marked(mark), WatcherReads
    PROVE  Marked(mark)'
<1>1. UNCHANGED <<taken, pending, chunks, sent>>
  BY DEF WatcherReads, inputClientVars
<1>2. CASE pipe # <<>>
  <2>1. PICK after \in Nat : after = mark[Len(chunks) + 1]
    BY TypedAsNumbers
  <2>2. carried = <<>> /\ carried' = pipe /\ pipe' = <<>>
    BY <1>2 DEF WatcherReads, ThreadsAgree
  <2>3. Len(carried) = 0 /\ Len(pipe') = 0 /\ Len(carried') = Len(pipe) /\ Continues(pipe', after + Len(pipe))
    BY <2>2 DEF Continues
  <2>4. Continues(pipe, after) /\ sent = after + Len(pipe)
    BY <2>1, <2>3, TypedAsNumbers DEF Marked
  <2>5. Continues(carried', after) /\ sent' = after + Len(carried') + Len(pipe')
    BY <1>1, <2>2, <2>3, <2>4, TypedAsNumbers
  <2> QED BY <1>1, <2>1, <2>2, <2>3, <2>5 DEF Marked
<1>3. CASE pipe = <<>>
  <2>1. UNCHANGED <<carried, pipe>>
    BY <1>3 DEF WatcherReads
  <2> QED BY <1>1, <2>1 DEF Marked
<1> QED BY <1>2, <1>3

\* A chunk is put in the channel, or the empty one that is the end.
LEMMA PassedInOrder ==
    ASSUME InputTyped, NEW mark \in [Nat -> Nat], Marked(mark), WatcherSends \/ WatcherLeaves
    PROVE  InOrder'
<1>1. PICK chunk \in Seq(Nat), left \in Seq(Nat) :
        /\ chunks' = Append(chunks, chunk) /\ carried' = left
        /\ \/ chunk = carried /\ left = <<>>
           \/ chunk = <<>> /\ left = carried
  <2>1. carried \in Seq(Nat) /\ <<>> \in Seq(Nat)
    BY TypedAsNumbers, EmptySeq
  <2> QED BY <2>1 DEF WatcherSends, WatcherLeaves, End
<1>2. UNCHANGED <<taken, pending, pipe, sent>>
  BY DEF WatcherSends, WatcherLeaves, inputClientVars
<1>3. PICK end \in Nat : end = mark[Len(chunks) + 1]
  BY TypedAsNumbers
<1>4. PICK size \in Nat, more \in Nat : size = Len(chunk) /\ more = Len(left)
  OBVIOUS
<1>5. Continues(carried, end) /\ Continues(pipe, end + Len(carried))
      /\ sent = end + Len(carried) + Len(pipe)
  BY <1>3 DEF Marked
<1>6. Len(carried) = size + more /\ Continues(chunk, end) /\ Continues(left, end + size)
  <2>1. CASE chunk = carried /\ left = <<>>
    BY <1>4, <1>5, <2>1 DEF Continues
  <2>2. CASE chunk = <<>> /\ left = carried
    BY <1>4, <1>5, <2>2 DEF Continues
  <2> QED BY <1>1, <2>1, <2>2
<1>7. PICK m \in [Nat -> Nat] :
        /\ m[1] = mark[1] /\ InARow(chunks', m) /\ m[Len(chunks') + 1] = end + size
  <2>1. chunks \in Seq(Seq(Nat)) /\ InARow(chunks, mark) /\ Continues(chunk, mark[Len(chunks) + 1])
    BY <1>3, <1>6, TypedAsNumbers DEF Marked
  <2> QED BY <1>1, <1>3, <1>4, <2>1, OneMoreInARow
<1>8. /\ Continues(carried', end + size) /\ end + Len(carried) = (end + size) + Len(carried')
      /\ Continues(taken, 0) /\ Continues(pending, Len(taken))
      /\ mark[1] = Len(taken) + Len(pending)
  <2>1. end + Len(carried) = (end + size) + more
    BY <1>6
  <2> QED BY <1>1, <1>4, <1>6, <2>1 DEF Marked
<1>9. Marked(m)'
  BY <1>2, <1>5, <1>7, <1>8 DEF Marked
<1> QED BY <1>9 DEF InOrder

\* The serving thread takes a chunk out when it has none.
LEMMA ReceivedInOrder ==
    ASSUME InputTyped, ThreadsAgree, NEW mark \in [Nat -> Nat], Marked(mark), ReadReceives
    PROVE  InOrder'
<1>1. UNCHANGED <<taken, carried, pipe, sent>> /\ pending = <<>>
  BY DEF ReadReceives, inputClientVars, watcherVars, ThreadsAgree
<1>2. /\ pending' = Head(chunks) /\ chunks' = Tail(chunks) /\ chunks # <<>>
      /\ chunks \in Seq(Seq(Nat)) /\ InARow(chunks, mark)
  BY TypedAsNumbers DEF ReadReceives, Marked
<1>3. pending' \in Seq(Nat) /\ Continues(pending', mark[1])
  BY <1>2, OneLessInARow
<1>4. PICK m \in [Nat -> Nat] :
        /\ m[1] = mark[1] + Len(pending') /\ InARow(chunks', m)
        /\ m[Len(chunks') + 1] = mark[Len(chunks) + 1]
  BY <1>2, OneLessInARow
<1>5. mark[1] = Len(taken)
  BY <1>1, TypedAsNumbers DEF Marked
<1>6. Marked(m)'
  BY <1>1, <1>3, <1>4, <1>5 DEF Marked
<1> QED BY <1>6 DEF InOrder

\* The serving thread takes the next piece.
LEMMA TakenInOrder ==
    ASSUME InputTyped, NEW mark \in [Nat -> Nat], Marked(mark), ReadTakes
    PROVE  Marked(mark)'
<1>1. UNCHANGED <<chunks, carried, pipe, sent>>
  BY DEF ReadTakes, inputClientVars, watcherVars
<1>2. PICK n \in Nat : n = Len(taken)
  BY TypedAsNumbers
<1>3. /\ Head(pending) = n + 1 /\ Continues(pending', n + 1)
      /\ Len(pending') = Len(pending) - 1 /\ Len(pending) \in Nat \ {0}
  <2>1. pending \in Seq(Nat) /\ pending # <<>> /\ Continues(pending, n)
    BY <1>2, TypedAsNumbers DEF ReadTakes, Marked
  <2> QED BY <2>1, ContinuesTaken DEF ReadTakes
<1>4. Continues(taken', 0) /\ Len(taken') = n + 1
  <2>1. taken \in Seq(Nat) /\ Continues(taken, 0) /\ taken' = Append(taken, 0 + Len(taken) + 1)
    BY <1>2, <1>3, TypedAsNumbers DEF ReadTakes, Marked
  <2> QED BY <1>2, <2>1, ContinuesAppended
<1>5. n + Len(pending) = (n + 1) + Len(pending')
  BY <1>3
<1> QED BY <1>1, <1>2, <1>3, <1>4, <1>5 DEF Marked

\* Every step hands pieces on from one run to the next in order.
LEMMA OrderStep ==
    InputTyped /\ ThreadsAgree /\ InOrder /\ [InputNext]_inputVars => InOrder'
<1> SUFFICES ASSUME InputTyped, ThreadsAgree, InOrder, [InputNext]_inputVars PROVE InOrder'
  OBVIOUS
<1> PICK mark \in [Nat -> Nat] : Marked(mark)
  BY DEF InOrder
<1>1. CASE ClientWrites
  BY <1>1, WrittenInOrder DEF InOrder
<1>2. CASE WatcherReads
  BY <1>2, ReadInOrder DEF InOrder
<1>3. CASE WatcherSends \/ WatcherLeaves
  BY <1>3, PassedInOrder
<1>4. CASE ReadReceives
  BY <1>4, ReceivedInOrder
<1>5. CASE ReadTakes
  BY <1>5, TakenInOrder DEF InOrder
<1>6. ASSUME UNCHANGED <<taken, pending, chunks, carried, pipe, sent>> PROVE InOrder'
  <2>1. Marked(mark)'
    BY <1>6 DEF Marked
  <2> QED BY <2>1 DEF InOrder
<1>7. CASE ClientDisappears
  BY <1>6, <1>7 DEF ClientDisappears, watcherVars
<1>8. CASE WatcherDecides
  BY <1>6, <1>8 DEF WatcherDecides, inputClientVars
<1>9. CASE ReadWaits \/ ReadContinues
  BY <1>6, <1>9 DEF ReadWaits, ReadContinues, inputClientVars, watcherVars
<1>10. CASE AnswersOrEnds
  BY <1>6, <1>10 DEF AnswersOrEnds, watcherVars
<1>11. CASE BackendCompiles \/ BackendReturns
  BY <1>6, <1>11 DEF BackendCompiles, BackendReturns, inputClientVars, watcherVars
<1>12. CASE UNCHANGED inputVars
  BY <1>6, <1>12 DEF inputVars
<1> QED BY <1>1, <1>2, <1>3, <1>4, <1>5, <1>7, <1>8, <1>9, <1>10, <1>11, <1>12
        DEF InputNext, Watcher, Serving

\* Consecutive runs are one: nothing is lost, repeated or moved.
LEMMA InOrderIsWhole == InputTyped /\ InOrder => ReadsWhatWasWritten
<1> SUFFICES ASSUME InputTyped, InOrder PROVE ReadsWhatWasWritten
  OBVIOUS
<1>1. PICK mark \in [Nat -> Nat] : Marked(mark)
  BY DEF InOrder
<1>2. PICK flat : flat = FlattenSeq(chunks)
  OBVIOUS
<1>3. /\ flat \in Seq(Nat) /\ Continues(flat, mark[1])
      /\ mark[1] + Len(flat) = mark[Len(chunks) + 1]
  BY <1>1, <1>2, TypedAsNumbers, FlattenedContinues DEF Marked
<1>4. PICK a : a = taken \o pending
  OBVIOUS
<1>5. a \in Seq(Nat) /\ Continues(a, 0) /\ Len(a) = mark[1]
  <2>1. Continues(taken, 0) /\ Continues(pending, 0 + Len(taken))
    BY <1>1, TypedAsNumbers DEF Marked
  <2>2. mark[1] = Len(taken) + Len(pending)
    BY <1>1 DEF Marked
  <2> QED BY <1>4, <2>1, <2>2, TypedAsNumbers, ContinuesJoined
<1>6. PICK b : b = a \o flat
  OBVIOUS
<1>7. b \in Seq(Nat) /\ Continues(b, 0) /\ Len(b) = mark[Len(chunks) + 1]
  <2>1. Continues(flat, 0 + Len(a)) /\ 0 \in Nat
    BY <1>3, <1>5
  <2>2. b \in Seq(Nat) /\ Continues(b, 0) /\ Len(b) = Len(a) + Len(flat)
    BY <1>3, <1>5, <1>6, <2>1, ContinuesJoined
  <2> QED BY <1>3, <1>5, <2>2
<1>8. PICK c : c = b \o carried
  OBVIOUS
<1>9. c \in Seq(Nat) /\ Continues(c, 0) /\ Len(c) = mark[Len(chunks) + 1] + Len(carried)
  <2>1. Continues(carried, mark[Len(chunks) + 1])
    BY <1>1 DEF Marked
  <2>2. Continues(carried, 0 + Len(b)) /\ 0 \in Nat
    BY <1>7, <2>1
  <2> QED BY <1>7, <1>8, <2>2, TypedAsNumbers, ContinuesJoined
<1>10. PICK d : d = c \o pipe
  OBVIOUS
<1>11. d \in Seq(Nat) /\ Continues(d, 0) /\ Len(d) = sent
  <2>1. /\ Continues(pipe, mark[Len(chunks) + 1] + Len(carried))
        /\ sent = mark[Len(chunks) + 1] + Len(carried) + Len(pipe)
    BY <1>1 DEF Marked
  <2>2. Continues(pipe, 0 + Len(c)) /\ 0 \in Nat
    BY <1>9, <2>1
  <2>3. d \in Seq(Nat) /\ Continues(d, 0) /\ Len(d) = Len(c) + Len(pipe)
    BY <1>9, <1>10, <2>2, TypedAsNumbers, ContinuesJoined
  <2> QED BY <1>9, <2>1, <2>3
<1>12. PICK n \in Nat : n = sent
  BY TypedAsNumbers
<1>13. d = [i \in 1 .. n |-> i]
  <2>1. PICK e \in Seq(Nat) : e = d
    BY <1>11
  <2>2. e = [i \in 1 .. Len(e) |-> e[i]]
    OBVIOUS
  <2>3. \A i \in 1 .. n : e[i] = 0 + i
    BY <1>11, <1>12, <2>1 DEF Continues
  <2>4. Len(e) = n
    BY <1>11, <1>12, <2>1
  <2> QED BY <2>1, <2>2, <2>3, <2>4
<1> QED BY <1>2, <1>4, <1>6, <1>8, <1>10, <1>12, <1>13 DEF ReadsWhatWasWritten

\* InputInv holds in every behaviour.
LEMMA InputInvariant == InputSpec => []InputInv
<1>1. InputInv /\ [InputNext]_inputVars => InputInv'
  BY TypedStep, OrderStep, AgreementStep DEF InputInv
<1> QED BY <1>1, InputInvInit, PTL DEF InputSpec

\* However the client's pieces are cut into chunks and however the two threads
\* take turns: no byte of a request is lost, repeated or moved, only the work of
\* a client that has disappeared is ended, and with all its compilers
\* (server.rs, GuardedInput).
THEOREM InputSound == InputSpec => []InputIsSound
<1>1. InputInv => InputIsSound
  <2> SUFFICES ASSUME InputInv PROVE InputIsSound
    OBVIOUS
  <2>1. InputTypeOK
    <3>1. ASSUME NEW s \in Seq(Pieces) PROVE ToSet(s) \subseteq Pieces
      BY DEF ToSet
    <3>2. \A c \in ToSet(chunks) : c \in Seq(Pieces)
      BY DEF InputInv, InputTyped, ToSet
    <3>3. /\ ToSet(pipe) \subseteq Pieces /\ ToSet(carried) \subseteq Pieces
          /\ ToSet(pending) \subseteq Pieces /\ ToSet(taken) \subseteq Pieces
      BY <3>1 DEF InputInv, InputTyped
    <3>4. \A c \in ToSet(chunks) : ToSet(c) \subseteq Pieces
      BY <3>1, <3>2
    <3> HIDE DEF Pieces
    <3> QED BY <3>3, <3>4 DEF InputTypeOK, InputInv, InputTyped
  <2>2. ReadsWhatWasWritten
    BY InOrderIsWhole DEF InputInv
  <2>3. OnlyOrphansAreEnded /\ NoCompilerLeft
    BY DEF InputInv, InputTyped, ThreadsAgree, NoCompilerLeft, HelperRuns
  <2> QED BY <2>1, <2>2, <2>3 DEF InputIsSound
<1> QED BY <1>1, InputInvariant, PTL

-----------------------------------------------------------------------------
(***************************************************************************)
(* Between client and helper.  First the sequences and the numbers of the    *)
(* model, then its types, then the parts of ConversationInv.                 *)
(***************************************************************************)

\* What appending does to a sequence.
LEMMA OnAppend ==
    ASSUME NEW S, NEW s \in Seq(S), NEW x \in S
    PROVE  /\ Append(s, x) \in Seq(S)
           /\ Len(Append(s, x)) = Len(s) + 1
           /\ ToSet(Append(s, x)) = ToSet(s) \cup {x}
           /\ Append(s, x) # <<>>
<1> DEFINE t == Append(s, x)
<1>1. t \in Seq(S) /\ Len(t) = Len(s) + 1 /\ Len(s) \in Nat /\ t # <<>>
  OBVIOUS
<1>2. t[Len(s) + 1] = x /\ \A i \in 1 .. Len(s) : t[i] = s[i]
  OBVIOUS
<1>3. DOMAIN t = 1 .. Len(s) + 1 /\ DOMAIN s = 1 .. Len(s)
  BY <1>1
<1>4. ToSet(t) = ToSet(s) \cup {x}
  <2>1. ASSUME NEW y \in ToSet(t) PROVE y \in ToSet(s) \cup {x}
    <3>1. PICK i \in 1 .. Len(s) + 1 : y = t[i]
      BY <1>3 DEF ToSet
    <3>2. i = Len(s) + 1 \/ i \in 1 .. Len(s)
      BY <1>1
    <3> QED BY <1>2, <1>3, <3>1, <3>2 DEF ToSet
  <2>2. ASSUME NEW y \in ToSet(s) PROVE y \in ToSet(t)
    <3>1. PICK i \in 1 .. Len(s) : y = s[i]
      BY <1>3 DEF ToSet
    <3>2. i \in 1 .. Len(s) + 1
      BY <1>1
    <3> QED BY <1>2, <1>3, <3>1, <3>2 DEF ToSet
  <2>3. x \in ToSet(t)
    <3>1. Len(s) + 1 \in 1 .. Len(s) + 1
      BY <1>1
    <3> QED BY <1>2, <1>3, <3>1 DEF ToSet
  <2> QED BY <2>1, <2>2, <2>3
<1> QED BY <1>1, <1>4

\* What taking the first element does to a sequence.
LEMMA OnTail ==
    ASSUME NEW S, NEW s \in Seq(S), s # <<>>
    PROVE  /\ Head(s) \in S /\ Head(s) \in ToSet(s)
           /\ Tail(s) \in Seq(S)
           /\ Len(Tail(s)) = Len(s) - 1
           /\ Len(s) \in Nat \ {0}
           /\ ToSet(Tail(s)) \subseteq ToSet(s)
<1>1. Head(s) \in S /\ Tail(s) \in Seq(S) /\ Len(Tail(s)) = Len(s) - 1 /\ Len(s) \in Nat \ {0}
  OBVIOUS
<1>2. Head(s) = s[1] /\ \A i \in 1 .. Len(s) - 1 : Tail(s)[i] = s[i + 1]
  OBVIOUS
<1>3. DOMAIN s = 1 .. Len(s) /\ DOMAIN Tail(s) = 1 .. Len(s) - 1
  BY <1>1
<1>4. 1 \in DOMAIN s /\ \A i \in DOMAIN Tail(s) : i + 1 \in DOMAIN s
  BY <1>1, <1>3
<1> QED BY <1>1, <1>2, <1>3, <1>4 DEF ToSet

\* A sequence is empty exactly if it has no length; its elements are in its set.
LEMMA OnLength ==
    ASSUME NEW S, NEW s \in Seq(S)
    PROVE  /\ Len(s) \in Nat
           /\ Len(s) = 0 <=> s = <<>>
           /\ ToSet(s) \subseteq S
           /\ \A i \in 1 .. Len(s) : s[i] \in ToSet(s)
<1>1. DOMAIN s = 1 .. Len(s)
  OBVIOUS
<1> QED BY <1>1 DEF ToSet

\* The empty sequence.
LEMMA OnEmpty ==
    /\ Len(<<>>) = 0
    /\ ToSet(<<>>) = {}
    /\ \A S : <<>> \in Seq(S)
BY EmptySeq DEF ToSet

\* A sequence of two, as a frame is of its chunks.
LEMMA OnPair ==
    ASSUME NEW S, NEW x \in S, NEW y \in S
    PROVE  /\ <<x, y>> \in Seq(S) /\ Len(<<x, y>>) = 2 /\ ToSet(<<x, y>>) = {x, y}
           /\ <<x, y>> # <<>>
BY DEF ToSet

\* A sequence of one.
LEMMA OnOne ==
    ASSUME NEW S, NEW x \in S
    PROVE  <<x>> \in Seq(S) /\ Len(<<x>>) = 1 /\ Head(<<x>>) = x /\ <<x>> # <<>>
OBVIOUS

(***************************************************************************)
(* The inductive invariant.                                                *)
(***************************************************************************)

ToChunk == [of : Ids, part : 0 .. 3]
FromChunk == [of : Response, part : 1 .. 2]
Received == Response \cup {FrameError}

\* Types, by the ids each place can hold.
ClientTyped ==
    /\ client \in {"idle", "sending", "receiving", "reaping", "killing", "dropping", "gone"}
    /\ asked \in Ids \cup {NoId} /\ got \in Ids \cup {NoId}
    /\ closing \in BOOLEAN /\ patient \in BOOLEAN /\ expired \in BOOLEAN
    /\ nextId \in 0 .. MaxId + 1
    /\ result \in [id : Ids \cup {NoId}, what : Kept \cup Broken \cup {"poisoned", "none"}]
ThreadsTyped ==
    /\ queue \in Seq(Ids) /\ Len(queue) <= 1
    /\ outcome \in {"none", "written", "failed", "too large"}
    /\ writer \in [at : {"idle", "writing", "gone"}, id : Ids \cup {NoId}, left : 0 .. 2]
    /\ writer.at = "writing" => writer.id \in Ids
    /\ reader \in [at : {"reading", "sending", "gone"}, have : Seq(FromChunk)]
    /\ reader.at = "reading" => Len(reader.have) < 2
    /\ reader.at = "sending" => Len(reader.have) = 2
    /\ reader.at = "gone" => reader.have = <<>>
    /\ answers \in Seq(Received) /\ Len(answers) <= AnswerCap
PipesTyped ==
    /\ toHelper \in Seq(ToChunk) /\ Len(toHelper) <= PipeCap
    /\ toClient \in Seq(FromChunk) /\ Len(toClient) <= PipeCap
HelperTyped ==
    /\ helper \in {"reading", "working", "writing", "exited"}
    /\ request \in [id : Ids \cup {NoId}, parts : 0 .. 2]
    /\ request.parts > 0 => request.id \in Ids
    /\ helper = "reading" => request.parts < 2
    /\ helper = "working" => request.parts = 2
    /\ saying \in Seq(FromChunk) /\ Len(saying) <= 2
    /\ helper = "writing" => saying # <<>>
    /\ compiler \in BOOLEAN /\ lies \in 0 .. MaxLies
ProcessTyped ==
    /\ reaped \in BOOLEAN /\ stranger \in BOOLEAN
    /\ ended \in {"no", "by itself", "terminated"}
    /\ number \in {"helper", "nobody", "stranger"}

ExchangeTyped == ClientTyped /\ ThreadsTyped /\ PipesTyped /\ HelperTyped /\ ProcessTyped

\* The bounds are numbers, and no response has the id of a frame error.
LEMMA Bounds ==
    /\ MaxId \in Nat /\ PipeCap \in Nat \ {0} /\ AnswerCap \in Nat \ {0} /\ MaxLies \in Nat
    /\ Ids = 0 .. MaxId /\ NoId = MaxId + 1 /\ NoId \notin Ids
    /\ FrameError \notin Response /\ FrameError.id = NoId
BY ExchangeAssumption DEF Ids, NoId, FrameError, Response

\* The types the runs check follow.
LEMMA TypesAreTypes == ExchangeTyped => ExchangeTypeOK
<1> SUFFICES ASSUME ExchangeTyped PROVE ExchangeTypeOK
  OBVIOUS
<1>1. ToSet(queue) \subseteq Ids
  BY OnLength DEF ExchangeTyped, ThreadsTyped
<1>2. ToSet(answers) \subseteq Response \cup {FrameError}
  BY OnLength DEF ExchangeTyped, ThreadsTyped, Received
<1>3. Len(reader.have) <= 2
  <2>1. reader.at \in {"reading", "sending", "gone"} /\ Len(reader.have) \in Nat
    BY OnLength DEF ExchangeTyped, ThreadsTyped
  <2>2. reader.at = "gone" => Len(reader.have) = 0
    BY OnEmpty DEF ExchangeTyped, ThreadsTyped
  <2>3. /\ reader.at = "reading" => Len(reader.have) < 2
        /\ reader.at = "sending" => Len(reader.have) = 2
    BY DEF ExchangeTyped, ThreadsTyped
  <2>4. CASE reader.at = "gone"
    BY <2>2, <2>4
  <2>5. CASE reader.at = "reading"
    BY <2>1, <2>3, <2>5
  <2>6. CASE reader.at = "sending"
    <3>1. Len(reader.have) = 2
      BY <2>3, <2>6
    <3> QED BY <3>1
  <2> QED BY <2>1, <2>4, <2>5, <2>6
<1>4. Len(saying) <= 4
  BY OnLength DEF ExchangeTyped, HelperTyped
<1> QED BY <1>1, <1>2, <1>3, <1>4 DEF ExchangeTyped, ClientTyped, ThreadsTyped, PipesTyped,
        HelperTyped, ProcessTyped, ExchangeTypeOK

\* A conversation that begins has its types.
LEMMA ExchangeTypedInit == ExchangeInit => ExchangeTyped
<1> SUFFICES ASSUME ExchangeInit PROVE ExchangeTyped
  OBVIOUS
<1>1. ClientTyped
  <2>1. nextId \in 0 .. MaxId + 1
    BY Bounds DEF ExchangeInit
  <2>2. result \in [id : Ids \cup {NoId}, what : Kept \cup Broken \cup {"poisoned", "none"}]
    BY DEF ExchangeInit
  <2> QED BY <2>1, <2>2 DEF ExchangeInit, ClientTyped
<1>2. /\ queue \in Seq(Ids) /\ Len(queue) = 0 /\ answers \in Seq(Received) /\ Len(answers) = 0
      /\ reader.have \in Seq(FromChunk) /\ Len(reader.have) = 0
      /\ toHelper \in Seq(ToChunk) /\ Len(toHelper) = 0
      /\ toClient \in Seq(FromChunk) /\ Len(toClient) = 0
      /\ saying \in Seq(FromChunk) /\ Len(saying) = 0
  BY OnEmpty DEF ExchangeInit
<1>3. ThreadsTyped
  BY <1>2, Bounds DEF ExchangeInit, ThreadsTyped
<1>4. PipesTyped
  BY <1>2, Bounds DEF PipesTyped
<1>5. HelperTyped
  <2>1. request \in [id : Ids \cup {NoId}, parts : 0 .. 2] /\ request.parts = 0
    BY DEF ExchangeInit
  <2>2. lies \in 0 .. MaxLies
    BY Bounds DEF ExchangeInit
  <2>3. helper = "reading" /\ compiler = FALSE
    BY DEF ExchangeInit
  <2>4. saying \in Seq(FromChunk) /\ Len(saying) <= 2
    BY <1>2
  <2>5. ~(request.parts > 0) /\ request.parts < 2
    BY <2>1
  <2>6. helper \in {"reading", "working", "writing", "exited"} /\ compiler \in BOOLEAN
        /\ helper # "working" /\ helper # "writing"
    BY <2>3
  <2> QED BY <2>1, <2>2, <2>4, <2>5, <2>6 DEF HelperTyped
<1>6. ProcessTyped
  BY DEF ExchangeInit, ProcessTyped
<1> QED BY <1>1, <1>3, <1>4, <1>5, <1>6 DEF ExchangeTyped

\* What an exchange comes to is an outcome.
LEMMA EndsTyped ==
    ASSUME ClientTyped, NEW what \in Kept \cup Broken, Ends(what), UNCHANGED <<closing, nextId>>,
           expired' \in BOOLEAN, got' \in Ids \cup {NoId}
    PROVE  ClientTyped'
<1>1. result' \in [id : Ids \cup {NoId}, what : Kept \cup Broken \cup {"poisoned", "none"}]
  BY DEF Ends, ClientTyped
<1>2. client' \in {"idle", "reaping"} /\ asked' \in Ids \cup {NoId}
  BY DEF Ends
<1>3. patient' \in BOOLEAN
  <2>1. \/ patient' = FALSE \/ patient' = patient
        \/ patient' = (what \in {"answered", "died"})
    BY DEF Ends
  <2>2. patient \in BOOLEAN
    BY DEF ClientTyped
  <2>3. CASE patient' = (what \in {"answered", "died"})
    <3>1. (what \in {"answered", "died"}) \in BOOLEAN
      OBVIOUS
    <3> QED BY <2>3, <3>1, Zenon
  <2> QED BY <2>1, <2>2, <2>3
<1> QED BY <1>1, <1>2, <1>3 DEF ClientTyped

\* Whatever is received, the conversation is kept or broken.
LEMMA OutcomesAreOutcomes == \A r : OutcomeOf(r) \in Kept \cup Broken
BY DEF OutcomeOf, Kept, Broken

\* Every step keeps the types of the client's variables.
LEMMA ClientTypedStep == ExchangeTyped /\ [ExchangeNext]_exchangeVars => ClientTyped'
<1> SUFFICES ASSUME ExchangeTyped, [ExchangeNext]_exchangeVars PROVE ClientTyped'
  OBVIOUS
<1>0. ClientTyped
  BY DEF ExchangeTyped
<1>1. ASSUME NEW last \in BOOLEAN, SendWithin(last) PROVE ClientTyped'
  BY <1>0, <1>1, Bounds DEF SendWithin, ClientTyped
<1>2. CASE SendRefused
  BY <1>0, <1>2 DEF SendRefused, ClientTyped
<1>3. CASE DropHelper
  BY <1>0, <1>3 DEF DropHelper, ClientTyped
<1>4. CASE NotDelivered
  BY <1>0, <1>4, EndsTyped DEF NotDelivered, Broken, ClientTyped
<1>5. CASE Expire
  BY <1>0, <1>5, EndsTyped DEF Expire, Broken, ClientTyped
<1>6. CASE ReceiveAnswer
  <2>1. Head(answers) \in Received
    BY <1>6, OnTail DEF ReceiveAnswer, ExchangeTyped, ThreadsTyped
  <2>2. Head(answers).id \in Ids \cup {NoId}
    BY <2>1, Bounds DEF Received, Response
  <2>3. got' \in Ids \cup {NoId}
    BY <1>0, <1>6, <2>2 DEF ReceiveAnswer, ClientTyped
  <2>4. PICK what \in Kept \cup Broken : Ends(what)
    BY <1>6, OutcomesAreOutcomes DEF ReceiveAnswer
  <2>5. UNCHANGED <<closing, nextId, expired>>
    BY <1>6 DEF ReceiveAnswer
  <2>6. expired' \in BOOLEAN
    BY <1>0, <2>5 DEF ClientTyped
  <2> QED BY <1>0, <2>3, <2>4, <2>5, <2>6, EndsTyped
<1>7. CASE ReceiveNothing
  BY <1>0, <1>7, EndsTyped DEF ReceiveNothing, Broken, ClientTyped
<1>8. CASE Delivered \/ FoundExited \/ FoundRunning \/ TerminateAndWait
  BY <1>0, <1>8 DEF Delivered, FoundExited, FoundRunning, TerminateAndWait, AfterReaping,
                    ClientTyped
<1>9. CASE UNCHANGED <<clientVars, got>>
  BY <1>0, <1>9 DEF clientVars, ClientTyped
<1>10. (Writer \/ Reader \/ Helper \/ NumberReused \/ UNCHANGED exchangeVars)
         => UNCHANGED <<clientVars, got>>
  BY DEF Writer, WriterTakes, WriterWrites, WriterFails, WriterLeaves, Reader, ReaderReads,
         ReaderSends, ReaderAtEnd, ReaderLeaves, Helper, ServeReads, CompilerStarts, ServeWrites,
         HelperExits, ServeAnswers, Lies, NumberReused, exchangeVars
<1> QED BY <1>1, <1>2, <1>3, <1>4, <1>5, <1>6, <1>7, <1>8, <1>9, <1>10 DEF ExchangeNext, Client

\* A writer that is idle, has failed, or has a chunk left.
WriterTyped ==
    /\ writer \in [at : {"idle", "writing", "gone"}, id : Ids \cup {NoId}, left : 0 .. 2]
    /\ writer.at = "writing" => writer.id \in Ids
ReaderTyped ==
    /\ reader \in [at : {"reading", "sending", "gone"}, have : Seq(FromChunk)]
    /\ reader.at = "reading" => Len(reader.have) < 2
    /\ reader.at = "sending" => Len(reader.have) = 2
    /\ reader.at = "gone" => reader.have = <<>>

\* The writer reports what became of a request, and nothing else.
LEMMA ReportsTyped ==
    ASSUME ThreadsTyped, NEW o \in {"written", "failed", "too large"}, Reports(o)
    PROVE  outcome' \in {"none", "written", "failed", "too large"}
BY DEF Reports, ThreadsTyped

\* Every step keeps the types of the writer, its queue and its report.
LEMMA WriterTypedStep ==
    ExchangeTyped /\ [ExchangeNext]_exchangeVars
        => WriterTyped' /\ queue' \in Seq(Ids) /\ Len(queue') <= 1
           /\ outcome' \in {"none", "written", "failed", "too large"}
<1> DEFINE Goal == /\ WriterTyped' /\ queue' \in Seq(Ids) /\ Len(queue') <= 1
                   /\ outcome' \in {"none", "written", "failed", "too large"}
<1> SUFFICES ASSUME ExchangeTyped, [ExchangeNext]_exchangeVars PROVE Goal
  OBVIOUS
<1>0. /\ ThreadsTyped /\ WriterTyped /\ queue \in Seq(Ids) /\ Len(queue) <= 1
      /\ outcome \in {"none", "written", "failed", "too large"}
  BY DEF ExchangeTyped, ThreadsTyped, WriterTyped
<1>1. ASSUME NEW last \in BOOLEAN, SendWithin(last) PROVE Goal
  <2>1. nextId \in Ids
    BY <1>1, Bounds DEF SendWithin, ExchangeTyped, ClientTyped
  <2>2. queue' \in {<<nextId>>, queue} /\ outcome' = "none" /\ UNCHANGED writer
    BY <1>1 DEF SendWithin
  <2>3. <<nextId>> \in Seq(Ids) /\ Len(<<nextId>>) = 1
    BY <2>1, OnOne
  <2>4. queue' \in Seq(Ids) /\ Len(queue') <= 1
    <3>1. CASE queue' = queue
      BY <1>0, <3>1
    <3>2. CASE queue' = <<nextId>>
      <4>1. Len(queue') = 1 /\ queue' \in Seq(Ids)
        BY <2>3, <3>2
      <4> QED BY <4>1
    <3> QED BY <2>2, <3>1, <3>2
  <2> QED BY <1>0, <2>2, <2>4 DEF WriterTyped
<1>2. CASE WriterTakes
  <2>1. Head(queue) \in Ids /\ queue' = <<>> /\ UNCHANGED outcome
    BY <1>0, <1>2, OnTail DEF WriterTakes
  <2>2. writer' = [at |-> "writing", id |-> Head(queue), left |-> 2]
    BY <1>2 DEF WriterTakes
  <2>3. WriterTyped'
    BY <2>1, <2>2 DEF WriterTyped
  <2>4. queue' \in Seq(Ids) /\ Len(queue') = 0
    BY <2>1, OnEmpty
  <2>5. Len(queue') <= 1
    BY <2>4
  <2>6. outcome' \in {"none", "written", "failed", "too large"}
    BY <1>0, <2>1
  <2> QED BY <2>3, <2>4, <2>5, <2>6
<1>3. CASE WriterWrites
  <2>1. UNCHANGED queue
    BY <1>3 DEF WriterWrites
  <2>2. outcome' \in {"none", "written", "failed", "too large"}
    BY <1>0, <1>3, ReportsTyped DEF WriterWrites
  <2>3. WriterTyped'
    <3>1. writer' \in {[at |-> "idle", id |-> NoId, left |-> 0], [writer EXCEPT !.left = 1]}
      BY <1>3 DEF WriterWrites
    <3>2. CASE writer' = [at |-> "idle", id |-> NoId, left |-> 0]
      BY <3>2 DEF WriterTyped
    <3>3. CASE writer' = [writer EXCEPT !.left = 1]
      <4>1. writer \in [at : {"idle", "writing", "gone"}, id : Ids \cup {NoId}, left : 0 .. 2]
        BY <1>0 DEF WriterTyped
      <4>2. writer' \in [at : {"idle", "writing", "gone"}, id : Ids \cup {NoId}, left : 0 .. 2]
            /\ writer'.at = writer.at /\ writer'.id = writer.id
        BY <3>3, <4>1
      <4> QED BY <1>0, <4>2 DEF WriterTyped
    <3> QED BY <3>1, <3>2, <3>3
  <2> QED BY <1>0, <2>1, <2>2, <2>3
<1>4. CASE WriterFails
  <2>1. UNCHANGED queue /\ writer' = [writer EXCEPT !.at = "gone"]
    BY <1>4 DEF WriterFails
  <2>2. outcome' \in {"none", "written", "failed", "too large"}
    BY <1>0, <1>4, ReportsTyped DEF WriterFails
  <2>3. WriterTyped'
    BY <1>0, <2>1 DEF WriterTyped
  <2> QED BY <1>0, <2>1, <2>2, <2>3
<1>5. CASE WriterLeaves
  <2>1. UNCHANGED <<queue, outcome>> /\ writer' = [writer EXCEPT !.at = "gone"]
    BY <1>5 DEF WriterLeaves
  <2>2. WriterTyped'
    BY <1>0, <2>1 DEF WriterTyped
  <2> QED BY <1>0, <2>1, <2>2
<1>6. CASE UNCHANGED writerVars
  BY <1>0, <1>6 DEF writerVars, WriterTyped
<1>7. (SendRefused \/ DropHelper \/ NumberReused \/ Client \/ Reader \/ Helper
         \/ UNCHANGED exchangeVars) => UNCHANGED writerVars
  BY DEF SendRefused, DropHelper, NumberReused, Client, Delivered, NotDelivered, Expire,
         ReceiveAnswer, ReceiveNothing, FoundExited, FoundRunning, TerminateAndWait, Reader,
         ReaderReads, ReaderSends, ReaderAtEnd, ReaderLeaves, Helper, ServeReads, CompilerStarts,
         ServeWrites, HelperExits, ServeAnswers, Lies, exchangeVars
<1> HIDE DEF Goal
<1> QED BY <1>1, <1>2, <1>3, <1>4, <1>5, <1>6, <1>7 DEF ExchangeNext, Writer

\* Every step keeps the types of the reader and of what it passes on.
LEMMA ReaderTypedStep ==
    ExchangeTyped /\ [ExchangeNext]_exchangeVars
        => ReaderTyped' /\ answers' \in Seq(Received) /\ Len(answers') <= AnswerCap
<1> DEFINE Goal == ReaderTyped' /\ answers' \in Seq(Received) /\ Len(answers') <= AnswerCap
<1> SUFFICES ASSUME ExchangeTyped, [ExchangeNext]_exchangeVars PROVE Goal
  OBVIOUS
<1>0. /\ ReaderTyped /\ answers \in Seq(Received) /\ Len(answers) <= AnswerCap
      /\ toClient \in Seq(FromChunk) /\ reader.have \in Seq(FromChunk)
      /\ Len(answers) \in Nat /\ AnswerCap \in Nat
  <2>1. /\ ReaderTyped /\ answers \in Seq(Received) /\ Len(answers) <= AnswerCap
        /\ toClient \in Seq(FromChunk)
    BY DEF ExchangeTyped, ThreadsTyped, PipesTyped, ReaderTyped
  <2>2. reader.have \in Seq(FromChunk)
    BY <2>1 DEF ReaderTyped
  <2>3. Len(answers) \in Nat
    BY <2>1, OnLength
  <2> QED BY <2>1, <2>2, <2>3, Bounds
<1>1. CASE ReceiveAnswer
  <2>1. UNCHANGED reader /\ answers' = Tail(answers) /\ answers # <<>>
    BY <1>1 DEF ReceiveAnswer
  <2>2. answers' \in Seq(Received) /\ Len(answers') = Len(answers) - 1
    BY <1>0, <2>1, OnTail
  <2>3. Len(answers') <= AnswerCap
    BY <1>0, <2>2
  <2> QED BY <1>0, <2>1, <2>2, <2>3 DEF ReaderTyped
<1>2. CASE ReaderReads
  <2>1. PICK have : have = Append(reader.have, Head(toClient))
    OBVIOUS
  <2>2. /\ UNCHANGED answers /\ reader.at = "reading"
        /\ reader' = [at |-> IF Len(have) = 2 THEN "sending" ELSE "reading", have |-> have]
    BY <1>2, <2>1 DEF ReaderReads
  <2>3. Head(toClient) \in FromChunk
    BY <1>0, <1>2, OnTail DEF ReaderReads
  <2>4. have \in Seq(FromChunk) /\ Len(have) = Len(reader.have) + 1
    BY <1>0, <2>1, <2>3, OnAppend
  <2>5. PICK n \in Nat : n = Len(reader.have) /\ n < 2
    BY <1>0, <2>2, OnLength DEF ReaderTyped
  <2>6. Len(have) < 2 \/ Len(have) = 2
    BY <2>4, <2>5
  <2>7. reader'.have = have /\ reader'.at = IF Len(have) = 2 THEN "sending" ELSE "reading"
    BY <2>2
  <2>8. ReaderTyped'
    BY <2>2, <2>4, <2>6, <2>7 DEF ReaderTyped
  <2> QED BY <1>0, <2>2, <2>8
<1>3. CASE ReaderSends
  <2>1. Parsed(reader.have) \in Received
    <3>1. Len(reader.have) = 2
      BY <1>0, <1>3 DEF ReaderSends, ReaderTyped
    <3>2. reader.have[1] \in FromChunk
      BY <1>0, <3>1
    <3>3. Parsed(reader.have) \in {FrameError, reader.have[1].of}
      BY DEF Parsed
    <3> QED BY <3>2, <3>3 DEF FromChunk, Received
  <2>2. answers' \in Seq(Received) /\ Len(answers') = Len(answers) + 1
    BY <1>0, <1>3, <2>1, OnAppend DEF ReaderSends
  <2>3. Len(answers) < AnswerCap
    BY <1>3 DEF ReaderSends
  <2>4. Len(answers') <= AnswerCap
    BY <1>0, <2>2, <2>3
  <2>5. PICK at \in {"reading", "gone"} : reader' = [at |-> at, have |-> <<>>]
    BY <1>3 DEF ReaderSends
  <2>6. ReaderTyped'
    <3>1. reader'.at = at /\ reader'.have = <<>> /\ Len(reader'.have) = 0
      BY <2>5, OnEmpty
    <3>2. reader' \in [at : {"reading", "sending", "gone"}, have : Seq(FromChunk)]
      BY <2>5, OnEmpty
    <3>3. Len(reader'.have) < 2 /\ at # "sending"
      BY <3>1
    <3> QED BY <3>1, <3>2, <3>3 DEF ReaderTyped
  <2> QED BY <2>2, <2>4, <2>6
<1>4. CASE ReaderAtEnd \/ ReaderLeaves
  <2>1. reader' = [at |-> "gone", have |-> <<>>]
    BY <1>4 DEF ReaderAtEnd, ReaderLeaves
  <2>2. ReaderTyped'
    BY <2>1, OnEmpty DEF ReaderTyped
  <2>3. answers' = answers \/ (answers' = Append(answers, FrameError) /\ Len(answers) < AnswerCap)
    BY <1>4 DEF ReaderAtEnd, ReaderLeaves
  <2>4. FrameError \in Received
    BY DEF Received
  <2>5. CASE answers' = Append(answers, FrameError) /\ Len(answers) < AnswerCap
    <3>1. answers' \in Seq(Received) /\ Len(answers') = Len(answers) + 1
      BY <1>0, <2>4, <2>5, OnAppend
    <3>2. Len(answers') <= AnswerCap
      BY <1>0, <2>5, <3>1
    <3> QED BY <2>2, <3>1, <3>2
  <2> QED BY <1>0, <2>2, <2>3, <2>5
<1>5. CASE UNCHANGED readerVars
  BY <1>0, <1>5 DEF readerVars, ReaderTyped
<1>6. (SendRefused \/ DropHelper \/ NumberReused \/ (\E last \in BOOLEAN : SendWithin(last))
         \/ Writer \/ Helper \/ UNCHANGED exchangeVars) => UNCHANGED readerVars
  BY DEF SendRefused, DropHelper, NumberReused, SendWithin, Writer, WriterTakes, WriterWrites,
         WriterFails, WriterLeaves, Helper, ServeReads, CompilerStarts, ServeWrites, HelperExits,
         ServeAnswers, Lies, exchangeVars
<1>7. (Delivered \/ NotDelivered \/ Expire \/ ReceiveNothing \/ FoundExited \/ FoundRunning
         \/ TerminateAndWait) => UNCHANGED readerVars
  BY DEF Delivered, NotDelivered, Expire, ReceiveNothing, FoundExited, FoundRunning,
         TerminateAndWait
<1> HIDE DEF Goal
<1> QED BY <1>1, <1>2, <1>3, <1>4, <1>5, <1>6, <1>7 DEF ExchangeNext, Client, Reader

\* Every step leaves chunks of requests and of responses in the pipes.
LEMMA PipesTypedStep == ExchangeTyped /\ [ExchangeNext]_exchangeVars => PipesTyped'
<1> SUFFICES ASSUME ExchangeTyped, [ExchangeNext]_exchangeVars PROVE PipesTyped'
  OBVIOUS
<1>0. /\ toHelper \in Seq(ToChunk) /\ Len(toHelper) <= PipeCap /\ Len(toHelper) \in Nat
      /\ toClient \in Seq(FromChunk) /\ Len(toClient) <= PipeCap /\ Len(toClient) \in Nat
      /\ PipeCap \in Nat
  <2>1. PipesTyped
    BY DEF ExchangeTyped
  <2> QED BY <2>1, OnLength, Bounds DEF PipesTyped
<1>1. CASE WriterWrites
  <2>1. Chunk(writer.id, 3 - writer.left) \in ToChunk
    <3>1. writer.id \in Ids /\ writer.left \in 0 .. 2
      BY <1>1 DEF WriterWrites, ExchangeTyped, ThreadsTyped
    <3>2. 3 - writer.left \in 0 .. 3
      BY <3>1
    <3> QED BY <3>1, <3>2 DEF Chunk, ToChunk
  <2>2. toHelper' \in Seq(ToChunk) /\ Len(toHelper') = Len(toHelper) + 1
    BY <1>0, <1>1, <2>1, OnAppend DEF WriterWrites
  <2>3. Len(toHelper) < PipeCap /\ UNCHANGED toClient
    BY <1>1 DEF WriterWrites
  <2>4. Len(toHelper') <= PipeCap
    BY <1>0, <2>2, <2>3
  <2> QED BY <1>0, <2>2, <2>3, <2>4 DEF PipesTyped
<1>2. CASE ServeReads
  <2>1. toHelper' \in Seq(ToChunk) /\ Len(toHelper') = Len(toHelper) - 1 /\ UNCHANGED toClient
    BY <1>0, <1>2, OnTail DEF ServeReads
  <2>2. Len(toHelper') <= PipeCap
    BY <1>0, <2>1
  <2> QED BY <1>0, <2>1, <2>2 DEF PipesTyped
<1>3. CASE ServeWrites
  <2>1. Head(saying) \in FromChunk
    BY <1>3, OnTail DEF ServeWrites, ExchangeTyped, HelperTyped
  <2>2. toClient' \in Seq(FromChunk) /\ Len(toClient') = Len(toClient) + 1
    BY <1>0, <1>3, <2>1, OnAppend DEF ServeWrites
  <2>3. Len(toClient) < PipeCap /\ UNCHANGED toHelper
    BY <1>3 DEF ServeWrites
  <2>4. Len(toClient') <= PipeCap
    BY <1>0, <2>2, <2>3
  <2> QED BY <1>0, <2>2, <2>3, <2>4 DEF PipesTyped
<1>4. CASE ReaderReads
  <2>1. toClient' \in Seq(FromChunk) /\ Len(toClient') = Len(toClient) - 1 /\ UNCHANGED toHelper
    BY <1>0, <1>4, OnTail DEF ReaderReads
  <2>2. Len(toClient') <= PipeCap
    BY <1>0, <2>1
  <2> QED BY <1>0, <2>1, <2>2 DEF PipesTyped
<1>5. CASE UNCHANGED <<toHelper, toClient>>
  BY <1>0, <1>5 DEF PipesTyped
<1>6. (SendRefused \/ DropHelper \/ NumberReused \/ (\E last \in BOOLEAN : SendWithin(last))
         \/ Client \/ UNCHANGED exchangeVars) => UNCHANGED <<toHelper, toClient>>
  BY DEF SendRefused, DropHelper, NumberReused, SendWithin, Client, Delivered, NotDelivered, Expire,
         ReceiveAnswer, ReceiveNothing, FoundExited, FoundRunning, TerminateAndWait, exchangeVars
<1>7. (WriterTakes \/ WriterFails \/ WriterLeaves \/ ReaderSends \/ ReaderAtEnd \/ ReaderLeaves
         \/ CompilerStarts \/ HelperExits
         \/ (\E body \in {"fine", "failed", "too large"} : ServeAnswers(body))
         \/ (\E r \in Response : Lies(r))) => UNCHANGED <<toHelper, toClient>>
  BY DEF WriterTakes, WriterFails, WriterLeaves, ReaderSends, ReaderAtEnd, ReaderLeaves,
         CompilerStarts, HelperExits, ServeAnswers, Lies
<1> QED BY <1>1, <1>2, <1>3, <1>4, <1>5, <1>6, <1>7 DEF ExchangeNext, Writer, Reader, Helper

\* Both chunks of a frame are of its response.
LEMMA FramesTyped ==
    ASSUME NEW r \in Response
    PROVE  /\ Frame(r) \in Seq(FromChunk) /\ Len(Frame(r)) = 2 /\ Frame(r) # <<>>
           /\ \A c \in ToSet(Frame(r)) : c.of = r
<1>1. Chunk(r, 1) \in FromChunk /\ Chunk(r, 2) \in FromChunk
  BY DEF Chunk, FromChunk
<1>2. Chunk(r, 1).of = r /\ Chunk(r, 2).of = r
  BY DEF Chunk
<1> QED BY <1>1, <1>2, OnPair DEF Frame

\* The two parts of a frame.
LEMMA OneAndTwo == 1 # 2 /\ 2 > 0 /\ 2 <= 2 /\ 1 \in 1 .. 2 /\ 2 \in 1 .. 2
OBVIOUS

\* What the helper answers with is a frame of a readable response.
LEMMA AnswersTyped ==
    ASSUME NEW id \in Ids, NEW body \in {"fine", "failed", "too large"}
    PROVE  \E r \in Response : r.body # "unreadable" /\ AnswerFrame(id, body) = Frame(r)
<1> DEFINE b == IF body = "too large" THEN "fine" ELSE body
           r == ResponseTo(id, b)
<1>1. b \in {"fine", "failed"}
  OBVIOUS
<1>2. r \in Response /\ r.body = b
  BY <1>1 DEF ResponseTo, Response, Revisions, Bodies
<1>3. AnswerFrame(id, body) = Frame(r)
  BY DEF AnswerFrame
<1> HIDE DEF r, b
<1> QED BY <1>1, <1>2, <1>3

\* Every step keeps the types of the helper's variables.
LEMMA HelperTypedStep == ExchangeTyped /\ [ExchangeNext]_exchangeVars => HelperTyped'
<1> SUFFICES ASSUME ExchangeTyped, [ExchangeNext]_exchangeVars PROVE HelperTyped'
  OBVIOUS
<1>0. HelperTyped
  BY DEF ExchangeTyped
<1>1. CASE ServeReads
  <2>1. Head(toHelper).of \in Ids
    <3>1. Head(toHelper) \in ToChunk
      BY <1>1, OnTail DEF ServeReads, ExchangeTyped, PipesTyped
    <3> QED BY <3>1 DEF ToChunk
  <2>2. PICK n \in 0 .. 1 : n = request.parts
    BY <1>0, <1>1 DEF ServeReads, HelperTyped
  <2>3. /\ request' = [id |-> Head(toHelper).of, parts |-> n + 1]
        /\ helper' = IF request'.parts = 2 THEN "working" ELSE "reading"
        /\ UNCHANGED <<saying, compiler, lies>>
    BY <1>1, <2>2 DEF ServeReads
  <2>4. request' \in [id : Ids \cup {NoId}, parts : 0 .. 2] /\ request'.id \in Ids
        /\ request'.parts \in 1 .. 2
    BY <2>1, <2>3
  <2>5. helper' \in {"working", "reading"}
        /\ (helper' = "working" => request'.parts = 2)
        /\ (helper' = "reading" => request'.parts < 2)
    BY <2>3, <2>4
  <2> QED BY <1>0, <2>3, <2>4, <2>5 DEF HelperTyped
<1>2. CASE ServeWrites
  <2>1. PICK n \in Nat \ {0} : n = Len(saying) /\ n <= 2
    BY <1>0, <1>2, OnTail DEF ServeWrites, HelperTyped
  <2>2. saying' \in Seq(FromChunk) /\ Len(saying') = n - 1
    BY <1>0, <1>2, <2>1, OnTail DEF ServeWrites, HelperTyped
  <2>3. Len(saying') <= 2
    BY <2>1, <2>2
  <2>4. UNCHANGED <<compiler, lies>> /\ helper = "writing"
        /\ \/ saying' = <<>> /\ helper' = "reading" /\ request' = [id |-> NoId, parts |-> 0]
           \/ saying' # <<>> /\ UNCHANGED <<helper, request>>
    BY <1>2 DEF ServeWrites
  <2>5. CASE saying' = <<>> /\ helper' = "reading" /\ request' = [id |-> NoId, parts |-> 0]
    <3>1. request' \in [id : Ids \cup {NoId}, parts : 0 .. 2] /\ ~(request'.parts > 0)
          /\ request'.parts < 2
      BY <2>5
    <3> QED BY <1>0, <2>2, <2>3, <2>4, <2>5, <3>1 DEF HelperTyped
  <2>6. CASE saying' # <<>> /\ UNCHANGED <<helper, request>>
    BY <1>0, <2>2, <2>3, <2>4, <2>6 DEF HelperTyped
  <2> QED BY <2>4, <2>5, <2>6
<1>3. ASSUME NEW body \in {"fine", "failed", "too large"}, ServeAnswers(body) PROVE HelperTyped'
  <2>1. request.id \in Ids
    <3>1. request.parts = 2 /\ request.parts \in 0 .. 2
      BY <1>0, <1>3 DEF ServeAnswers, HelperTyped
    <3>2. request.parts > 0
      BY <3>1, OneAndTwo, Zenon
    <3> QED BY <1>0, <3>2 DEF HelperTyped
  <2>2. PICK r \in Response : saying' = Frame(r)
    BY <1>3, <2>1, AnswersTyped DEF ServeAnswers
  <2>3. saying' \in Seq(FromChunk) /\ Len(saying') <= 2 /\ saying' # <<>>
    <3>1. Frame(r) \in Seq(FromChunk) /\ Len(Frame(r)) = 2 /\ Frame(r) # <<>>
      BY FramesTyped
    <3>2. saying' \in Seq(FromChunk) /\ Len(saying') = 2 /\ saying' # <<>>
      BY <2>2, <3>1
    <3>3. Len(saying') <= 2
      BY <3>2, OneAndTwo, Zenon
    <3> QED BY <3>2, <3>3
  <2>4. helper' = "writing" /\ compiler' = FALSE /\ UNCHANGED <<request, lies>>
    BY <1>3 DEF ServeAnswers
  <2> QED BY <1>0, <2>3, <2>4 DEF HelperTyped
<1>4. ASSUME NEW r \in Response, Lies(r) PROVE HelperTyped'
  <2>1. saying' \in Seq(FromChunk) /\ Len(saying') <= 2 /\ saying' # <<>>
    <3>1. Frame(r) \in Seq(FromChunk) /\ Len(Frame(r)) = 2 /\ Frame(r) # <<>>
      BY FramesTyped
    <3>2. saying' = Frame(r)
      BY <1>4 DEF Lies
    <3>3. saying' \in Seq(FromChunk) /\ Len(saying') = 2 /\ saying' # <<>>
      BY <3>1, <3>2
    <3>4. Len(saying') <= 2
      BY <3>3
    <3> QED BY <3>3, <3>4
  <2>2. helper' = "writing" /\ UNCHANGED <<request, compiler>>
    BY <1>4 DEF Lies
  <2>3. lies' \in 0 .. MaxLies
    BY <1>0, <1>4, Bounds DEF Lies, HelperTyped
  <2> QED BY <1>0, <2>1, <2>2, <2>3 DEF HelperTyped
<1>5. CASE HelperExits
  <2>1. saying' \in Seq(FromChunk) /\ Len(saying') = 0
    BY <1>5, OnEmpty DEF HelperExits
  <2>2. Len(saying') <= 2
    BY <2>1
  <2>3. helper' = "exited" /\ UNCHANGED <<request, compiler, lies>>
    BY <1>5 DEF HelperExits
  <2> QED BY <1>0, <2>1, <2>2, <2>3 DEF HelperTyped
<1>6. CASE CompilerStarts \/ TerminateAndWait
  <2>1. helper' \in {helper, "exited"} /\ compiler' \in {TRUE, FALSE, compiler}
        /\ UNCHANGED <<request, saying, lies>>
    BY <1>6 DEF CompilerStarts, TerminateAndWait, SignalGroup
  <2> QED BY <1>0, <2>1 DEF HelperTyped
<1>7. CASE UNCHANGED helperVars
  BY <1>0, <1>7 DEF helperVars, HelperTyped
<1>8. (SendRefused \/ DropHelper \/ NumberReused \/ (\E last \in BOOLEAN : SendWithin(last))
         \/ Writer \/ Reader \/ UNCHANGED exchangeVars) => UNCHANGED helperVars
  BY DEF SendRefused, DropHelper, NumberReused, SendWithin, Writer, WriterTakes, WriterWrites,
         WriterFails, WriterLeaves, Reader, ReaderReads, ReaderSends, ReaderAtEnd, ReaderLeaves,
         exchangeVars
<1>9. (Delivered \/ NotDelivered \/ Expire \/ ReceiveAnswer \/ ReceiveNothing \/ FoundExited
         \/ FoundRunning) => UNCHANGED helperVars
  BY DEF Delivered, NotDelivered, Expire, ReceiveAnswer, ReceiveNothing, FoundExited, FoundRunning
<1> QED BY <1>1, <1>2, <1>3, <1>4, <1>5, <1>6, <1>7, <1>8, <1>9 DEF ExchangeNext, Client, Helper

\* Every step keeps the types of what is known of the process.
LEMMA ProcessTypedStep == ExchangeTyped /\ [ExchangeNext]_exchangeVars => ProcessTyped'
<1> SUFFICES ASSUME ExchangeTyped, [ExchangeNext]_exchangeVars PROVE ProcessTyped'
  OBVIOUS
<1>0. ProcessTyped
  BY DEF ExchangeTyped
<1>1. CASE NotDelivered \/ FoundExited \/ TerminateAndWait \/ NumberReused
  BY <1>0, <1>1 DEF NotDelivered, FoundExited, TerminateAndWait, SignalGroup, NumberReused,
                    ProcessTyped
<1>2. CASE UNCHANGED processVars
  BY <1>0, <1>2 DEF processVars, ProcessTyped
<1>3. (SendRefused \/ DropHelper \/ (\E last \in BOOLEAN : SendWithin(last)) \/ Delivered \/ Expire
         \/ ReceiveAnswer \/ ReceiveNothing \/ FoundRunning \/ UNCHANGED exchangeVars)
         => UNCHANGED processVars
  BY DEF SendRefused, DropHelper, SendWithin, Delivered, Expire, ReceiveAnswer, ReceiveNothing,
         FoundRunning, exchangeVars
<1>4. (Writer \/ Reader \/ Helper) => UNCHANGED processVars
  BY DEF Writer, WriterTakes, WriterWrites, WriterFails, WriterLeaves, Reader, ReaderReads,
         ReaderSends, ReaderAtEnd, ReaderLeaves, Helper, ServeReads, CompilerStarts, ServeWrites,
         HelperExits, ServeAnswers, Lies
<1> QED BY <1>1, <1>2, <1>3, <1>4 DEF ExchangeNext, Client

\* Every step keeps all types.
LEMMA ExchangeTypedStep == ExchangeTyped /\ [ExchangeNext]_exchangeVars => ExchangeTyped'
<1> SUFFICES ASSUME ExchangeTyped, [ExchangeNext]_exchangeVars PROVE ExchangeTyped'
  OBVIOUS
<1>1. ThreadsTyped'
  BY WriterTypedStep, ReaderTypedStep DEF ThreadsTyped, WriterTyped, ReaderTyped
<1> QED BY <1>1, ClientTypedStep, PipesTypedStep, HelperTypedStep, ProcessTypedStep
        DEF ExchangeTyped

\* How a helper ends: the number is its own until it is reaped, what is reaped
\* has exited, and what is signalled takes its compiler along.  A caller is
\* given back a helper only in one of two states: within its deadlines, or reaped.
EndsWell ==
    /\ ~reaped => number = "helper" /\ ended = "no"
    /\ reaped => HelperExited
    /\ client \in {"dropping", "gone"} => reaped
    /\ StrangersAreSpared
    /\ ended = "terminated" => ~compiler
    /\ client \in {"reaping", "killing"} /\ ~closing => expired
    /\ client \in {"sending", "receiving"} => ~expired
    /\ client = "idle" => ~closing /\ (expired => reaped)

\* A client that has asked nothing is not late and has reaped nothing.
LEMMA EndsWellInit == ExchangeInit => EndsWell
BY DEF ExchangeInit, EndsWell, StrangersAreSpared

\* Every step keeps a helper given up on ended, reaped and not signalled again.
LEMMA EndsWellStep == ExchangeTyped /\ EndsWell /\ [ExchangeNext]_exchangeVars => EndsWell'
<1> SUFFICES ASSUME ExchangeTyped, EndsWell, [ExchangeNext]_exchangeVars PROVE EndsWell'
  OBVIOUS
<1>0. /\ closing \in BOOLEAN /\ expired \in BOOLEAN /\ reaped \in BOOLEAN
      /\ stranger \in BOOLEAN /\ compiler \in BOOLEAN
  BY DEF ExchangeTyped, ClientTyped, HelperTyped, ProcessTyped
<1> USE DEF EndsWell, StrangersAreSpared, HelperExited
\* An exchange that ends without the deadline goes back to idle, or on to reaping.
<1>1. ASSUME NEW what, Ends(what), what # "timed out", client \in {"sending", "receiving"},
             UNCHANGED <<closing, expired>>
      PROVE  /\ ~expired' /\ client' \in {"idle", "reaping"}
             /\ client' = "idle" <=> ~closing'
  BY <1>0, <1>1 DEF Ends
<1>2. CASE NotDelivered
  <2>1. UNCHANGED <<closing, expired, stranger, helper, compiler>> /\ client = "sending"
    BY <1>2 DEF NotDelivered, helperVars
  <2>2. ~expired' /\ client' \in {"idle", "reaping"} /\ (client' = "idle" <=> ~closing')
    <3>1. Ends("died") \/ Ends("frame error")
      BY <1>2 DEF NotDelivered
    <3> QED BY <1>1, <2>1, <3>1
  <2>3. \/ UNCHANGED <<reaped, ended, number>>
        \/ HelperExited /\ reaped' = TRUE /\ ended' = (IF reaped THEN ended ELSE "by itself")
    BY <1>2 DEF NotDelivered
  <2>4. CASE UNCHANGED <<reaped, ended, number>>
    BY <1>0, <2>1, <2>2, <2>4
  <2>5. CASE HelperExited /\ reaped' = TRUE /\ ended' = (IF reaped THEN ended ELSE "by itself")
    <3>1. ended' = "terminated" => ~compiler'
      BY <2>1, <2>5
    <3> QED BY <1>0, <2>1, <2>2, <2>5, <3>1
  <2> QED BY <2>3, <2>4, <2>5
<1>3. CASE Expire
  BY <1>0, <1>3 DEF Expire, Ends, SendExpires, ReceiveExpires, helperVars, processVars
<1>4. CASE ReceiveAnswer
  <2>1. UNCHANGED <<closing, expired, helperVars, processVars>> /\ client = "receiving"
    BY <1>4 DEF ReceiveAnswer
  <2>2. ~expired' /\ client' \in {"idle", "reaping"} /\ (client' = "idle" <=> ~closing')
    <3>1. OutcomeOf(Head(answers)) # "timed out" /\ Ends(OutcomeOf(Head(answers)))
      BY <1>4 DEF ReceiveAnswer, OutcomeOf
    <3> QED BY <1>1, <2>1, <3>1
  <2> QED BY <1>0, <2>1, <2>2 DEF helperVars, processVars
<1>5. CASE ReceiveNothing
  <2>1. UNCHANGED <<closing, expired, helperVars, processVars>> /\ client = "receiving"
    BY <1>5 DEF ReceiveNothing
  <2>2. ~expired' /\ client' \in {"idle", "reaping"} /\ (client' = "idle" <=> ~closing')
    <3>1. Ends("died")
      BY <1>5 DEF ReceiveNothing
    <3> QED BY <1>1, <2>1, <3>1
  <2> QED BY <1>0, <2>1, <2>2 DEF helperVars, processVars
<1>6. CASE FoundExited
  BY <1>0, <1>6 DEF FoundExited, AfterReaping, helperVars
<1>7. CASE FoundRunning
  BY <1>0, <1>7 DEF FoundRunning, helperVars, processVars
<1>8. CASE TerminateAndWait
  <2>1. CASE reaped
    BY <1>0, <1>8, <2>1 DEF TerminateAndWait, SignalTarget, AfterReaping
  <2>2. CASE ~reaped
    <3>1. helper' = "exited" /\ compiler' = FALSE /\ UNCHANGED stranger
      BY <1>8, <2>2 DEF TerminateAndWait, SignalTarget, SignalGroup
    <3> QED BY <1>0, <1>8, <2>2, <3>1 DEF TerminateAndWait, AfterReaping
  <2> QED BY <2>1, <2>2
<1>9. CASE NumberReused
  BY <1>0, <1>9 DEF NumberReused, clientVars, helperVars
<1>10. CASE Delivered
  BY <1>0, <1>10 DEF Delivered, helperVars, processVars
<1>11. ASSUME NEW last \in BOOLEAN, SendWithin(last) PROVE EndsWell'
  BY <1>0, <1>11 DEF SendWithin, helperVars, processVars
<1>12. CASE SendRefused
  BY <1>0, <1>12 DEF SendRefused, helperVars, processVars
<1>13. CASE DropHelper
  BY <1>0, <1>13 DEF DropHelper, helperVars, processVars
<1>14. CASE Helper
  <2>1. UNCHANGED <<clientVars, processVars>>
    BY <1>14 DEF Helper, ServeReads, CompilerStarts, ServeWrites, HelperExits, ServeAnswers, Lies
  <2>2. helper = "exited" => helper' = "exited" /\ compiler' = compiler
    BY <1>14 DEF Helper, ServeReads, CompilerStarts, ServeWrites, HelperExits, ServeAnswers, Lies
  <2> QED BY <1>0, <2>1, <2>2 DEF clientVars, processVars
<1>15. CASE UNCHANGED <<clientVars, helperVars, processVars>>
  BY <1>15 DEF clientVars, helperVars, processVars
<1>16. (Writer \/ Reader \/ UNCHANGED exchangeVars)
         => UNCHANGED <<clientVars, helperVars, processVars>>
  BY DEF Writer, WriterTakes, WriterWrites, WriterFails, WriterLeaves, Reader, ReaderReads,
         ReaderSends, ReaderAtEnd, ReaderLeaves, exchangeVars
<1> QED BY <1>2, <1>3, <1>4, <1>5, <1>6, <1>7, <1>8, <1>9, <1>10, <1>11, <1>12, <1>13, <1>14,
           <1>15, <1>16 DEF ExchangeNext, Client

\* The answer a caller is given is the one to its own question.
LEMMA QuestionInit == ExchangeInit => AnswersTheQuestion
BY DEF ExchangeInit, AnswersTheQuestion

\* No step records an answer but to the question that was asked.
LEMMA QuestionStep ==
    ExchangeTyped /\ AnswersTheQuestion /\ [ExchangeNext]_exchangeVars => AnswersTheQuestion'
<1> SUFFICES ASSUME ExchangeTyped, AnswersTheQuestion, [ExchangeNext]_exchangeVars
             PROVE  AnswersTheQuestion'
  OBVIOUS
<1> USE DEF AnswersTheQuestion
<1>0. result \in [id : Ids \cup {NoId}, what : Kept \cup Broken \cup {"poisoned", "none"}]
  BY DEF ExchangeTyped, ClientTyped
<1>1. CASE ReceiveAnswer
  <2>1. result' = [id |-> asked, what |-> OutcomeOf(Head(answers))]
    BY <1>1 DEF ReceiveAnswer, Ends
  <2>2. OutcomeOf(Head(answers)) \in {"answered", "refused"}
          => got' = Head(answers).id /\ Head(answers).id = asked
    BY <1>1 DEF ReceiveAnswer, OutcomeOf
  <2> QED BY <2>1, <2>2
<1>2. CASE NotDelivered \/ Expire \/ ReceiveNothing
  <2>1. PICK what \in {"died", "frame error", "timed out"} : Ends(what)
    BY <1>2 DEF NotDelivered, Expire, ReceiveNothing
  <2> QED BY <2>1 DEF Ends
<1>3. CASE SendRefused
  BY <1>0, <1>3 DEF SendRefused
<1>4. CASE UNCHANGED <<result, got>>
  BY <1>4
<1>5. ((\E last \in BOOLEAN : SendWithin(last)) \/ DropHelper \/ NumberReused \/ Delivered
         \/ FoundExited \/ FoundRunning \/ TerminateAndWait \/ UNCHANGED exchangeVars)
         => UNCHANGED <<result, got>>
  BY DEF SendWithin, DropHelper, NumberReused, Delivered, FoundExited, FoundRunning,
         TerminateAndWait, clientVars, exchangeVars
<1>6. (Writer \/ Reader \/ Helper) => UNCHANGED <<result, got>>
  BY DEF Writer, WriterTakes, WriterWrites, WriterFails, WriterLeaves, Reader, ReaderReads,
         ReaderSends, ReaderAtEnd, ReaderLeaves, Helper, ServeReads, CompilerStarts, ServeWrites,
         HelperExits, ServeAnswers, Lies, clientVars
<1> QED BY <1>1, <1>2, <1>3, <1>4, <1>5, <1>6 DEF ExchangeNext, Client

(***************************************************************************)
(* One exchange at a time.                                                 *)
(***************************************************************************)

\* The conversation goes on: no deadline has passed, the helper is not ended.
Live == client \in {"idle", "sending", "receiving"} /\ ~expired

\* Only the request of the exchange under way is in the channel or with the
\* writer, and what the writer reports is about it.
OneRequest ==
    /\ queue # <<>> => client = "sending" /\ outcome = "none" /\ writer.at = "idle"
    /\ queue # <<>> => Head(queue) = asked
    /\ writer.at = "writing" => client = "sending" /\ outcome = "none" /\ writer.id = asked
                                /\ writer.left \in 1 .. 2
    /\ client \in {"sending", "receiving"} /\ outcome = "written" => writer.at = "idle"
    /\ client = "receiving" => outcome = "written"
    /\ client = "sending" /\ outcome \in {"failed", "too large"} => WriterGone

\* A conversation that is live was live before.
LEMMA LiveBefore ==
    ExchangeTyped /\ EndsWell /\ [ExchangeNext]_exchangeVars /\ Live' => Live
<1> SUFFICES ASSUME ExchangeTyped, EndsWell, [ExchangeNext]_exchangeVars, Live' PROVE Live
  OBVIOUS
<1> USE DEF Live
<1>0. closing \in BOOLEAN /\ expired \in BOOLEAN
  BY DEF ExchangeTyped, ClientTyped
<1>1. CASE NotDelivered \/ Expire \/ ReceiveAnswer \/ ReceiveNothing
  <2>1. client \in {"sending", "receiving"}
    BY <1>1 DEF NotDelivered, Expire, SendExpires, ReceiveExpires, ReceiveAnswer, ReceiveNothing
  <2> QED BY <2>1 DEF EndsWell
<1>2. CASE (\E last \in BOOLEAN : SendWithin(last)) \/ Delivered
  BY <1>2 DEF SendWithin, Delivered
<1>3. CASE SendRefused \/ DropHelper
  BY <1>3 DEF SendRefused, DropHelper
<1>4. CASE FoundExited \/ FoundRunning \/ TerminateAndWait
  <2>1. UNCHANGED <<closing, expired>>
    BY <1>4 DEF FoundExited, FoundRunning, TerminateAndWait
  <2>2. client \in {"reaping", "killing", "dropping"}
    BY <1>4 DEF FoundExited, FoundRunning, TerminateAndWait
  <2>3. client' = "idle" => client \in {"reaping", "killing"} /\ ~closing
    BY <1>0, <1>4 DEF FoundExited, FoundRunning, TerminateAndWait, AfterReaping
  <2>4. client' \notin {"sending", "receiving"}
    BY <1>4 DEF FoundExited, FoundRunning, TerminateAndWait, AfterReaping
  <2> QED BY <2>1, <2>3, <2>4 DEF EndsWell
<1>5. CASE UNCHANGED clientVars
  BY <1>5 DEF clientVars
<1>6. (NumberReused \/ Writer \/ Reader \/ Helper \/ UNCHANGED exchangeVars)
         => UNCHANGED clientVars
  BY DEF NumberReused, Writer, WriterTakes, WriterWrites, WriterFails, WriterLeaves, Reader,
         ReaderReads, ReaderSends, ReaderAtEnd, ReaderLeaves, Helper, ServeReads, CompilerStarts,
         ServeWrites, HelperExits, ServeAnswers, Lies, exchangeVars
<1> QED BY <1>1, <1>2, <1>3, <1>4, <1>5, <1>6 DEF ExchangeNext, Client

\* In a live conversation every step keeps the one request where it is.
LEMMA OneRequestStep ==
    ExchangeTyped /\ EndsWell /\ (Live => OneRequest) /\ [ExchangeNext]_exchangeVars
        => (Live => OneRequest)'
<1> SUFFICES ASSUME ExchangeTyped, EndsWell, Live => OneRequest, [ExchangeNext]_exchangeVars, Live'
             PROVE  OneRequest'
  OBVIOUS
<1>0. Live /\ OneRequest
  BY LiveBefore
<1>w. /\ writer \in [at : {"idle", "writing", "gone"}, id : Ids \cup {NoId}, left : 0 .. 2]
      /\ queue \in Seq(Ids)
  BY DEF ExchangeTyped, ThreadsTyped
<1> USE DEF Live, OneRequest, WriterGone
\* An exchange that ends leaves nothing behind with the writer.
<1>1. ASSUME client' = "idle", queue = <<>>, writer.at # "writing", UNCHANGED <<queue, writer>>
      PROVE  OneRequest'
  BY <1>1
<1>2. CASE NotDelivered
  <2>1. client = "sending" /\ UNCHANGED <<queue, outcome, writer>>
    BY <1>2 DEF NotDelivered, writerVars
  <2>2. WriterGone
    BY <1>0, <1>2 DEF NotDelivered, WriterLeft
  <2>3. queue = <<>> /\ writer.at # "writing"
    BY <1>0, <2>2
  <2>4. client' = "idle"
    BY <1>2 DEF NotDelivered, Ends
  <2> QED BY <1>1, <2>1, <2>3, <2>4
<1>3. CASE ReceiveAnswer \/ ReceiveNothing
  <2>1. client = "receiving" /\ UNCHANGED <<queue, outcome, writer>>
    BY <1>3 DEF ReceiveAnswer, ReceiveNothing, writerVars
  <2>2. queue = <<>> /\ writer.at # "writing"
    BY <1>0, <2>1
  <2>3. client' = "idle"
    BY <1>3 DEF ReceiveAnswer, ReceiveNothing, Ends
  <2> QED BY <1>1, <2>1, <2>2, <2>3
<1>4. CASE Expire
  BY <1>4 DEF Expire
<1>5. ASSUME NEW last \in BOOLEAN, SendWithin(last) PROVE OneRequest'
  <2>1. client = "idle" /\ client' = "sending" /\ outcome' = "none" /\ asked' = nextId
        /\ UNCHANGED writer
    BY <1>5 DEF SendWithin
  <2>2. queue = <<>> /\ writer.at # "writing"
    BY <1>0, <2>1
  <2>3. writer.at \in {"idle", "gone"}
    BY <1>w, <2>2
  <2>4. queue' = IF ~WriterGone THEN <<nextId>> ELSE <<>>
    BY <1>5, <2>2 DEF SendWithin
  <2>5. Head(<<nextId>>) = nextId
    <3>1. nextId \in 0 .. MaxId + 1
      BY DEF ExchangeTyped, ClientTyped
    <3> QED BY <3>1, OnOne
  <2>6. queue' # <<>> => writer.at = "idle" /\ Head(queue') = nextId
    BY <2>3, <2>4, <2>5
  <2> QED BY <2>1, <2>2, <2>6
<1>6. CASE Delivered
  BY <1>0, <1>6 DEF Delivered, writerVars
<1>7. CASE SendRefused \/ DropHelper
  BY <1>0, <1>7 DEF SendRefused, DropHelper
<1>8. CASE FoundExited \/ FoundRunning \/ TerminateAndWait
  BY <1>0, <1>8 DEF FoundExited, FoundRunning, TerminateAndWait
<1>9. CASE WriterTakes
  <2>1. queue # <<>> /\ queue' = <<>> /\ UNCHANGED <<client, asked, outcome>>
    BY <1>9 DEF WriterTakes, clientVars
  <2>2. writer'.at = "writing" /\ writer'.id = Head(queue) /\ writer'.left = 2
    BY <1>9 DEF WriterTakes
  <2>3. writer'.left \in 1 .. 2
    BY <2>2, OneAndTwo, Zenon
  <2>4. client = "sending" /\ outcome = "none" /\ Head(queue) = asked
    BY <1>0, <2>1
  <2> QED BY <2>1, <2>2, <2>3, <2>4
<1>10. CASE WriterWrites
  <2>1. writer.at = "writing" /\ UNCHANGED <<client, asked, queue>>
    BY <1>10 DEF WriterWrites, clientVars
  <2>2. client = "sending" /\ outcome = "none" /\ writer.id = asked /\ queue = <<>>
    BY <1>0, <2>1
  <2>3. \/ writer'.at = "idle" /\ outcome' = "written"
        \/ writer'.at = "writing" /\ writer'.id = asked /\ writer'.left = 1 /\ outcome' = "none"
    BY <1>w, <1>10, <2>1, <2>2 DEF WriterWrites, Reports
  <2> QED BY <2>1, <2>2, <2>3, OneAndTwo
<1>11. CASE WriterFails
  <2>1. writer.at = "writing" /\ UNCHANGED <<client, asked, queue>> /\ writer'.at = "gone"
    BY <1>w, <1>11 DEF WriterFails, clientVars
  <2>2. client = "sending" /\ writer.id = asked /\ queue = <<>>
    BY <1>0, <2>1
  <2>3. outcome' \in {"failed", "too large"}
    BY <1>11, <2>2 DEF WriterFails, Reports
  <2> QED BY <2>1, <2>2, <2>3
<1>12. CASE WriterLeaves
  BY <1>0, <1>12 DEF WriterLeaves, clientVars
<1>13. CASE UNCHANGED <<clientVars, writerVars>>
  BY <1>0, <1>13 DEF clientVars, writerVars
<1>14. (NumberReused \/ Reader \/ Helper \/ UNCHANGED exchangeVars)
         => UNCHANGED <<clientVars, writerVars>>
  BY DEF NumberReused, Reader, ReaderReads, ReaderSends, ReaderAtEnd, ReaderLeaves, Helper,
         ServeReads, CompilerStarts, ServeWrites, HelperExits, ServeAnswers, Lies, exchangeVars
<1> QED BY <1>2, <1>3, <1>4, <1>5, <1>6, <1>7, <1>8, <1>9, <1>10, <1>11, <1>12, <1>13, <1>14
        DEF ExchangeNext, Client, Writer

(***************************************************************************)
(* Where the exchange under way is, in chunks, while the helper keeps to   *)
(* its loop: what is written of the request, and what is back of the answer. *)
(***************************************************************************)

Written ==
    IF writer.at = "writing" THEN 2 - writer.left
    ELSE IF client \in {"sending", "receiving"} /\ outcome = "written" THEN 2 ELSE 0

Back == Len(reader.have) + Len(toClient) + 2 * Len(answers)

\* A request is read before it is answered and answered once: nothing of the
\* answer is there before all of the request was written and read, and until
\* then the helper has what was written.
Placed ==
    /\ Back <= 2
    /\ Back > 0 => Written = 2 /\ Len(toHelper) = 0
    /\ helper = "reading" =>
          \/ Back = 0 /\ Len(toHelper) + request.parts = Written
          \/ Back = 2 /\ request.parts = 0
    /\ helper \in {"working", "writing"} => Written = 2 /\ Len(toHelper) = 0
    /\ helper = "working" => Back = 0
    /\ helper = "writing" => Back + Len(saying) = 2

\* Whose the answer on its way is: all of it of one response.
Genuine ==
    \E r \in Response :
        /\ r.body # "unreadable"
        /\ \A c \in ToSet(reader.have) \cup ToSet(toClient) \cup ToSet(saying) : c.of = r

InStep ==
    /\ Placed
    /\ Genuine
    /\ helper = "reading" /\ request.parts = 0 => request.id = NoId
    /\ ReaderGone => HelperExited /\ toClient = <<>>
    /\ client = "idle" /\ result.what \in Kept => writer.at = "idle" /\ toHelper = <<>>

\* Numbers that add up to little.
LEMMA Sums ==
    \A a, b, c \in Nat : /\ a + b + 2 * c \in Nat
                         /\ a + b + 2 * c = 0 => a = 0 /\ b = 0 /\ c = 0
                         /\ a + b + 2 * c <= 2 /\ c > 0 => a = 0 /\ b = 0 /\ c = 1
OBVIOUS

\* Two is all of two.
LEMMA PartOfTwo == \A b, n \in Nat : b + n = 2 /\ n = 0 => b = 2
OBVIOUS

\* A part of two that is neither none nor all is one.
LEMMA LessThanTwo == \A n \in Nat : n < 2 /\ n # 0 => n = 1
OBVIOUS

\* What is written and what has come back can be counted.
LEMMA Counted ==
    ASSUME ExchangeTyped, OneRequest
    PROVE  /\ Back \in Nat /\ Written \in 0 .. 2
           /\ Len(toHelper) \in Nat /\ Len(toClient) \in Nat /\ Len(answers) \in Nat
           /\ Len(reader.have) \in Nat /\ Len(saying) \in Nat /\ request.parts \in 0 .. 2
           /\ toHelper \in Seq(ToChunk) /\ toClient \in Seq(FromChunk) /\ saying \in Seq(FromChunk)
           /\ reader.have \in Seq(FromChunk) /\ answers \in Seq(Received)
<1>1. /\ toHelper \in Seq(ToChunk) /\ toClient \in Seq(FromChunk) /\ saying \in Seq(FromChunk)
      /\ reader.have \in Seq(FromChunk) /\ answers \in Seq(Received) /\ request.parts \in 0 .. 2
  BY DEF ExchangeTyped, PipesTyped, ThreadsTyped, HelperTyped
<1>2. /\ Len(toHelper) \in Nat /\ Len(toClient) \in Nat /\ Len(answers) \in Nat
      /\ Len(reader.have) \in Nat /\ Len(saying) \in Nat
  BY <1>1, OnLength
<1>3. Back \in Nat
  BY <1>2, Sums DEF Back
<1>4. Written \in 0 .. 2
  <2>1. CASE writer.at = "writing"
    <3>1. writer.left \in 1 .. 2
      BY <2>1 DEF OneRequest
    <3> QED BY <2>1, <3>1 DEF Written
  <2>2. CASE writer.at # "writing"
    <3>1. Written = 2 \/ Written = 0
      BY <2>2 DEF Written
    <3> QED BY <3>1
  <2> QED BY <2>1, <2>2
<1> QED BY <1>1, <1>2, <1>3, <1>4

\* What the client side holds back of the answer.
LEMMA NothingBack ==
    ASSUME ExchangeTyped, OneRequest, Back = 0
    PROVE  reader.have = <<>> /\ toClient = <<>> /\ answers = <<>>
<1>1. Len(reader.have) = 0 /\ Len(toClient) = 0 /\ Len(answers) = 0
  <2>1. Len(reader.have) \in Nat /\ Len(toClient) \in Nat /\ Len(answers) \in Nat
    BY Counted
  <2> QED BY <2>1, Sums DEF Back
<1> QED BY <1>1, Counted, OnLength

\* At first nothing is written and nothing has come back.
LEMMA InStepInit == ExchangeInit => InStep
<1> SUFFICES ASSUME ExchangeInit PROVE InStep
  OBVIOUS
<1>1. Len(reader.have) = 0 /\ Len(toClient) = 0 /\ Len(answers) = 0 /\ Len(toHelper) = 0
  BY OnEmpty DEF ExchangeInit
<1>2. Back = 0 /\ Written = 0
  BY <1>1 DEF ExchangeInit, Back, Written
<1>3. helper = "reading" /\ request.parts = 0
  BY DEF ExchangeInit
<1>4. Placed
  BY <1>1, <1>2, <1>3 DEF Placed
<1>5. Genuine
  <2>1. 0 \in Ids
    BY Bounds
  <2>2. ResponseTo(0, "fine") \in Response /\ ResponseTo(0, "fine").body # "unreadable"
    BY <2>1 DEF ResponseTo, Response, Revisions, Bodies
  <2>3. ToSet(reader.have) \cup ToSet(toClient) \cup ToSet(saying) = {}
    BY OnEmpty DEF ExchangeInit
  <2> QED BY <2>2, <2>3 DEF Genuine
<1>6. toHelper = <<>> /\ request.id = NoId /\ ~ReaderGone /\ writer.at = "idle"
  BY DEF ExchangeInit, ReaderGone
<1> QED BY <1>4, <1>5, <1>6 DEF InStep

\* The client's steps: an exchange begins with nothing under way and ends with
\* the whole answer taken, or with a helper or a writer that is gone.
LEMMA ClientInStep ==
    ASSUME ExchangeTyped, OneRequest, InStep, Live, Live',
           \/ \E last \in BOOLEAN : SendWithin(last)
           \/ Delivered \/ NotDelivered \/ ReceiveAnswer \/ ReceiveNothing
    PROVE  InStep'
<1>0. /\ Back \in Nat /\ Written \in 0 .. 2 /\ Placed
      /\ Len(toHelper) \in Nat /\ request.parts \in 0 .. 2 /\ Len(saying) \in Nat
      /\ Len(toClient) \in Nat /\ Len(answers) \in Nat /\ Len(reader.have) \in Nat
  BY Counted DEF InStep
<1>1. UNCHANGED <<helper, request, saying, toHelper, toClient, reader>>
  BY DEF SendWithin, Delivered, NotDelivered, ReceiveAnswer, ReceiveNothing, readerVars, helperVars
<1>2. Genuine'
  BY <1>1 DEF InStep, Genuine
<1>3. (helper = "reading" /\ request.parts = 0 => request.id = NoId)'
      /\ (ReaderGone => HelperExited /\ toClient = <<>>)'
  BY <1>1 DEF InStep, ReaderGone, HelperExited
<1>4. ASSUME NEW last \in BOOLEAN, SendWithin(last) PROVE InStep'
  <2>1. client = "idle" /\ client' = "sending" /\ outcome' = "none" /\ UNCHANGED <<writer, answers>>
    BY <1>4 DEF SendWithin, readerVars
  <2>2. writer.at # "writing"
    BY <2>1 DEF OneRequest
  <2>3. Written = 0 /\ Written' = 0
    BY <2>1, <2>2 DEF Written
  <2>4. Back' = Back
    BY <1>1, <2>1 DEF Back
  <2>5. Placed'
    BY <1>0, <1>1, <2>3, <2>4 DEF Placed
  <2> QED BY <1>2, <1>3, <2>1, <2>5 DEF InStep
<1>5. CASE Delivered
  <2>1. client' = "receiving" /\ client = "sending" /\ UNCHANGED <<writer, outcome, answers>>
    BY <1>5 DEF Delivered, writerVars, readerVars
  <2>2. Back' = Back /\ Written' = Written
    BY <1>1, <2>1 DEF Back, Written
  <2>3. Placed'
    BY <1>0, <1>1, <2>2 DEF Placed
  <2> QED BY <1>2, <1>3, <2>1, <2>3 DEF InStep
<1>6. CASE NotDelivered
  <2>1. client = "sending" /\ client' = "idle" /\ UNCHANGED <<writer, outcome, answers>>
        /\ result'.what \in {"died", "frame error"}
    <3>1. client = "sending" /\ UNCHANGED <<writer, outcome, answers>>
      BY <1>6 DEF NotDelivered, writerVars, readerVars
    <3>2. PICK what \in {"died", "frame error"} : Ends(what)
      BY <1>6 DEF NotDelivered
    <3>3. result'.what = what /\ client' \in {"idle", "reaping"}
      BY <3>2 DEF Ends
    <3> QED BY <3>1, <3>3 DEF Live
  <2>2. writer.at = "gone" /\ outcome # "written"
    BY <1>6, <2>1 DEF NotDelivered, WriterLeft, OneRequest, WriterGone
  <2>3. Written = 0 /\ Written' = 0
    BY <2>1, <2>2 DEF Written
  <2>4. Back' = Back
    BY <1>1, <2>1 DEF Back
  <2>5. Placed'
    BY <1>0, <1>1, <2>3, <2>4 DEF Placed
  <2>6. result'.what \notin Kept
    BY <2>1 DEF Kept
  <2> QED BY <1>2, <1>3, <2>5, <2>6 DEF InStep
<1>7. CASE ReceiveAnswer \/ ReceiveNothing
  <2>1. client = "receiving" /\ client' = "idle" /\ UNCHANGED <<writer, outcome>>
    BY <1>7 DEF ReceiveAnswer, ReceiveNothing, Ends, Live, writerVars
  <2>2. writer.at = "idle"
    BY <2>1 DEF OneRequest
  <2>3. Written' = 0
    BY <2>1, <2>2 DEF Written
  <2>4. CASE ReceiveAnswer
    <3>1. answers # <<>> /\ answers' = Tail(answers) /\ answers \in Seq(Received)
      BY <2>4, Counted DEF ReceiveAnswer
    <3>2. Len(answers) > 0 /\ Len(answers') = Len(answers) - 1
      BY <3>1, OnTail
    <3>3. Back <= 2
      BY <1>0 DEF Placed
    <3>4. Len(answers) = 1 /\ Len(reader.have) = 0 /\ Len(toClient) = 0
      BY <1>0, <3>2, <3>3, Sums DEF Back
    <3>5. Back = 2 /\ Back' = 0
      BY <1>1, <3>2, <3>4 DEF Back
    <3>6. Len(toHelper) = 0
      BY <1>0, <3>5 DEF Placed
    <3>7. toHelper = <<>>
      BY <3>6, Counted, OnLength
    <3>8. helper = "writing" => Len(saying) # 0
      BY Counted, OnLength DEF ExchangeTyped, HelperTyped
    <3>9. helper \notin {"working", "writing"} /\ (helper = "reading" => request.parts = 0)
      BY <1>0, <3>5, <3>8 DEF Placed
    <3>10. Placed'
      BY <1>0, <1>1, <2>3, <3>5, <3>6, <3>9 DEF Placed
    <3> QED BY <1>1, <1>2, <1>3, <2>1, <2>2, <3>7, <3>10 DEF InStep
  <2>5. CASE ReceiveNothing
    <3>1. answers = <<>> /\ UNCHANGED answers /\ reader.at = "gone" /\ result'.what = "died"
      BY <2>5 DEF ReceiveNothing, ReaderGone, Ends, readerVars
    <3>2. helper = "exited" /\ toClient = <<>> /\ reader.have = <<>>
      BY <3>1 DEF InStep, ReaderGone, HelperExited, ExchangeTyped, ThreadsTyped
    <3>3. Back' = 0
      BY <1>1, <3>1, <3>2, OnEmpty DEF Back
    <3>4. Placed'
      BY <1>0, <1>1, <2>3, <3>2, <3>3 DEF Placed
    <3>5. result'.what \notin Kept
      BY <3>1 DEF Kept
    <3> QED BY <1>2, <1>3, <3>4, <3>5 DEF InStep
  <2> QED BY <1>7, <2>4, <2>5
<1> QED BY <1>4, <1>5, <1>6, <1>7

\* The writer's steps: what it writes the helper has, and what it fails to
\* write is answered by nobody.
LEMMA WriterInStep ==
    ASSUME ExchangeTyped, OneRequest, InStep, Live, Writer
    PROVE  InStep'
<1>0. /\ Back \in Nat /\ Written \in 0 .. 2 /\ Placed
      /\ Len(toHelper) \in Nat /\ request.parts \in 0 .. 2 /\ Len(saying) \in Nat
      /\ toHelper \in Seq(ToChunk)
  BY Counted DEF InStep
<1>1. UNCHANGED <<client, asked, result, helper, request, saying, toClient, reader, answers>>
  BY DEF Writer, WriterTakes, WriterWrites, WriterFails, WriterLeaves, clientVars, readerVars,
         helperVars
<1>2. Back' = Back /\ Genuine'
      /\ (helper = "reading" /\ request.parts = 0 => request.id = NoId)'
      /\ (ReaderGone => HelperExited /\ toClient = <<>>)'
  BY <1>1 DEF Back, InStep, Genuine, ReaderGone, HelperExited
<1>3. CASE WriterTakes
  <2>1. queue # <<>> /\ UNCHANGED <<outcome, toHelper>> /\ writer'.at = "writing" /\ writer'.left = 2
    BY <1>3 DEF WriterTakes
  <2>2. client = "sending" /\ outcome = "none" /\ writer.at = "idle"
    BY <2>1 DEF OneRequest
  <2>3. Written = 0 /\ Written' = 0
    BY <1>1, <2>1, <2>2 DEF Written
  <2>4. Placed'
    BY <1>0, <1>1, <1>2, <2>1, <2>3 DEF Placed
  <2> QED BY <1>1, <1>2, <2>2, <2>4 DEF InStep
<1>4. CASE WriterWrites
  <2>1. /\ writer.at = "writing" /\ helper # "exited"
        /\ toHelper' = Append(toHelper, Chunk(writer.id, 3 - writer.left))
    BY <1>4 DEF WriterWrites, HelperExited
  <2>2. client = "sending" /\ outcome = "none" /\ writer.id = asked /\ writer.left \in 1 .. 2
    BY <2>1 DEF OneRequest
  <2>3. Written = 2 - writer.left
    BY <2>1 DEF Written
  <2>4. Written' = Written + 1
    <3>1. CASE writer.left = 1
      <4>1. writer'.at = "idle" /\ outcome' = "written"
        BY <1>4, <2>2, <3>1 DEF WriterWrites, Reports
      <4>2. Written' = 2
        BY <1>1, <2>2, <4>1 DEF Written
      <4> QED BY <2>3, <3>1, <4>2
    <3>2. CASE writer.left = 2
      <4>1. writer \in [at : {"idle", "writing", "gone"}, id : Ids \cup {NoId}, left : 0 .. 2]
        BY DEF ExchangeTyped, ThreadsTyped
      <4>2. writer' = [writer EXCEPT !.left = 1]
        BY <1>4, <3>2 DEF WriterWrites
      <4>3. writer'.at = "writing" /\ writer'.left = 1
        BY <2>1, <4>1, <4>2
      <4>4. Written' = 2 - 1
        BY <4>3 DEF Written
      <4> QED BY <2>3, <3>2, <4>4
    <3> QED BY <2>2, <3>1, <3>2
  <2>5. Written \in 0 .. 1
    BY <2>2, <2>3
  <2>6. Len(toHelper') = Len(toHelper) + 1
    <3>1. PICK c \in ToChunk : c = Chunk(writer.id, 3 - writer.left)
      <4>1. writer.id \in Ids /\ 3 - writer.left \in 0 .. 3
        BY <2>1, <2>2 DEF ExchangeTyped, ThreadsTyped
      <4> QED BY <4>1 DEF Chunk, ToChunk
    <3> QED BY <1>0, <2>1, <3>1, OnAppend
  <2>7. Back = 0 /\ helper \notin {"working", "writing"}
        /\ (helper = "reading" => Len(toHelper) + request.parts = Written)
    BY <1>0, <2>5 DEF Placed
  <2>8. Placed'
    BY <1>0, <1>1, <1>2, <2>1, <2>4, <2>6, <2>7 DEF Placed
  <2> QED BY <1>1, <1>2, <2>2, <2>8 DEF InStep
<1>5. CASE WriterFails
  <2>1. writer.at = "writing" /\ writer' = [writer EXCEPT !.at = "gone"] /\ UNCHANGED toHelper
    BY <1>5 DEF WriterFails
  <2>2. client = "sending" /\ writer.id = asked /\ writer.left \in 1 .. 2
    BY <2>1 DEF OneRequest
  <2>3. writer'.at = "gone"
    <3>1. writer \in [at : {"idle", "writing", "gone"}, id : Ids \cup {NoId}, left : 0 .. 2]
      BY DEF ExchangeTyped, ThreadsTyped
    <3> QED BY <2>1, <3>1
  <2>4. outcome' \in {"failed", "too large"} /\ (HelperExited \/ writer.left = 2)
    BY <1>5, <2>2 DEF WriterFails, Reports
  <2>5. Written' = 0
    BY <2>3, <2>4 DEF Written
  <2>6. Written = 2 - writer.left
    BY <2>1 DEF Written
  <2>7. Written \in 0 .. 1 /\ (Written = 0 \/ helper = "exited")
    <3>1. CASE writer.left = 1
      <4>1. Written = 1
        BY <2>6, <3>1
      <4>2. helper = "exited"
        BY <2>4, <3>1, OneAndTwo, Zenon DEF HelperExited
      <4> QED BY <4>1, <4>2
    <3>2. CASE writer.left = 2
      BY <2>6, <3>2
    <3> QED BY <2>2, <3>1, <3>2
  <2>8. Back = 0
    BY <1>0, <2>7 DEF Placed
  <2>9. Placed'
    BY <1>0, <1>1, <1>2, <2>1, <2>5, <2>7, <2>8 DEF Placed
  <2> QED BY <1>1, <1>2, <2>2, <2>9 DEF InStep
<1>6. CASE WriterLeaves
  BY <1>6 DEF WriterLeaves, Live
<1> QED BY <1>3, <1>4, <1>5, <1>6 DEF Writer

\* What is genuine stays so when it moves or goes.
LEMMA StillGenuine ==
    ASSUME Genuine,
           ToSet(reader.have)' \cup ToSet(toClient)' \cup ToSet(saying)'
             \subseteq ToSet(reader.have) \cup ToSet(toClient) \cup ToSet(saying)
    PROVE  Genuine'
<1>1. PICK r \in Response :
        /\ r.body # "unreadable"
        /\ \A c \in ToSet(reader.have) \cup ToSet(toClient) \cup ToSet(saying) : c.of = r
  BY DEF Genuine
<1>2. \A c \in ToSet(reader.have)' \cup ToSet(toClient)' \cup ToSet(saying)' : c.of = r
  BY <1>1
<1> QED BY <1>1, <1>2 DEF Genuine

\* The reader's steps carry the answer on, and see the end only of a helper
\* that is gone.
LEMMA ReaderInStep ==
    ASSUME ExchangeTyped, OneRequest, InStep, Live, Reader
    PROVE  InStep'
<1>0. /\ Back \in Nat /\ Written \in 0 .. 2 /\ Placed /\ Genuine
      /\ Len(toHelper) \in Nat /\ request.parts \in 0 .. 2 /\ Len(saying) \in Nat
      /\ Len(toClient) \in Nat /\ Len(answers) \in Nat /\ Len(reader.have) \in Nat
      /\ toClient \in Seq(FromChunk) /\ reader.have \in Seq(FromChunk) /\ answers \in Seq(Received)
  BY Counted DEF InStep
<1>1. UNCHANGED <<client, outcome, writer, result, helper, request, saying, toHelper>>
  BY DEF Reader, ReaderReads, ReaderSends, ReaderAtEnd, ReaderLeaves, clientVars, writerVars,
         helperVars
<1>2. Written' = Written
      /\ (helper = "reading" /\ request.parts = 0 => request.id = NoId)'
      /\ (client = "idle" /\ result.what \in Kept => writer.at = "idle" /\ toHelper = <<>>)'
  BY <1>1 DEF Written, InStep
<1>3. Back' = Back => Placed'
  BY <1>0, <1>1, <1>2 DEF Placed
<1>4. CASE ReaderReads
  <2>1. PICK have : have = Append(reader.have, Head(toClient))
    OBVIOUS
  <2>2. /\ toClient # <<>> /\ toClient' = Tail(toClient) /\ UNCHANGED answers
        /\ reader'.have = have /\ reader'.at \in {"sending", "reading"}
    BY <1>4, <2>1 DEF ReaderReads
  <2>3. /\ Head(toClient) \in FromChunk /\ Head(toClient) \in ToSet(toClient)
        /\ Len(toClient') = Len(toClient) - 1 /\ ToSet(toClient') \subseteq ToSet(toClient)
    BY <1>0, <2>2, OnTail
  <2>4. /\ Len(have) = Len(reader.have) + 1
        /\ ToSet(have) = ToSet(reader.have) \cup {Head(toClient)}
    BY <1>0, <2>1, <2>3, OnAppend
  <2>5. Back' = Back
    <3>1. Back' = (Len(reader.have) + 1) + (Len(toClient) - 1) + 2 * Len(answers)
      BY <2>2, <2>3, <2>4 DEF Back
    <3>2. PICK a \in Nat, b \in Nat, c \in Nat :
            a = Len(reader.have) /\ b = Len(toClient) /\ c = Len(answers)
      BY <1>0
    <3>3. (a + 1) + (b - 1) + 2 * c = a + b + 2 * c
      OBVIOUS
    <3>4. Back = a + b + 2 * c /\ Back' = (a + 1) + (b - 1) + 2 * c
      BY <3>1, <3>2 DEF Back
    <3> QED BY <3>3, <3>4
  <2>6. Genuine'
    BY <1>0, <1>1, <2>2, <2>3, <2>4, StillGenuine
  <2>7. ~ReaderGone'
    BY <2>2 DEF ReaderGone
  <2> QED BY <1>2, <1>3, <2>5, <2>6, <2>7 DEF InStep
<1>5. CASE ReaderSends
  <2>1. reader.at = "sending" /\ UNCHANGED toClient /\ reader'.have = <<>>
        /\ answers' = Append(answers, Parsed(reader.have))
        /\ reader'.at = IF Parsed(reader.have) = FrameError THEN "gone" ELSE "reading"
    BY <1>5 DEF ReaderSends
  <2>2. Len(reader.have) = 2
    BY <2>1 DEF ExchangeTyped, ThreadsTyped
  <2>3. PICK r \in Response :
          r.body # "unreadable" /\ \A c \in ToSet(reader.have) : c.of = r
    BY <1>0 DEF Genuine
  <2>4. reader.have[1].of = r /\ reader.have[2].of = r
    <3>1. 1 \in 1 .. Len(reader.have) /\ 2 \in 1 .. Len(reader.have)
      BY <2>2
    <3>2. reader.have[1] \in ToSet(reader.have) /\ reader.have[2] \in ToSet(reader.have)
      BY <1>0, <3>1, OnLength
    <3> QED BY <2>3, <3>2
  <2>5. Parsed(reader.have) = r /\ r # FrameError /\ r \in Received
    BY <2>3, <2>4, Bounds DEF Parsed, Received
  <2>6. Len(answers') = Len(answers) + 1
    BY <1>0, <2>1, <2>5, OnAppend
  <2>7. Len(reader'.have) = 0 /\ ToSet(reader'.have) = {}
    BY <2>1, OnEmpty
  <2>8. Back' = Back
    <3>1. Back = 2 + Len(toClient) + 2 * Len(answers)
      BY <2>2 DEF Back
    <3>2. Back' = 0 + Len(toClient) + 2 * (Len(answers) + 1)
      BY <2>1, <2>6, <2>7 DEF Back
    <3> QED BY <1>0, <3>1, <3>2
  <2>9. Genuine'
    BY <1>0, <1>1, <2>1, <2>7, StillGenuine
  <2>10. ~ReaderGone'
    BY <2>1, <2>5 DEF ReaderGone
  <2> QED BY <1>2, <1>3, <2>8, <2>9, <2>10 DEF InStep
<1>6. CASE ReaderAtEnd
  <2>1. /\ reader.at = "reading" /\ toClient = <<>> /\ helper = "exited" /\ client # "gone"
        /\ reader'.have = <<>> /\ UNCHANGED toClient
        /\ answers' = IF reader.have = <<>> THEN answers ELSE Append(answers, FrameError)
    BY <1>6 DEF ReaderAtEnd, HelperExited, Live
  <2>2. Len(reader'.have) = 0 /\ ToSet(reader'.have) = {} /\ Len(toClient) = 0
    BY <2>1, OnEmpty
  <2>3. Genuine'
    BY <1>0, <1>1, <2>1, <2>2, StillGenuine
  <2>4. Placed'
    <3>1. CASE reader.have = <<>>
      <4>1. Len(reader.have) = 0
        BY <3>1, OnEmpty
      <4>2. Back' = Back
        BY <2>1, <2>2, <3>1, <4>1 DEF Back
      <4> QED BY <1>3, <4>2
    <3>2. CASE reader.have # <<>>
      <4>1. Len(reader.have) = 1
        <5>1. Len(reader.have) < 2
          BY <2>1 DEF ExchangeTyped, ThreadsTyped
        <5>2. Len(reader.have) # 0
          BY <1>0, <3>2, OnLength
        <5> QED BY <1>0, <5>1, <5>2, LessThanTwo
      <4>2. Back = 1 + 0 + 2 * Len(answers) /\ Back <= 2
        BY <1>0, <2>2, <4>1 DEF Back, Placed
      <4>3. Len(answers) = 0 /\ Back = 1
        BY <1>0, <4>2
      <4>4. Len(answers') = Len(answers) + 1
        <5>1. FrameError \in Received
          BY DEF Received
        <5>2. answers' = Append(answers, FrameError)
          BY <2>1, <3>2
        <5> QED BY <1>0, <5>1, <5>2, OnAppend
      <4>5. Back' = 2
        BY <2>1, <2>2, <4>3, <4>4 DEF Back
      <4>6. Written = 2 /\ Len(toHelper) = 0
        BY <1>0, <4>3 DEF Placed
      <4> QED BY <1>1, <1>2, <2>1, <4>5, <4>6 DEF Placed
    <3> QED BY <3>1, <3>2
  <2>5. HelperExited' /\ (toClient = <<>>)'
    BY <1>1, <2>1 DEF HelperExited
  <2> QED BY <1>2, <2>3, <2>4, <2>5 DEF InStep
<1>7. CASE ReaderLeaves
  BY <1>7 DEF ReaderLeaves, Live
<1> QED BY <1>4, <1>5, <1>6, <1>7 DEF Reader

\* What a helper does that keeps to its loop.
Serves ==
    \/ ServeReads \/ CompilerStarts \/ ServeWrites \/ HelperExits
    \/ \E body \in {"fine", "failed", "too large"} : ServeAnswers(body)

\* Its steps: a request is read whole, worked on, and answered once.
LEMMA HelperInStep == ASSUME ExchangeTyped, OneRequest, InStep, Live, Serves PROVE InStep'
<1>0. /\ Back \in Nat /\ Written \in 0 .. 2 /\ Placed /\ Genuine
      /\ Len(toHelper) \in Nat /\ request.parts \in 0 .. 2 /\ Len(saying) \in Nat
      /\ Len(toClient) \in Nat /\ Len(answers) \in Nat /\ Len(reader.have) \in Nat
      /\ toClient \in Seq(FromChunk) /\ saying \in Seq(FromChunk) /\ toHelper \in Seq(ToChunk)
  BY Counted DEF InStep
<1>1. UNCHANGED <<client, outcome, writer, result, reader, answers>>
  BY DEF Serves, ServeReads, CompilerStarts, ServeWrites, HelperExits, ServeAnswers, clientVars,
         writerVars, readerVars
<1>2. Written' = Written /\ helper # "exited"
  <2>1. Written' = Written
    BY <1>1 DEF Written
  <2>2. helper # "exited"
    BY DEF Serves, ServeReads, CompilerStarts, ServeWrites, HelperExits, ServeAnswers, HelperExited
  <2> QED BY <2>1, <2>2
<1>3. ~ReaderGone /\ ~ReaderGone'
  <2>1. ~ReaderGone
    BY <1>2 DEF InStep, HelperExited
  <2> QED BY <1>1, <2>1 DEF ReaderGone
<1>4. CASE ServeReads
  <2>1. /\ helper = "reading" /\ toHelper # <<>> /\ toHelper' = Tail(toHelper)
        /\ request' = [id |-> Head(toHelper).of, parts |-> request.parts + 1]
        /\ helper' = IF request'.parts = 2 THEN "working" ELSE "reading"
        /\ UNCHANGED <<saying, toClient>>
    BY <1>4 DEF ServeReads
  <2>2. Len(toHelper) > 0 /\ Len(toHelper') = Len(toHelper) - 1
    BY <1>0, <2>1, OnTail
  <2>3. Back' = Back
    BY <1>1, <2>1 DEF Back
  <2>4. Back = 0 /\ Len(toHelper) + request.parts = Written
    BY <1>0, <2>1, <2>2 DEF Placed
  <2>5. request'.parts = request.parts + 1
    BY <2>1
  <2>6. Placed'
    <3>1. PICK h \in Nat, n \in 0 .. 2, w \in 0 .. 2 :
            h = Len(toHelper) /\ n = request.parts /\ w = Written
      BY <1>0
    <3>2. h > 0 /\ h + n = w
      BY <2>2, <2>4, <3>1
    <3>3. Len(toHelper') = h - 1 /\ request'.parts = n + 1 /\ Written' = w /\ Back' = 0
      BY <1>2, <2>2, <2>3, <2>4, <2>5, <3>1
    <3>4. CASE n + 1 = 2
      <4>1. helper' = "working" /\ h - 1 = 0 /\ w = 2
        BY <2>1, <3>2, <3>3, <3>4
      <4> QED BY <3>3, <4>1 DEF Placed
    <3>5. CASE n + 1 # 2
      <4>1. helper' = "reading" /\ (h - 1) + (n + 1) = w
        BY <2>1, <3>2, <3>3, <3>5
      <4> QED BY <3>3, <4>1 DEF Placed
    <3> QED BY <3>4, <3>5
  <2>7. Genuine'
    BY <1>0, <1>1, <2>1 DEF Genuine
  <2>8. ~(client = "idle" /\ result.what \in Kept)
    BY <2>1 DEF InStep
  <2>9. request'.parts # 0
    BY <1>0, <2>5
  <2> QED BY <1>1, <1>3, <2>6, <2>7, <2>8, <2>9 DEF InStep
<1>5. CASE CompilerStarts
  <2>1. UNCHANGED <<helper, request, saying, toHelper, toClient>>
    BY <1>5 DEF CompilerStarts
  <2>2. Back' = Back
    BY <1>1, <2>1 DEF Back
  <2>3. Placed'
    BY <1>0, <1>2, <2>1, <2>2 DEF Placed
  <2> QED BY <1>1, <1>3, <2>1, <2>3 DEF InStep, Genuine
<1>6. CASE ServeWrites
  <2>1. /\ helper = "writing" /\ toClient' = Append(toClient, Head(saying)) /\ saying' = Tail(saying)
        /\ UNCHANGED toHelper
        /\ \/ saying' = <<>> /\ helper' = "reading" /\ request' = [id |-> NoId, parts |-> 0]
           \/ saying' # <<>> /\ UNCHANGED <<helper, request>>
    BY <1>6 DEF ServeWrites
  <2>2. saying # <<>>
    BY <2>1 DEF ExchangeTyped, HelperTyped
  <2>3. /\ Head(saying) \in FromChunk /\ Head(saying) \in ToSet(saying) /\ saying' \in Seq(FromChunk)
        /\ Len(saying') = Len(saying) - 1 /\ ToSet(saying') \subseteq ToSet(saying)
    BY <1>0, <2>1, <2>2, OnTail
  <2>4. /\ Len(toClient') = Len(toClient) + 1
        /\ ToSet(toClient') = ToSet(toClient) \cup {Head(saying)}
    BY <1>0, <2>1, <2>3, OnAppend
  <2>5. Genuine'
    BY <1>0, <1>1, <2>3, <2>4, StillGenuine
  <2>6. Back' = Back + 1
    <3>1. PICK a \in Nat, b \in Nat, c \in Nat :
            a = Len(reader.have) /\ b = Len(toClient) /\ c = Len(answers)
      BY <1>0
    <3>2. a + (b + 1) + 2 * c = (a + b + 2 * c) + 1
      OBVIOUS
    <3>3. Back = a + b + 2 * c /\ Back' = a + (b + 1) + 2 * c
      BY <1>1, <2>4, <3>1 DEF Back
    <3> QED BY <3>2, <3>3
  <2>7. Back + Len(saying) = 2 /\ Written = 2 /\ Len(toHelper) = 0
    BY <1>0, <2>1 DEF Placed
  <2>8. Back' + Len(saying') = 2
    BY <1>0, <2>3, <2>6, <2>7
  <2>9. Back' \in Nat /\ Len(saying') \in Nat
    BY <1>0, <2>3, <2>6, OnLength
  <2>10. CASE saying' = <<>> /\ helper' = "reading" /\ request' = [id |-> NoId, parts |-> 0]
    <3>1. Len(saying') = 0 /\ request'.parts = 0 /\ request'.id = NoId
      BY <2>10, OnEmpty
    <3>2. Back' = 2
      BY <2>8, <2>9, <3>1, PartOfTwo
    <3>3. Placed'
      BY <1>2, <2>1, <2>7, <2>10, <3>1, <3>2 DEF Placed
    <3> QED BY <1>1, <1>3, <2>1, <2>5, <3>1, <3>3 DEF InStep
  <2>11. CASE saying' # <<>> /\ UNCHANGED <<helper, request>>
    <3>1. Back' <= 2
      BY <2>8, <2>9
    <3>2. Placed'
      BY <1>2, <2>1, <2>7, <2>8, <2>11, <3>1 DEF Placed
    <3> QED BY <1>1, <1>3, <2>1, <2>5, <2>11, <3>2 DEF InStep
  <2> QED BY <2>1, <2>10, <2>11
<1>7. CASE HelperExits
  <2>1. helper' = "exited" /\ saying' = <<>> /\ UNCHANGED <<request, toHelper, toClient>>
    BY <1>7 DEF HelperExits
  <2>2. Back' = Back
    BY <1>1, <2>1 DEF Back
  <2>3. Placed'
    BY <1>0, <1>2, <2>1, <2>2 DEF Placed
  <2>4. ToSet(saying)' = {}
    BY <2>1, OnEmpty
  <2>5. Genuine'
    BY <1>0, <1>1, <2>1, <2>4, StillGenuine
  <2> QED BY <1>1, <1>3, <2>1, <2>3, <2>5 DEF InStep
<1>8. CASE \E body \in {"fine", "failed", "too large"} : ServeAnswers(body)
  <2>1. helper = "working" /\ helper' = "writing" /\ UNCHANGED <<request, toHelper, toClient>>
    BY <1>8 DEF ServeAnswers
  <2>2. request.id \in Ids
    <3>1. request.parts = 2
      BY <2>1 DEF ExchangeTyped, HelperTyped
    <3>2. request.parts > 0
      BY <3>1, OneAndTwo, Zenon
    <3> QED BY <3>2 DEF ExchangeTyped, HelperTyped
  <2>3. PICK r \in Response : r.body # "unreadable" /\ saying' = Frame(r)
    <3>1. PICK body \in {"fine", "failed", "too large"} : saying' = AnswerFrame(request.id, body)
      BY <1>8 DEF ServeAnswers
    <3> QED BY <2>2, <3>1, AnswersTyped
  <2>4. Len(saying') = 2 /\ \A c \in ToSet(saying') : c.of = r
    BY <2>3, FramesTyped
  <2>5. Back = 0 /\ Written = 2 /\ Len(toHelper) = 0
    BY <1>0, <2>1 DEF Placed
  <2>6. reader.have = <<>> /\ toClient = <<>>
    BY <2>5, NothingBack
  <2>7. Genuine'
    <3>1. ToSet(reader.have)' = {} /\ ToSet(toClient)' = {}
      BY <1>1, <2>1, <2>6, OnEmpty
    <3> QED BY <2>3, <2>4, <3>1 DEF Genuine
  <2>8. Back' = 0
    BY <1>1, <2>1, <2>5 DEF Back
  <2>9. Placed'
    BY <1>2, <2>1, <2>4, <2>5, <2>8 DEF Placed
  <2> QED BY <1>1, <1>3, <2>1, <2>7, <2>9 DEF InStep
<1> QED BY <1>4, <1>5, <1>6, <1>7, <1>8 DEF Serves

\* Once a deadline has passed, no exchange is kept any more.
LateIsKnown == expired => result.what \in {"timed out", "poisoned"}

\* A deadline that has passed stays the last result.
LEMMA LateIsKnownStep ==
    ExchangeTyped /\ EndsWell /\ LateIsKnown /\ [ExchangeNext]_exchangeVars => LateIsKnown'
<1> SUFFICES ASSUME ExchangeTyped, EndsWell, LateIsKnown, [ExchangeNext]_exchangeVars
             PROVE  LateIsKnown'
  OBVIOUS
<1> USE DEF LateIsKnown
<1>0. result \in [id : Ids \cup {NoId}, what : Kept \cup Broken \cup {"poisoned", "none"}]
  BY DEF ExchangeTyped, ClientTyped
<1>1. CASE Expire
  BY <1>1 DEF Expire, Ends
<1>2. CASE NotDelivered \/ ReceiveAnswer \/ ReceiveNothing
  <2>1. client \in {"sending", "receiving"} /\ UNCHANGED expired
    BY <1>2 DEF NotDelivered, ReceiveAnswer, ReceiveNothing
  <2> QED BY <2>1 DEF EndsWell
<1>3. CASE SendRefused
  BY <1>0, <1>3 DEF SendRefused
<1>4. CASE UNCHANGED <<expired, result>>
  BY <1>4
<1>5. ((\E last \in BOOLEAN : SendWithin(last)) \/ DropHelper \/ NumberReused \/ Delivered
         \/ FoundExited \/ FoundRunning \/ TerminateAndWait \/ UNCHANGED exchangeVars)
         => UNCHANGED <<expired, result>>
  BY DEF SendWithin, DropHelper, NumberReused, Delivered, FoundExited, FoundRunning,
         TerminateAndWait, clientVars, exchangeVars
<1>6. (Writer \/ Reader \/ Helper) => UNCHANGED <<expired, result>>
  BY DEF Writer, WriterTakes, WriterWrites, WriterFails, WriterLeaves, Reader, ReaderReads,
         ReaderSends, ReaderAtEnd, ReaderLeaves, Helper, ServeReads, CompilerStarts, ServeWrites,
         HelperExits, ServeAnswers, Lies, clientVars
<1> QED BY <1>1, <1>2, <1>3, <1>4, <1>5, <1>6 DEF ExchangeNext, Client

\* While the helper does not lie, every step keeps the conversation in step.
LEMMA InStepStep ==
    ExchangeTyped /\ EndsWell /\ (Live => OneRequest) /\ (Live /\ lies = 0 => InStep)
        /\ [ExchangeNext]_exchangeVars => (Live /\ lies = 0 => InStep)'
<1> SUFFICES ASSUME ExchangeTyped, EndsWell, Live => OneRequest, Live /\ lies = 0 => InStep,
                    [ExchangeNext]_exchangeVars, Live', lies' = 0
             PROVE  InStep'
  OBVIOUS
<1>1. Live /\ OneRequest
  BY LiveBefore
<1>2. CASE UNCHANGED exchangeVars
  <2>1. lies = 0
    BY <1>2 DEF exchangeVars, helperVars
  <2>2. InStep
    BY <1>1, <2>1
  <2> QED BY <1>2, <2>2 DEF exchangeVars, clientVars, writerVars, readerVars, helperVars, InStep,
             Placed, Genuine, Back, Written, ReaderGone, HelperExited
<1>3. CASE NumberReused
  <2>1. UNCHANGED <<clientVars, writerVars, readerVars, helperVars, toHelper, toClient>>
    BY <1>3 DEF NumberReused
  <2>2. lies = 0
    BY <2>1 DEF helperVars
  <2>3. InStep
    BY <1>1, <2>2
  <2> QED BY <2>1, <2>3 DEF clientVars, writerVars, readerVars, helperVars, InStep,
             Placed, Genuine, Back, Written, ReaderGone, HelperExited
<1>4. CASE (\E last \in BOOLEAN : SendWithin(last)) \/ Delivered \/ NotDelivered
           \/ ReceiveAnswer \/ ReceiveNothing
  <2>1. lies = 0
    BY <1>4 DEF SendWithin, Delivered, NotDelivered, ReceiveAnswer, ReceiveNothing, helperVars
  <2>2. InStep
    BY <1>1, <2>1
  <2> QED BY <1>1, <1>4, <2>2, ClientInStep
<1>5. CASE Writer
  <2>1. lies = 0
    BY <1>5 DEF Writer, WriterTakes, WriterWrites, WriterFails, WriterLeaves, helperVars
  <2>2. InStep
    BY <1>1, <2>1
  <2> QED BY <1>1, <1>5, <2>2, WriterInStep
<1>6. CASE Reader
  <2>1. lies = 0
    BY <1>6 DEF Reader, ReaderReads, ReaderSends, ReaderAtEnd, ReaderLeaves, helperVars
  <2>2. InStep
    BY <1>1, <2>1
  <2> QED BY <1>1, <1>6, <2>2, ReaderInStep
<1>7. CASE Serves
  <2>1. lies = 0
    BY <1>7 DEF Serves, ServeReads, CompilerStarts, ServeWrites, HelperExits, ServeAnswers
  <2>2. InStep
    BY <1>1, <2>1
  <2> QED BY <1>1, <1>7, <2>2, HelperInStep
\* A lie is remembered.
<1>8. ~(\E r \in Response : Lies(r))
  <2>1. lies \in Nat
    BY Bounds DEF ExchangeTyped, HelperTyped
  <2>2. lies + 1 # 0
    BY <2>1
  <2> QED BY <2>2 DEF Lies
\* A deadline or the end of the helper ends the conversation.
<1>9. ~(Expire \/ SendRefused \/ DropHelper \/ FoundExited \/ FoundRunning \/ TerminateAndWait)
  BY <1>1 DEF Live, Expire, SendRefused, DropHelper, FoundExited, FoundRunning, TerminateAndWait
<1> QED BY <1>2, <1>3, <1>4, <1>5, <1>6, <1>7, <1>8, <1>9 DEF ExchangeNext, Client, Helper, Serves

(***************************************************************************)
(* Together.                                                               *)
(***************************************************************************)

ConversationInv ==
    /\ ExchangeTyped /\ EndsWell /\ AnswersTheQuestion /\ LateIsKnown
    /\ Live => OneRequest
    /\ Live /\ lies = 0 => InStep

\* A conversation begins as it goes on.
LEMMA ConversationInvInit == ExchangeInit => ConversationInv
<1> SUFFICES ASSUME ExchangeInit PROVE ConversationInv
  OBVIOUS
<1>1. LateIsKnown
  BY DEF ExchangeInit, LateIsKnown
<1>2. OneRequest
  BY DEF ExchangeInit, OneRequest
<1> QED BY <1>1, <1>2, ExchangeTypedInit, EndsWellInit, QuestionInit, InStepInit DEF ConversationInv

\* Every step keeps the invariant of the conversation.
LEMMA ConversationInvStep ==
    ConversationInv /\ [ExchangeNext]_exchangeVars => ConversationInv'
BY ExchangeTypedStep, EndsWellStep, QuestionStep, LateIsKnownStep, OneRequestStep, InStepStep
   DEF ConversationInv

\* Nothing is under way in a conversation that is kept.
LEMMA PlaceIsKept == ConversationInv => KeepsItsPlace
<1> SUFFICES ASSUME ConversationInv, client = "idle", result.what \in Kept, lies = 0
             PROVE  /\ queue = <<>> /\ writer.at = "idle" /\ toHelper = <<>>
                    /\ toClient = <<>> /\ answers = <<>> /\ reader.have = <<>>
                    /\ HelperExited \/ request.id = NoId
  BY DEF KeepsItsPlace
<1>1. ~expired
  BY DEF ConversationInv, LateIsKnown, Kept
<1>2. ExchangeTyped /\ OneRequest /\ InStep
  BY <1>1 DEF ConversationInv, Live
<1>3. writer.at = "idle" /\ toHelper = <<>> /\ queue = <<>>
  BY <1>2 DEF InStep, OneRequest
<1>4. Written = 0
  BY <1>3 DEF Written
<1>5. Placed /\ Back \in Nat /\ request.parts \in 0 .. 2 /\ Len(toHelper) = 0
  BY <1>2, <1>3, Counted, OnEmpty DEF InStep
<1>6. Back = 0 /\ helper \notin {"working", "writing"}
  BY <1>4, <1>5 DEF Placed
<1>7. toClient = <<>> /\ answers = <<>> /\ reader.have = <<>>
  BY <1>2, <1>6, NothingBack
<1>8. helper \in {"reading", "exited"}
  BY <1>2, <1>6 DEF ExchangeTyped, HelperTyped
<1>9. helper = "reading" => request.parts = 0
  BY <1>4, <1>5, <1>6 DEF Placed
<1> QED BY <1>2, <1>3, <1>7, <1>8, <1>9 DEF InStep, HelperExited

\* The invariant is what ConversationIsSound promises of every state.
LEMMA ConversationInvSound == ConversationInv => ConversationIsSound
<1> SUFFICES ASSUME ConversationInv PROVE ConversationIsSound
  OBVIOUS
<1>1. FullOnlyAfterDeadline
  BY DEF ConversationInv, Live, OneRequest, FullOnlyAfterDeadline
<1>2. LateHelperIsReaped /\ StrangersAreSpared /\ NothingIsLeftBehind
  BY DEF ConversationInv, EndsWell, LateHelperIsReaped, StrangersAreSpared, NothingIsLeftBehind
<1> QED BY <1>1, <1>2, TypesAreTypes, PlaceIsKept DEF ConversationInv, ConversationIsSound

\* Whatever the helper sends or omits, however late, and whenever it ends: the
\* answer a caller is given is to its own question, a conversation that is kept
\* has nothing under way in it, and a helper given up on is ended, reaped and not
\* signalled again.  For any number of requests, any pipes and channels.
THEOREM ConversationSound == ExchangeSpec => []ConversationIsSound
<1> QED BY ConversationInvInit, ConversationInvStep, ConversationInvSound, PTL DEF ExchangeSpec

(***************************************************************************)
(* The supervisor: the inductive invariant.                                *)
(***************************************************************************)

\* A call is about a unit that nothing is known of while it is attempted, and
\* every helper it broke has cost it one of its tries.
CallIsOpen ==
    /\ pc # "idle" => unit \in Units
    /\ pc = "lookup" => broke = 0
    /\ pc = "attempt" => tries >= 1 /\ broke < tries /\ poisoned[unit] = Nothing

\* A running helper was started, answers in step, and is not given up on.
HelperIsUsable == up => ~spoiled /\ started /\ givenUp = Nothing

\* Every process but two was counted as a restart.  Before the first successful
\* start none is counted, but then a call starts one per try, and a failure
\* that ends the call ends the asking.
SpawnsAreCounted ==
    /\ started => spawned <= consecutive + 2
    /\ ~started => consecutive = 0
    /\ ~started /\ pc = "attempt" => spawned < tries
    /\ ~started /\ pc # "attempt" =>
          spawned <= 2 /\ (givenUp = Nothing => spawned = 0)

\* A line arrives in its unit's time only while that unit is attempted, for the
\* end of an attempt takes what was heard; so a set-aside unit keeps its own.
OwnWords(u, lines) == \A line \in lines : line.about \in {u, Start} \/ line.late
LinesAreKept ==
    /\ \A line \in heard : line.late \/ (Asked /\ line.about = unit)
    /\ \A u \in Units : OwnWords(u, poisoned[u].lines)

SupervisorInv ==
    /\ SupervisorTypeOK
    /\ CallIsOpen
    /\ HelperIsUsable
    /\ SpawnsAreCounted
    /\ LinesAreKept
    /\ NotAnothersWords

\* Before the first call no helper runs and nothing is known of any unit.
LEMMA SupervisorInitHolds == SupervisorInit => SupervisorInv
<1> SUFFICES ASSUME SupervisorInit PROVE SupervisorInv
  OBVIOUS
<1>1. SupervisorTypeOK
  <2>1. answer \in [unit : Units \cup {NoUnit}, result : Results \cup {NoReason}]
    BY DEF SupervisorInit
  <2>2. /\ poisoned \in [Units -> Explained \cup {Nothing}]
        /\ givenUp \in Explained \cup {Nothing}
        /\ brokeBy \in [Units -> 0 .. 2]
    BY DEF SupervisorInit
  <2>3. consecutive \in 0 .. MaxRestarts /\ broke \in 0 .. 2 /\ tries \in 0 .. 2
        /\ spawned \in Nat
    BY SupervisorAssumption DEF SupervisorInit
  <2> QED BY <2>1, <2>2, <2>3 DEF SupervisorInit, SupervisorTypeOK
<1>2. CallIsOpen /\ HelperIsUsable /\ SpawnsAreCounted
  BY SupervisorAssumption DEF SupervisorInit, CallIsOpen, HelperIsUsable, SpawnsAreCounted
<1>3. LinesAreKept /\ NotAnothersWords
  BY DEF SupervisorInit, LinesAreKept, NotAnothersWords, Nothing, OwnWords
<1> QED BY <1>1, <1>2, <1>3 DEF SupervisorInv

(***************************************************************************)
(* Steps that end no attempt.                                              *)
(***************************************************************************)

\* What is known of a unit is its reason and lines about it, or nothing.
LEMMA KnownIsExplained ==
    ASSUME SupervisorInv, unit \in Units, Known(unit) # Nothing
    PROVE  /\ Known(unit) \in Explained
           /\ Known(unit).reason \in Reasons /\ Known(unit).lines \subseteq Line
           /\ givenUp = Nothing => OwnWords(unit, Known(unit).lines)
BY DEF SupervisorInv, SupervisorTypeOK, Known, Explained, LinesAreKept

\* A call opens for a unit that is asked about.
LEMMA AnalyzeStep ==
    ASSUME SupervisorInv, NEW u \in Units, Analyze(u)
    PROVE  SupervisorInv'
<1>1. SupervisorTypeOK'
  BY DEF Analyze, SupervisorInv, SupervisorTypeOK, streams
<1>2. CallIsOpen' /\ HelperIsUsable' /\ SpawnsAreCounted'
  BY DEF Analyze, SupervisorInv, CallIsOpen, HelperIsUsable, SpawnsAreCounted, streams
<1>3. LinesAreKept' /\ NotAnothersWords'
  BY DEF Analyze, SupervisorInv, LinesAreKept, NotAnothersWords, Asked, OwnWords, streams
<1> QED BY <1>1, <1>2, <1>3 DEF SupervisorInv

\* A unit that was set aside is answered with the words kept for it.
LEMMA RecallStep ==
    ASSUME SupervisorInv, Recall
    PROVE  SupervisorInv'
<1>1. unit \in Units /\ Known(unit) # Nothing
  BY DEF Recall, SupervisorInv, CallIsOpen
<1>2. /\ Known(unit).reason \in Reasons /\ Known(unit).lines \subseteq Line
      /\ givenUp = Nothing => OwnWords(unit, Known(unit).lines)
  BY <1>1, KnownIsExplained
<1> HIDE DEF Known
<1>3. SupervisorTypeOK'
  BY <1>2 DEF Recall, Returns, SupervisorInv, SupervisorTypeOK, Results, streams
<1>4. CallIsOpen' /\ HelperIsUsable' /\ SpawnsAreCounted'
  BY DEF Recall, Returns, SupervisorInv, CallIsOpen, HelperIsUsable, SpawnsAreCounted, streams
<1>5. LinesAreKept' /\ NotAnothersWords'
  BY <1>2 DEF Recall, Returns, SupervisorInv, LinesAreKept, NotAnothersWords, Asked, OwnWords, streams
<1> QED BY <1>3, <1>4, <1>5 DEF SupervisorInv

\* A call for any other unit starts its attempts.
LEMMA BeginStep ==
    ASSUME SupervisorInv, Begin
    PROVE  SupervisorInv'
<1>1. SupervisorTypeOK'
  BY DEF Begin, SupervisorInv, SupervisorTypeOK, streams
<1>2. CallIsOpen' /\ HelperIsUsable' /\ SpawnsAreCounted'
  BY DEF Begin, SupervisorInv, SupervisorTypeOK, CallIsOpen, HelperIsUsable, SpawnsAreCounted, Known, streams
<1>3. LinesAreKept' /\ NotAnothersWords'
  BY DEF Begin, SupervisorInv, LinesAreKept, NotAnothersWords, Asked, OwnWords, streams
<1> QED BY <1>1, <1>2, <1>3 DEF SupervisorInv

\* A helper that starts uses up the budget by one and has said nothing yet.
LEMMA StartSucceedsStep ==
    ASSUME SupervisorInv, StartSucceeds
    PROVE  SupervisorInv'
<1>1. SupervisorTypeOK'
  <2>1. consecutive' \in 0 .. MaxRestarts
    BY SupervisorAssumption DEF StartSucceeds, Spawns, BudgetSpent, SupervisorInv, SupervisorTypeOK,
     SpawnsAreCounted
  <2>2. spawned' \in Nat
    BY DEF StartSucceeds, Spawns, SupervisorInv, SupervisorTypeOK
  <2>3. UNCHANGED <<pc, unit, tries, poisoned, diag, lastFailure, answer, broke, brokeBy>>
    BY DEF StartSucceeds
  <2>4. /\ up' = TRUE /\ started' = TRUE /\ spoiled' = FALSE
        /\ givenUp' = Nothing /\ printed' = {} /\ heard' = {}
    BY DEF StartSucceeds
  <2> QED BY <2>1, <2>2, <2>3, <2>4 DEF SupervisorInv, SupervisorTypeOK
<1>2. CallIsOpen' /\ HelperIsUsable'
  BY DEF StartSucceeds, Spawns, SupervisorInv, CallIsOpen, HelperIsUsable
<1>3. SpawnsAreCounted'
  BY DEF StartSucceeds, Spawns, SupervisorInv, SupervisorTypeOK, SpawnsAreCounted
<1>4. LinesAreKept' /\ NotAnothersWords'
  BY DEF StartSucceeds, Spawns, SupervisorInv, LinesAreKept, NotAnothersWords, OwnWords
<1> QED BY <1>1, <1>2, <1>3, <1>4 DEF SupervisorInv

\* A helper prints a line about the unit it is asked of.
LEMMA PrintLineStep ==
    ASSUME SupervisorInv, PrintLine
    PROVE  SupervisorInv'
<1>1. SupervisorTypeOK'
  BY DEF PrintLine, SupervisorInv, SupervisorTypeOK, CallIsOpen, Asked
<1>2. CallIsOpen' /\ HelperIsUsable' /\ SpawnsAreCounted'
  BY DEF PrintLine, SupervisorInv, CallIsOpen, HelperIsUsable, SpawnsAreCounted
<1>3. LinesAreKept' /\ NotAnothersWords'
  BY DEF PrintLine, SupervisorInv, LinesAreKept, NotAnothersWords, Asked, OwnWords
<1> QED BY <1>1, <1>2, <1>3 DEF SupervisorInv

\* A line that reaches the client is heard, or came too late for its unit.
LEMMA DeliverStep ==
    ASSUME SupervisorInv, NEW u \in Units, Deliver(u)
    PROVE  SupervisorInv'
<1> DEFINE line == [about |-> u, late |-> ~(Asked /\ u = unit)]
<1>1. /\ line \in Line
      /\ line.late \/ (Asked /\ line.about = unit)
  BY Zenon DEF Line
<1>2. heard' = heard \cup {line} /\ printed' = printed \ {u}
  BY DEF Deliver
<1>3. UNCHANGED <<pc, unit, tries, up, spoiled, started, consecutive, poisoned, givenUp, diag,
                  lastFailure, answer, broke, brokeBy, spawned>>
  BY DEF Deliver
<1> HIDE DEF line
<1>4. SupervisorTypeOK'
  BY <1>1, <1>2, <1>3 DEF SupervisorInv, SupervisorTypeOK
<1>5. CallIsOpen' /\ HelperIsUsable' /\ SpawnsAreCounted'
  BY <1>3 DEF SupervisorInv, CallIsOpen, HelperIsUsable, SpawnsAreCounted
<1>6. LinesAreKept' /\ NotAnothersWords'
  BY <1>1, <1>2, <1>3 DEF SupervisorInv, LinesAreKept, NotAnothersWords, Asked, OwnWords
<1> QED BY <1>4, <1>5, <1>6 DEF SupervisorInv

(***************************************************************************)
(* The ends of an attempt.                                                 *)
(***************************************************************************)

\* The words of an answer or of an error, and the lines a diagnostic drains.
Words == {{}, {Says(unit)}, {Says(Start)}}

\* What is told with an outcome and what was heard are about the unit asked.
LEMMA WordsAreOwn ==
    ASSUME SupervisorInv, pc = "attempt", NEW words \in Words
    PROVE  /\ words \subseteq Line /\ OwnWords(unit, words)
           /\ up => heard \subseteq Line /\ OwnWords(unit, heard)
<1>1. unit \in Units
  BY DEF SupervisorInv, CallIsOpen
<1>2. /\ Says(unit) \in Line /\ Says(unit).about = unit
      /\ Says(Start) \in Line /\ Says(Start).about = Start
  BY <1>1 DEF Says, Line
<1> HIDE DEF Says
<1>3. words \subseteq Line /\ OwnWords(unit, words)
  BY <1>2 DEF Words, OwnWords
<1>4. up => heard \subseteq Line /\ OwnWords(unit, heard)
  BY DEF SupervisorInv, SupervisorTypeOK, LinesAreKept, OwnWords
<1> QED BY <1>3, <1>4

\* What is kept with a result is about the unit, and a dead helper has said nothing more.
LEMMA SaidWords ==
    ASSUME SupervisorInv, pc = "attempt", NEW reply, NEW told \in Words, KeepWhatWasSaid(reply, told)
    PROVE  /\ diag' \subseteq Line /\ OwnWords(unit, diag')
           /\ heard' = IF up THEN {} ELSE heard
<1>1. /\ told \subseteq Line /\ OwnWords(unit, told)
      /\ up => heard \subseteq Line /\ OwnWords(unit, heard)
  BY WordsAreOwn
<1>2. OwnWords(unit, {})
  BY DEF OwnWords
<1>3. diag' = {} \/ diag' = told \/ (up /\ diag' = heard)
  BY DEF KeepWhatWasSaid
<1>4. heard' = IF up THEN {} ELSE heard
  BY DEF KeepWhatWasSaid
<1> QED BY <1>1, <1>2, <1>3, <1>4

\* The three ways a failed attempt goes on.
Retried(reason) ==
    /\ tries = 1 /\ reason \in Breaking
    /\ up' = FALSE /\ tries' = 2
    /\ UNCHANGED <<pc, answer, poisoned, brokeBy>>
AnsweredAtOnce(reason) ==
    /\ tries = 1 /\ reason \notin Breaking
    /\ Returns(reason)
    /\ UNCHANGED <<up, tries, poisoned, brokeBy>>
SetAside(reason) ==
    /\ tries = 2
    /\ up' = FALSE
    /\ poisoned' = [poisoned EXCEPT ![unit] = [reason |-> reason, lines |-> diag']]
    /\ brokeBy' = [brokeBy EXCEPT ![unit] = broke']
    /\ Returns(reason)
    /\ tries' = tries

\* A failure keeps its words and is retried, answered, or sets the unit aside.
LEMMA FailedWords ==
    ASSUME SupervisorInv, pc = "attempt", NEW reason, NEW words \in Words, Fails(reason, words)
    PROVE  /\ diag' \subseteq Line /\ OwnWords(unit, diag') /\ lastFailure' = diag'
           /\ heard' = IF up THEN {} ELSE heard
           /\ Retried(reason) \/ AnsweredAtOnce(reason) \/ SetAside(reason)
<1> DEFINE lines == words \cup (IF up THEN heard ELSE {})
<1>1. /\ words \subseteq Line /\ OwnWords(unit, words)
      /\ up => heard \subseteq Line /\ OwnWords(unit, heard)
  BY WordsAreOwn
<1>2. diag' = lines /\ lastFailure' = lines /\ SetBack(reason, lines)
  BY DEF Fails
<1>3. heard' = IF up THEN {} ELSE heard
  BY DEF Fails
<1>4. lines \subseteq Line /\ OwnWords(unit, lines)
  BY <1>1 DEF OwnWords
<1> HIDE DEF lines
<1>5. tries \in {1, 2}
  BY DEF SupervisorInv, SupervisorTypeOK, CallIsOpen
<1>6. Retried(reason) \/ AnsweredAtOnce(reason) \/ SetAside(reason)
  BY <1>2, <1>5 DEF SetBack, WorthRetrying, Retried, AnsweredAtOnce, SetAside
<1> QED BY <1>2, <1>3, <1>4, <1>6

\* An attempt that is answered.
LEMMA SucceedsStep ==
    ASSUME SupervisorInv, pc = "attempt",
           NEW reply \in Results, NEW told \in Words, Succeeds(reply, told),
           givenUp' \in Explained \cup {Nothing}, up => givenUp' = givenUp, started,
           UNCHANGED <<unit, tries, up, spoiled, started, poisoned, lastFailure, printed,
                       broke, brokeBy>>
    PROVE  SupervisorInv'
<1>1. /\ consecutive' = 0 /\ spawned' = 0 /\ Returns(reply)
      /\ KeepWhatWasSaid(reply, told)
  BY DEF Succeeds
<1>2. /\ diag' \subseteq Line /\ OwnWords(unit, diag')
      /\ heard' = IF up THEN {} ELSE heard
  BY <1>1, SaidWords
<1>3. /\ pc' = "idle" /\ answer'.unit = unit
      /\ answer' \in [unit : Units \cup {NoUnit}, result : Results \cup {NoReason}]
  BY <1>1 DEF Returns, SupervisorInv, SupervisorTypeOK
<1>4. SupervisorTypeOK'
  BY <1>1, <1>2, <1>3, SupervisorAssumption DEF SupervisorInv, SupervisorTypeOK
<1>5. CallIsOpen' /\ HelperIsUsable' /\ SpawnsAreCounted'
  BY <1>1, <1>3 DEF SupervisorInv, CallIsOpen, HelperIsUsable, SpawnsAreCounted
<1>6. LinesAreKept' /\ NotAnothersWords'
  BY <1>2, <1>3 DEF SupervisorInv, LinesAreKept, NotAnothersWords, OwnWords, Asked
<1> QED BY <1>4, <1>5, <1>6 DEF SupervisorInv

\* An attempt that fails.
LEMMA FailsStep ==
    ASSUME SupervisorInv, pc = "attempt",
           NEW reason \in Starting, NEW words \in Words, Fails(reason, words),
           broke' \in Nat, broke' <= broke + 1,
           spoiled' \in BOOLEAN, reason \notin Breaking => spoiled' = spoiled,
           consecutive' \in 0 .. MaxRestarts, spawned' \in Nat,
           givenUp' \in Explained \cup {Nothing}, up => givenUp' = givenUp,
           started => spawned' <= consecutive' + 2,
           ~started => consecutive' = 0 /\ spawned' <= tries /\ givenUp' # Nothing,
           UNCHANGED <<unit, started, printed>>
    PROVE  SupervisorInv'
<1>1. /\ diag' \subseteq Line /\ OwnWords(unit, diag') /\ lastFailure' = diag'
      /\ heard' = IF up THEN {} ELSE heard
  BY FailedWords
<1>2. unit \in Units /\ reason \in Reasons /\ reason \in Results
  BY DEF SupervisorInv, CallIsOpen, Starting, Reasons, Results
<1>3. broke' \in 0 .. 2 /\ broke' <= tries
  BY DEF SupervisorInv, SupervisorTypeOK, CallIsOpen
<1>4. Returns(reason) =>
         /\ pc' = "idle" /\ answer'.unit = unit
         /\ answer' \in [unit : Units \cup {NoUnit}, result : Results \cup {NoReason}]
  BY <1>2 DEF Returns
<1>5. CASE Retried(reason)
  <2>1. /\ tries = 1 /\ tries' = 2 /\ ~up' /\ up' \in BOOLEAN
        /\ UNCHANGED <<pc, answer, poisoned, brokeBy>>
    BY <1>5 DEF Retried
  <2>2. SupervisorTypeOK'
    <3>1. heard' \subseteq Line
      BY <1>1 DEF SupervisorInv, SupervisorTypeOK
    <3> QED BY <1>1, <1>3, <2>1, <3>1 DEF SupervisorInv, SupervisorTypeOK
  <2>3. CallIsOpen' /\ HelperIsUsable' /\ SpawnsAreCounted'
    <3>1. CallIsOpen'
      BY <1>3, <2>1 DEF SupervisorInv, SupervisorTypeOK, CallIsOpen
    <3>2. SpawnsAreCounted'
      <4>1. pc' = "attempt" /\ (started' <=> started)
        BY <2>1
      <4>2. started' => spawned' <= consecutive' + 2
        BY <4>1
      <4>3. ~started' => consecutive' = 0 /\ spawned' <= tries
        BY <4>1
      <4>4. ~started' => spawned' < tries'
        BY <2>1, <4>3
      <4> QED BY <4>1, <4>2, <4>3, <4>4 DEF SpawnsAreCounted
    <3> QED BY <2>1, <3>1, <3>2 DEF HelperIsUsable
  <2>4. LinesAreKept' /\ NotAnothersWords'
    BY <1>1, <1>5 DEF Retried, SupervisorInv, LinesAreKept, NotAnothersWords, OwnWords, Asked
  <2> QED BY <2>2, <2>3, <2>4 DEF SupervisorInv
<1>6. CASE AnsweredAtOnce(reason)
  <2>1. SupervisorTypeOK'
    BY <1>1, <1>3, <1>4, <1>6 DEF AnsweredAtOnce, SupervisorInv, SupervisorTypeOK
  <2>2. CallIsOpen' /\ HelperIsUsable' /\ SpawnsAreCounted'
    <3>1. tries = 1 /\ pc' = "idle" /\ UNCHANGED <<up, spoiled, started>>
      BY <1>4, <1>6 DEF AnsweredAtOnce
    <3> QED BY <3>1 DEF SupervisorInv, CallIsOpen, HelperIsUsable, SpawnsAreCounted
  <2>3. LinesAreKept' /\ NotAnothersWords'
    BY <1>1, <1>4, <1>6
       DEF AnsweredAtOnce, SupervisorInv, LinesAreKept, NotAnothersWords, OwnWords, Asked
  <2> QED BY <2>1, <2>2, <2>3 DEF SupervisorInv
<1>7. CASE SetAside(reason)
  <2> DEFINE aside == [reason |-> reason, lines |-> diag']
  <2>1. aside \in Explained /\ aside.lines = diag'
    BY <1>1, <1>2 DEF Explained
  <2>2. poisoned' = [poisoned EXCEPT ![unit] = aside]
    BY <1>7 DEF SetAside
  <2> HIDE DEF aside
  <2>3. SupervisorTypeOK'
    <3>1. poisoned' \in [Units -> Explained \cup {Nothing}]
      BY <2>1, <2>2 DEF SupervisorInv, SupervisorTypeOK
    <3>2. brokeBy' \in [Units -> 0 .. 2]
      BY <1>3, <1>7 DEF SetAside, SupervisorInv, SupervisorTypeOK
    <3> QED BY <1>1, <1>3, <1>4, <1>7, <3>1, <3>2 DEF SetAside, SupervisorInv, SupervisorTypeOK
  <2>4. CallIsOpen' /\ HelperIsUsable' /\ SpawnsAreCounted'
    BY <1>3, <1>4, <1>7
       DEF SetAside, SupervisorInv, SupervisorTypeOK, CallIsOpen, HelperIsUsable, SpawnsAreCounted
  <2>5. \A u \in Units : OwnWords(u, poisoned'[u].lines)
    BY <1>1, <2>1, <2>2 DEF SupervisorInv, SupervisorTypeOK, LinesAreKept
  <2>6. LinesAreKept' /\ NotAnothersWords'
    BY <1>1, <1>4, <1>7, <2>5
       DEF SetAside, SupervisorInv, LinesAreKept, NotAnothersWords, OwnWords, Asked
  <2> QED BY <2>3, <2>4, <2>6 DEF SupervisorInv
<1> QED BY <1>5, <1>6, <1>7, FailedWords

\* A budget that is spent answers without a helper and without words.
LEMMA ExhaustStep ==
    ASSUME SupervisorInv, Exhaust
    PROVE  SupervisorInv'
<1>1. pc = "attempt" /\ ~up /\ started /\ Succeeds(Exhausted, {})
  BY DEF Exhaust, BudgetSpent
<1>2. Exhausted \in Results /\ {} \in Words
  BY DEF Results, Reasons, Words
<1>3. givenUp' \in Explained \cup {Nothing}
  BY DEF Exhaust, Explained, Reasons, SupervisorInv, SupervisorTypeOK
<1>4. UNCHANGED <<unit, tries, up, spoiled, started, poisoned, lastFailure, printed, broke,
                  brokeBy>>
  BY DEF Exhaust
<1> QED BY <1>1, <1>2, <1>3, <1>4, SucceedsStep

\* An answer of the helper closes the call with what was told and heard.
LEMMA AnswersStep ==
    ASSUME SupervisorInv,
           NEW reply \in Results, NEW told \in Words, Answers(reply, told)
    PROVE  SupervisorInv'
<1>1. pc = "attempt" /\ started /\ Succeeds(reply, told)
  BY DEF Answers, Asked, SupervisorInv, HelperIsUsable
<1>2. givenUp' \in Explained \cup {Nothing} /\ givenUp' = givenUp
  BY DEF Answers, SupervisorInv, SupervisorTypeOK
<1>3. UNCHANGED <<unit, tries, up, spoiled, started, poisoned, lastFailure, printed, broke,
                  brokeBy>>
  BY DEF Answers
<1> QED BY <1>1, <1>2, <1>3, SucceedsStep

\* A helper that does not start uses up the budget and is not up.
LEMMA StartFailsStep ==
    ASSUME SupervisorInv, NEW reason \in Starting, StartFails(reason)
    PROVE  SupervisorInv'
<1>1. /\ pc = "attempt" /\ ~up /\ Fails(reason, {Says(Start)})
      /\ UNCHANGED <<unit, spoiled, started, printed>>
  BY DEF StartFails, Spawns
<1>2. {Says(Start)} \in Words
  BY DEF Words
<1>3. broke' \in Nat /\ broke' <= broke + 1 /\ spoiled' \in BOOLEAN
  BY DEF StartFails, SupervisorInv, SupervisorTypeOK
<1>4. consecutive' \in 0 .. MaxRestarts /\ spawned' \in Nat
  BY SupervisorAssumption DEF StartFails, Spawns, BudgetSpent, SupervisorInv, SupervisorTypeOK,
     SpawnsAreCounted
<1>5. givenUp' \in Explained /\ givenUp' # Nothing
  <2>1. givenUp' = [reason |-> reason, lines |-> {Says(Start)}]
    BY DEF StartFails
  <2>2. {Says(Start)} \in SUBSET Line
    BY DEF Says, Line
  <2>3. reason \in Reasons /\ reason # NoReason
    BY DEF Starting, Breaking, Refusals, Reasons, NoReason
  <2> HIDE DEF Says, NoReason
  <2> QED BY <2>1, <2>2, <2>3 DEF Explained, Nothing
<1>6. /\ started => spawned' <= consecutive' + 2
      /\ ~started => consecutive' = 0 /\ spawned' <= tries
  BY <1>1 DEF StartFails, Spawns, SupervisorInv, SupervisorTypeOK, SpawnsAreCounted
<1> QED BY <1>1, <1>2, <1>3, <1>4, <1>5, <1>6, FailsStep

\* An exchange that spoils the conversation is never followed on the same helper.
LEMMA BreaksStep ==
    ASSUME SupervisorInv, NEW reason \in Breaking, Breaks(reason)
    PROVE  SupervisorInv'
<1> DEFINE words == IF reason = "helper died" THEN {} ELSE {Says(unit)}
<1>1. /\ pc = "attempt" /\ up /\ started /\ Fails(reason, words)
      /\ UNCHANGED <<unit, started, consecutive, givenUp, printed, spawned>>
  BY DEF Breaks, Asked, SupervisorInv, HelperIsUsable
<1>2. words \in Words /\ reason \in Starting
  BY DEF Words, Starting
<1>3. broke' \in Nat /\ broke' <= broke + 1
  <2>1. broke' = broke + 1 /\ broke \in 0 .. 2
    BY DEF Breaks, SupervisorInv, SupervisorTypeOK
  <2> QED BY <2>1
<1>6. spoiled' \in BOOLEAN
  BY DEF Breaks
<1>4. started => spawned <= consecutive + 2
  BY DEF SupervisorInv, SpawnsAreCounted
<1>5. consecutive \in 0 .. MaxRestarts /\ spawned \in Nat
      /\ givenUp \in Explained \cup {Nothing}
  BY DEF SupervisorInv, SupervisorTypeOK
<1> HIDE DEF words
<1> QED BY <1>1, <1>2, <1>3, <1>4, <1>5, <1>6, FailsStep

\* A refusal ends the attempt and leaves the helper usable.
LEMMA RefusesStep ==
    ASSUME SupervisorInv, NEW reason \in Refusals, Refuses(reason)
    PROVE  SupervisorInv'
<1>1. /\ pc = "attempt" /\ up /\ started /\ Fails(reason, {Says(unit)})
      /\ UNCHANGED <<unit, spoiled, started, consecutive, givenUp, printed, broke, spawned>>
  BY DEF Refuses, Asked, SupervisorInv, HelperIsUsable
<1>2. {Says(unit)} \in Words /\ reason \in Starting
  BY DEF Words, Starting
<1>3. broke \in Nat /\ spoiled \in BOOLEAN
  BY DEF SupervisorInv, SupervisorTypeOK
<1>4. started => spawned <= consecutive + 2
  BY DEF SupervisorInv, SpawnsAreCounted
<1>5. consecutive \in 0 .. MaxRestarts /\ spawned \in Nat
      /\ givenUp \in Explained \cup {Nothing}
  BY DEF SupervisorInv, SupervisorTypeOK
<1> QED BY <1>1, <1>2, <1>3, <1>4, <1>5, FailsStep

(***************************************************************************)
(* The theorems.                                                           *)
(***************************************************************************)

\* Every step of the supervisor keeps the invariant.
LEMMA SupervisorInvStep == SupervisorInv /\ [SupervisorNext]_supervisorVars => SupervisorInv'
<1> SUFFICES ASSUME SupervisorInv, [SupervisorNext]_supervisorVars PROVE SupervisorInv'
  OBVIOUS
<1>1. CASE \E u \in Units : Analyze(u) \/ Deliver(u)
  BY <1>1, AnalyzeStep, DeliverStep
<1>2. CASE PrintLine
  BY <1>2, PrintLineStep
<1>3. CASE Recall \/ Begin \/ Exhaust \/ StartSucceeds
  BY <1>3, RecallStep, BeginStep, ExhaustStep, StartSucceedsStep
<1>4. CASE \/ \E r \in Starting : StartFails(r)
           \/ \E r \in Breaking : Breaks(r)
           \/ \E r \in Refusals : Refuses(r)
  BY <1>4, StartFailsStep, BreaksStep, RefusesStep
<1>5. CASE \/ Answers(Done, {})
           \/ \E r \in Answered, told \in {{}, {Says(unit)}} : Answers(r, told)
  <2>1. Done \in Results /\ Answered \subseteq Results
    BY DEF Results, Reasons
  <2>2. {} \in Words /\ {{}, {Says(unit)}} \subseteq Words
    BY DEF Words
  <2> QED BY <1>5, <2>1, <2>2, AnswersStep
<1>6. CASE UNCHANGED supervisorVars
  <2>1. SupervisorTypeOK' /\ CallIsOpen' /\ HelperIsUsable' /\ SpawnsAreCounted'
    BY <1>6 DEF supervisorVars, SupervisorInv, SupervisorTypeOK, CallIsOpen, HelperIsUsable, SpawnsAreCounted
  <2>2. LinesAreKept' /\ NotAnothersWords'
    BY <1>6 DEF supervisorVars, SupervisorInv, LinesAreKept, NotAnothersWords, Asked, OwnWords
  <2> QED BY <2>1, <2>2 DEF SupervisorInv
<1> QED BY <1>1, <1>2, <1>3, <1>4, <1>5, <1>6 DEF SupervisorNext, Step

\* At most MaxRestarts restarts are counted between two complete answers.
LEMMA SupervisorInvIsSound == SupervisorInv => SupervisionIsSound
<1> SUFFICES ASSUME SupervisorInv PROVE SupervisionIsSound
  OBVIOUS
<1>1. spawned <= MaxRestarts + 2
  BY SupervisorAssumption DEF SupervisorInv, SupervisorTypeOK, SpawnsAreCounted, CallIsOpen
<1> QED BY <1>1 DEF SupervisorInv, HelperIsUsable, SupervisionIsSound, NeverAsksASpoiledHelper,
           RestartsAreBounded

\* In every run the supervisor is sound: TLC checks SupervisionIsSound on two
\* units, this says it of every set of units and every budget.
THEOREM SupervisorSound ==
     SupervisorSpec => []SupervisionIsSound
<1>1. SupervisorInit => SupervisorInv
  BY SupervisorInitHolds
<1>2. SupervisorInv /\ [SupervisorNext]_supervisorVars => SupervisorInv'
  BY SupervisorInvStep
<1>3. SupervisorInv => SupervisionIsSound
  BY SupervisorInvIsSound
<1> QED BY <1>1, <1>2, <1>3, PTL DEF SupervisorSpec

(***************************************************************************)
(* Refinement of HelperAnswers.                                            *)
(***************************************************************************)

Asking == IF pc = "idle" THEN NoUnit ELSE unit
Settled == [u \in Units |-> poisoned[u].reason]
Stopped == IF pc = "attempt" THEN NoReason ELSE givenUp.reason

\* A reply of the promise, in the supervisor's state.
RepliesWith(r) ==
    /\ Asking # NoUnit /\ r \in Results
    /\ Stopped # NoReason => r = Stopped
    /\ Stopped = NoReason /\ Settled[Asking] # NoReason => r = Settled[Asking]
    /\ answer' = [unit |-> Asking, result |-> r]
    /\ Asking' = NoUnit
    /\ \/ Settled' = Settled
       \/ Settled[Asking] = NoReason /\ Settled' = [Settled EXCEPT ![Asking] = r]
    /\ \/ Stopped' = Stopped
       \/ Stopped = NoReason /\ Stopped' = r

\* An answer of the supervisor is a reply HelperAnswers allows.
LEMMA RepliesAreReplies ==
    ASSUME NEW r, RepliesWith(r)
    PROVE  Promise!Next
<1>1. Promise!Reply(r)
  BY DEF RepliesWith, Promise!Reply, Promise!Open, Asking, Settled, Stopped, NoUnit, NoReason,
     Promise!NoUnit, Promise!NoReason
<1> QED BY <1>1 DEF Promise!Next, RepliesWith

\* Nothing the promise sees has changed.
LEMMA Unseen ==
    ASSUME Asking' = Asking, answer' = answer, Settled' = Settled, Stopped' = Stopped
    PROVE  UNCHANGED Promise!vars
BY DEF Promise!vars, Asking, Settled, Stopped

\* While a unit is attempted the promise is open: it may be answered anything.
LEMMA AttemptIsOpen ==
    ASSUME SupervisorInv, pc = "attempt"
    PROVE  /\ Asking = unit /\ unit \in Units /\ unit # NoUnit
           /\ Stopped = NoReason /\ Settled[unit] = NoReason
BY SupervisorAssumption DEF SupervisorInv, CallIsOpen, Asking, Stopped, Settled, Nothing

\* An attempt that ends with an answer, setting its unit aside or not.
LEMMA AttemptReplies ==
    ASSUME SupervisorInv, pc = "attempt", NEW reply \in Results,
           Returns(reply),
           \/ poisoned' = poisoned
           \/ poisoned' = [poisoned EXCEPT ![unit] = [reason |-> reply, lines |-> diag']],
           givenUp'.reason \in {NoReason, reply}
    PROVE  Promise!Next
<1>1. /\ Asking = unit /\ unit \in Units /\ unit # NoUnit
      /\ Stopped = NoReason /\ Settled[unit] = NoReason
  BY AttemptIsOpen
<1>2. pc' = "idle" /\ answer' = [unit |-> unit, result |-> reply]
  BY DEF Returns
<1>3. Settled' = Settled \/ Settled' = [Settled EXCEPT ![unit] = reply]
  <2>1. CASE poisoned' = poisoned
    BY <2>1 DEF Settled
  <2>2. CASE poisoned' = [poisoned EXCEPT ![unit] = [reason |-> reply, lines |-> diag']]
    <3>1. \A u \in Units : poisoned'[u].reason = IF u = unit THEN reply ELSE poisoned[u].reason
      BY <2>2 DEF SupervisorInv, SupervisorTypeOK
    <3>2. [Settled EXCEPT ![unit] = reply]
            = [u \in Units |-> IF u = unit THEN reply ELSE poisoned[u].reason]
      BY DEF Settled
    <3> QED BY <3>1, <3>2 DEF Settled
  <2> QED BY <2>1, <2>2
<1>4. Asking' = NoUnit /\ Stopped' = givenUp'.reason
  BY <1>2 DEF Asking, Stopped
<1>5. RepliesWith(reply)
  BY <1>1, <1>2, <1>3, <1>4 DEF RepliesWith
<1> QED BY <1>5, RepliesAreReplies

\* An attempt that fails is tried again unseen, or answered.
LEMMA FailureIsPromised ==
    ASSUME SupervisorInv, pc = "attempt",
           NEW reason \in Starting, NEW words \in Words, Fails(reason, words), unit' = unit,
           givenUp'.reason \in {NoReason, reason}
    PROVE  [Promise!Next]_Promise!vars
<1>1. Retried(reason) \/ AnsweredAtOnce(reason) \/ SetAside(reason)
  BY FailedWords
<1>2. CASE Retried(reason)
  <2>1. Asking' = Asking /\ answer' = answer /\ Settled' = Settled /\ Stopped' = Stopped
    BY <1>2 DEF Retried, Asking, Settled, Stopped
  <2> QED BY <2>1, Unseen
<1>3. CASE AnsweredAtOnce(reason) \/ SetAside(reason)
  <2>1. Returns(reason) /\ reason \in Results
    BY <1>3 DEF AnsweredAtOnce, SetAside, Starting, Results, Reasons
  <2>2. \/ poisoned' = poisoned
        \/ poisoned' = [poisoned EXCEPT ![unit] = [reason |-> reason, lines |-> diag']]
    BY <1>3 DEF AnsweredAtOnce, SetAside
  <2> QED BY <2>1, <2>2, AttemptReplies
<1> QED BY <1>1, <1>2, <1>3

\* A supervisor that was asked nothing has promised nothing.
LEMMA PromiseInit == SupervisorInit => Promise!Init
<1> SUFFICES ASSUME SupervisorInit PROVE Promise!Init
  OBVIOUS
<1>1. Asking = NoUnit /\ answer = [unit |-> NoUnit, result |-> NoReason] /\ Stopped = NoReason
  BY DEF SupervisorInit, Asking, Stopped, Nothing
<1>2. Settled = [u \in Units |-> NoReason]
  BY DEF SupervisorInit, Settled, Nothing
<1> QED BY <1>1, <1>2 DEF Asking, Settled, Stopped, NoUnit, NoReason,
           Promise!Init, Promise!NoUnit, Promise!NoReason

\* Every step asks, replies, or is a stutter of HelperAnswers.
LEMMA PromiseStep ==
    ASSUME SupervisorInv, [SupervisorNext]_supervisorVars
    PROVE  [Promise!Next]_Promise!vars
<1>1. ASSUME NEW u \in Units, Analyze(u) PROVE Promise!Next
  <2>1. Promise!Ask(u)
    BY <1>1 DEF Analyze, Promise!Ask, NoUnit, Promise!NoUnit
  <2> QED BY <2>1 DEF Promise!Next
<1>2. ASSUME NEW u \in Units, Deliver(u) PROVE UNCHANGED Promise!vars
  BY <1>2, Unseen DEF Deliver, Asking, Settled, Stopped
<1>3. CASE PrintLine
  BY <1>3, Unseen DEF PrintLine, Asking, Settled, Stopped
<1>4. CASE Recall
  <2>1. unit \in Units /\ Known(unit) # Nothing /\ pc = "lookup"
    BY <1>4 DEF Recall, SupervisorInv, CallIsOpen
  <2>2. Known(unit).reason \in Reasons
    BY <2>1, KnownIsExplained
  <2>3. /\ Asking = unit /\ unit # NoUnit
        /\ Stopped = givenUp.reason /\ Settled[unit] = poisoned[unit].reason
    BY <2>1, SupervisorAssumption DEF Asking, Stopped, Settled
  <2>4. givenUp # Nothing => givenUp.reason # NoReason
    BY DEF SupervisorInv, SupervisorTypeOK, Explained, Reasons, Starting, Breaking, Refusals, Answered, Exhausted,
       NoReason
  <2>5. givenUp = Nothing => givenUp.reason = NoReason
    BY DEF Nothing
  <2>6. /\ pc' = "idle" /\ answer' = [unit |-> unit, result |-> Known(unit).reason]
        /\ UNCHANGED <<unit, poisoned, givenUp>>
    BY <1>4 DEF Recall, Returns
  <2>7. Asking' = NoUnit /\ Settled' = Settled /\ Stopped' = Stopped
    BY <2>3, <2>6 DEF Asking, Settled, Stopped
  <2>8. RepliesWith(Known(unit).reason)
    BY <2>2, <2>3, <2>4, <2>5, <2>6, <2>7 DEF RepliesWith, Known, Results
  <2> QED BY <2>8, RepliesAreReplies
<1>5. CASE Begin
  <2>1. pc = "lookup" /\ pc' = "attempt" /\ givenUp = Nothing
    BY <1>5 DEF Begin, Known
  <2>2. Asking' = Asking /\ answer' = answer /\ Settled' = Settled /\ Stopped' = Stopped
    BY <1>5, <2>1 DEF Begin, Asking, Settled, Stopped, Nothing
  <2> QED BY <2>2, Unseen
<1>6. CASE Exhaust
  <2>1. /\ pc = "attempt" /\ Returns(Exhausted) /\ poisoned' = poisoned
        /\ givenUp'.reason = Exhausted
    BY <1>6 DEF Exhaust, Succeeds
  <2>2. Exhausted \in Results
    BY DEF Results, Reasons
  <2> QED BY <2>1, <2>2, AttemptReplies
<1>7. CASE StartSucceeds
  <2>1. pc = "attempt" /\ UNCHANGED <<pc, unit, poisoned, answer>>
    BY <1>7 DEF StartSucceeds, Spawns
  <2>2. Asking' = Asking /\ answer' = answer /\ Settled' = Settled /\ Stopped' = Stopped
    BY <2>1 DEF Asking, Settled, Stopped
  <2> QED BY <2>2, Unseen
<1>8. ASSUME NEW r \in Starting, StartFails(r) PROVE [Promise!Next]_Promise!vars
  <2>1. /\ pc = "attempt" /\ Fails(r, {Says(Start)}) /\ unit' = unit
        /\ givenUp'.reason = r
    BY <1>8 DEF StartFails, Spawns
  <2>2. {Says(Start)} \in Words
    BY DEF Words
  <2> QED BY <2>1, <2>2, FailureIsPromised
<1>9. up => givenUp.reason = NoReason
  BY DEF SupervisorInv, HelperIsUsable, Nothing
<1>10. ASSUME NEW r \in Breaking, Breaks(r) PROVE [Promise!Next]_Promise!vars
  <2> DEFINE words == IF r = "helper died" THEN {} ELSE {Says(unit)}
  <2>1. /\ pc = "attempt" /\ up /\ Fails(r, words) /\ UNCHANGED <<unit, givenUp>>
    BY <1>10 DEF Breaks, Asked
  <2>2. words \in Words /\ r \in Starting
    BY DEF Words, Starting
  <2> HIDE DEF words
  <2> QED BY <1>9, <2>1, <2>2, FailureIsPromised
<1>11. ASSUME NEW r \in Refusals, Refuses(r) PROVE [Promise!Next]_Promise!vars
  <2>1. /\ pc = "attempt" /\ up /\ Fails(r, {Says(unit)}) /\ UNCHANGED <<unit, givenUp>>
    BY <1>11 DEF Refuses, Asked
  <2>2. {Says(unit)} \in Words /\ r \in Starting
    BY DEF Words, Starting
  <2> QED BY <1>9, <2>1, <2>2, FailureIsPromised
<1>12. ASSUME NEW r \in Results, NEW told, Answers(r, told) PROVE Promise!Next
  <2>1. /\ pc = "attempt" /\ up /\ Returns(r) /\ UNCHANGED <<poisoned, givenUp>>
    BY <1>12 DEF Answers, Asked, Succeeds
  <2> QED BY <1>9, <2>1, AttemptReplies
<1>13. Done \in Results /\ Answered \subseteq Results
  BY DEF Results, Reasons
<1>14. CASE UNCHANGED supervisorVars
  BY <1>14, Unseen DEF supervisorVars, Asking, Settled, Stopped
<1>15. CASE Answers(Done, {}) \/ \E r \in Answered, told \in {{}, {Says(unit)}} : Answers(r, told)
  BY <1>12, <1>13, <1>15
<1> QED BY <1>1, <1>2, <1>3, <1>4, <1>5, <1>6, <1>7, <1>8, <1>10, <1>11, <1>14, <1>15
        DEF SupervisorNext, Step

\* Every answer the supervisor gives is one HelperAnswers allows: about the
\* unit asked for, and settled once a unit is set aside or helpers given up on.
THEOREM SupervisorKeepsPromise ==
     SupervisorSpec => PromiseKept
<1>1. SupervisorInit => SupervisorInv
  BY SupervisorInitHolds
<1>2. SupervisorInv /\ [SupervisorNext]_supervisorVars => SupervisorInv'
  BY SupervisorInvStep
<1>3. SupervisorInit => Promise!Init
  BY PromiseInit
<1>4. SupervisorInv /\ [SupervisorNext]_supervisorVars => [Promise!Next]_Promise!vars
  BY PromiseStep
<1> QED BY <1>1, <1>2, <1>3, <1>4, PTL DEF SupervisorSpec, PromiseKept, Promise!Spec

(***************************************************************************)
(* Artifact commands: the inductive invariant.                             *)
(***************************************************************************)

\* Where a command is bounds where its worker can be: it looks past its worker
\* only once that is reaped, or was never started.
StagesAgree ==
    \A c \in Commands :
        /\ parent[c] \in {"idle", "claimed", "refused"} => worker[c] = "none"
        /\ parent[c] \in {"watching", "killing"} => worker[c] \in Running \cup Exited
        /\ parent[c] = "draining" => worker[c] \in Exited
        /\ parent[c] \in {"reading", "truncating", "writing", "success"} =>
              worker[c] = "reaped"
        /\ parent[c] \in {"dropping", "error"} => worker[c] \in {"none", "reaped"}
        /\ worker[c] \in {"none", "starting"} => c \notin recorded

\* The lease is held by exactly the workers that parse or commit.
LeaseIsWorkers ==
    \A c \in Commands : lease = c <=> worker[c] \in {"parsing", "recorded", "reported"}

\* The destination names the inode a command created from its claim to its drop,
\* so no two commands hold one they created, and nobody opens another's inode
\* without --force.
ClaimsAreOwned ==
    \A c \in Commands :
        /\ claim[c] = c => parent[c] = "error" \/ path = c
        /\ path = c => claim[c] = c /\ parent[c] # "error"
        /\ parent[c] = "idle" => ~force[c]
        /\ claim[c] \notin {None, c} => force[c]

\* While nobody forces, a created inode holds a report if its command succeeded.
Unforced == \A c \in Commands : ~force[c]
ContentIsOwned ==
    \A c \in Commands :
        /\ content[c] # "before"
        /\ claim[c] # c => content[c] = "nothing" /\ \A d \in Commands : claim[d] # c
        /\ Unforced => (content[c] = "report" <=> parent[c] = "success")

ArtifactInv ==
    /\ ArtifactTypeOK
    /\ StagesAgree
    /\ LeaseIsWorkers
    /\ ClaimsAreOwned
    /\ ContentIsOwned

\* Before the first command nothing is claimed, leased or written.
LEMMA ArtifactInitHolds == ArtifactInit => ArtifactInv
<1> SUFFICES ASSUME ArtifactInit PROVE ArtifactInv
  OBVIOUS
<1>1. ArtifactTypeOK
  BY WorkerAssumption DEF ArtifactInit, ArtifactTypeOK, Inodes
<1>2. StagesAgree /\ LeaseIsWorkers
  BY WorkerAssumption DEF ArtifactInit, StagesAgree, LeaseIsWorkers
<1>3. ClaimsAreOwned /\ ContentIsOwned
  BY WorkerAssumption DEF ArtifactInit, ClaimsAreOwned, ContentIsOwned, Inodes
<1> QED BY <1>1, <1>2, <1>3 DEF ArtifactInv

\* A step that leaves the files alone, and moves a command neither to nor from
\* where its files are settled, keeps what is known of them.
LEMMA FilesStay ==
    ASSUME ArtifactInv, UNCHANGED <<fileVars, force, claim>>,
           \A d \in Commands :
              \/ parent'[d] = parent[d]
              \/ /\ parent[d] \notin {"error", "success"}
                 /\ parent'[d] \notin {"idle", "error", "success"}
    PROVE  ClaimsAreOwned' /\ ContentIsOwned'
<1>1. path' = path /\ content' = content /\ force' = force /\ claim' = claim
  BY DEF fileVars
<1>2. ClaimsAreOwned'
  BY <1>1 DEF ArtifactInv, ClaimsAreOwned
<1>3. ContentIsOwned'
  BY <1>1 DEF ArtifactInv, ContentIsOwned, Unforced
<1> QED BY <1>2, <1>3

(***************************************************************************)
(* Steps of a worker.                                                      *)
(***************************************************************************)

\* A running worker goes on, or dies and lets the lease go.
LEMMA WorkerStep ==
    ASSUME ArtifactInv, NEW c \in Commands, Worker(c)
    PROVE  ArtifactInv'
<1>1. UNCHANGED <<fileVars, parent, force, claim>>
  BY DEF Worker, StartWorker, RecordAnalysis, Render, Finish, WorkerFails
<1>2. ClaimsAreOwned' /\ ContentIsOwned'
  BY <1>1, FilesStay
<1>3. /\ worker[c] \in Running /\ worker'[c] \in (Running \cup Exited) \ {"starting"}
      /\ \A d \in Commands \ {c} : worker'[d] = worker[d]
      /\ worker' \in [Commands -> {"none", "reaped"} \cup Running \cup Exited]
  BY DEF Worker, StartWorker, RecordAnalysis, Render, Finish, WorkerFails, WorkerGoes, Dies,
     ArtifactInv, ArtifactTypeOK, Running, Exited
<1>4. /\ lease' \in Commands \cup {None}
      /\ \A d \in Commands : lease' = d <=> worker'[d] \in {"parsing", "recorded", "reported"}
  BY WorkerAssumption DEF Worker, StartWorker, RecordAnalysis, Render, Finish,
     WorkerFails, WorkerGoes, Dies, ArtifactInv, ArtifactTypeOK, LeaseIsWorkers, Running,
     Exited
<1>5. /\ recorded' \in SUBSET Commands
      /\ \A d \in Commands \ {c} : d \in recorded' <=> d \in recorded
  BY DEF Worker, StartWorker, RecordAnalysis, Render, Finish, WorkerFails, ArtifactInv, ArtifactTypeOK
<1>6. ArtifactTypeOK'
  BY <1>1, <1>3, <1>4, <1>5 DEF ArtifactInv, ArtifactTypeOK, fileVars
<1>7. StagesAgree'
  BY <1>1, <1>3, <1>5 DEF ArtifactInv, StagesAgree, Running, Exited
<1> QED BY <1>2, <1>4, <1>6, <1>7 DEF ArtifactInv, LeaseIsWorkers

(***************************************************************************)
(* Steps of a command that leave the files alone.                          *)
(***************************************************************************)

Quiet(c) == Spawn(c) \/ SeesExit(c) \/ Deadline(c) \/ Kill(c) \/ Reap(c) \/ ReadReport(c)
                \/ Disappear(c)

\* A step that leaves files, claims and records alone keeps the invariant.
LEMMA QuietStep ==
    ASSUME ArtifactInv, NEW c \in Commands, Quiet(c)
    PROVE  ArtifactInv'
<1> USE DEF Spawn, SeesExit, Deadline, Kill, Reap, ReadReport, Disappear, Goes, Dies, workerVars
<1>1. UNCHANGED <<fileVars, force, claim, recorded>>
  BY DEF Quiet
<1>2. /\ parent[c] \notin {"idle"} \cup Ended
      /\ parent'[c] \in {"watching", "killing", "draining", "reading", "truncating", "dropping",
                        "gone"}
      /\ \A d \in Commands \ {c} : parent'[d] = parent[d]
      /\ DOMAIN parent' = Commands
      /\ parent' = [d \in Commands |-> parent'[d]]
  BY DEF Quiet, ArtifactInv, ArtifactTypeOK, Ended
<1>3. /\ \A d \in Commands \ {c} : worker'[d] = worker[d]
      /\ worker'[c] = worker[c] \/ worker'[c] \in {"starting", "reaped", "killed"}
      /\ worker' = [d \in Commands |-> worker'[d]]
  BY DEF Quiet, ArtifactInv, ArtifactTypeOK
<1>4. /\ lease' \in Commands \cup {None}
      /\ \A d \in Commands : lease' = d <=> worker'[d] \in {"parsing", "recorded", "reported"}
  BY WorkerAssumption DEF Quiet, ArtifactInv, ArtifactTypeOK, LeaseIsWorkers, StagesAgree,
     Running, Exited
<1>5. /\ parent'[c] \in {"watching", "killing"} => worker'[c] \in Running \cup Exited
      /\ parent'[c] = "draining" => worker'[c] \in Exited
      /\ parent'[c] \in {"reading", "truncating"} => worker'[c] = "reaped"
      /\ parent'[c] = "dropping" => worker'[c] \in {"none", "reaped"}
      /\ worker'[c] \in {"none", "starting"} => c \notin recorded
  BY DEF Quiet, ArtifactInv, ArtifactTypeOK, StagesAgree, Running, Exited, Ended
<1> USE DEF Ended
<1>6. ClaimsAreOwned' /\ ContentIsOwned'
  BY <1>1, <1>2, FilesStay
<1>7. ArtifactTypeOK'
  BY <1>1, <1>2, <1>3, <1>4 DEF ArtifactInv, ArtifactTypeOK, fileVars, Running, Exited
<1>8. StagesAgree'
  BY <1>1, <1>2, <1>3, <1>5 DEF ArtifactInv, StagesAgree
<1> QED BY <1>4, <1>6, <1>7, <1>8 DEF ArtifactInv, LeaseIsWorkers

(***************************************************************************)
(* Steps that touch the files.                                             *)
(***************************************************************************)

\* The worker is reaped or was never started when the files are touched.
LEMMA WorkersStay ==
    ASSUME ArtifactInv, NEW c \in Commands, UNCHANGED workerVars,
           \A d \in Commands \ {c} : parent'[d] = parent[d],
           \/ parent'[c] \in {"claimed", "refused"} /\ worker[c] = "none"
           \/ parent'[c] \in {"truncating", "writing", "success"} /\ worker[c] = "reaped"
           \/ parent'[c] \in {"dropping", "error"} /\ worker[c] \in {"none", "reaped"}
    PROVE  StagesAgree' /\ LeaseIsWorkers'
<1>1. worker' = worker /\ lease' = lease /\ recorded' = recorded
  BY DEF workerVars
<1> QED BY <1>1 DEF ArtifactInv, StagesAgree, LeaseIsWorkers, Running, Exited

\* The destination is claimed, or refused for the file it names.
LEMMA ClaimStep ==
    ASSUME ArtifactInv, NEW c \in Commands, Claim(c)
    PROVE  ArtifactInv'
<1>1. parent[c] = "idle" /\ worker[c] = "none" /\ claim[c] = None /\ UNCHANGED workerVars
  BY DEF Claim, ArtifactInv, ArtifactTypeOK, StagesAgree
<1>2. PICK f \in BOOLEAN : force' = [force EXCEPT ![c] = f]
  BY WorkerAssumption DEF Claim
<1>3. force' \in [Commands -> BOOLEAN] /\ \A d \in Commands \ {c} : force'[d] = force[d]
  BY <1>2 DEF ArtifactInv, ArtifactTypeOK
<1>4. Unforced' => Unforced
  BY <1>1, <1>3 DEF Unforced, ArtifactInv, ClaimsAreOwned
<1>5. \A d \in Commands : path = d => claim[d] = d
  BY DEF ArtifactInv, ClaimsAreOwned
<1>6. ASSUME path # None, ~force'[c] PROVE ArtifactInv'
  <2>1. parent' = [parent EXCEPT ![c] = "refused"] /\ UNCHANGED <<path, content, claim>>
    BY <1>6 DEF Claim, Goes, fileVars
  <2>2. StagesAgree' /\ LeaseIsWorkers'
    BY <1>1, <2>1, WorkersStay DEF ArtifactInv, ArtifactTypeOK
  <2>3. ArtifactTypeOK'
    BY <1>1, <1>3, <2>1 DEF ArtifactInv, ArtifactTypeOK, workerVars, Ended
  <2>4. ClaimsAreOwned'
    BY <1>1, <1>3, <2>1 DEF ArtifactInv, ArtifactTypeOK, ClaimsAreOwned
  <2>5. ContentIsOwned'
    BY <1>1, <1>4, <2>1 DEF ArtifactInv, ArtifactTypeOK, ContentIsOwned
  <2> QED BY <2>2, <2>3, <2>4, <2>5 DEF ArtifactInv
<1>7. ASSUME path = None PROVE ArtifactInv'
  <2>1. /\ parent' = [parent EXCEPT ![c] = "claimed"]
        /\ path' = c /\ content' = [content EXCEPT ![c] = "nothing"]
        /\ claim' = [claim EXCEPT ![c] = c]
    BY <1>7 DEF Claim, Goes
  <2>2. StagesAgree' /\ LeaseIsWorkers'
    BY <1>1, <2>1, WorkersStay DEF ArtifactInv, ArtifactTypeOK
  <2>3. ArtifactTypeOK'
    BY <1>1, <1>3, <2>1, WorkerAssumption DEF ArtifactInv, ArtifactTypeOK, workerVars, Ended,
     Inodes
  <2>4. \A d \in Commands : claim[d] = d => parent[d] = "error"
    BY <1>7, WorkerAssumption DEF ArtifactInv, ClaimsAreOwned
  <2>5. ClaimsAreOwned'
    BY <1>1, <1>3, <2>1, <2>4, WorkerAssumption DEF ArtifactInv, ArtifactTypeOK, ClaimsAreOwned
  <2>6. ContentIsOwned'
    BY <1>1, <1>4, <2>1, WorkerAssumption DEF ArtifactInv, ArtifactTypeOK, ContentIsOwned, Inodes
  <2> QED BY <2>2, <2>3, <2>5, <2>6 DEF ArtifactInv
<1>8. ASSUME path # None, force'[c] PROVE ArtifactInv'
  <2>1. /\ parent' = [parent EXCEPT ![c] = "claimed"] /\ UNCHANGED <<path, content>>
        /\ claim' = [claim EXCEPT ![c] = path]
    BY <1>8 DEF Claim, Goes, fileVars
  <2>2. StagesAgree' /\ LeaseIsWorkers'
    BY <1>1, <2>1, WorkersStay DEF ArtifactInv, ArtifactTypeOK
  <2>3. path # c
    BY <1>1, <1>5, WorkerAssumption
  <2>4. ArtifactTypeOK'
    BY <1>1, <1>3, <1>8, <2>1 DEF ArtifactInv, ArtifactTypeOK, workerVars, Ended
  <2>5. ClaimsAreOwned'
    BY <1>1, <1>3, <1>8, <2>1, <2>3 DEF ArtifactInv, ArtifactTypeOK, ClaimsAreOwned
  <2>6. \A d \in Commands : claim'[d] # d => claim[d] # d /\ path # d
    BY <1>1, <1>5, <2>1, <2>3, WorkerAssumption DEF ArtifactInv, ArtifactTypeOK
  <2>7. ContentIsOwned'
    BY <1>1, <1>4, <1>8, <2>1, <2>6 DEF ArtifactInv, ArtifactTypeOK, ContentIsOwned, Unforced
  <2> QED BY <2>2, <2>4, <2>5, <2>7 DEF ArtifactInv
<1> QED BY <1>6, <1>7, <1>8

\* The claimed file is emptied, or written to a success or part of the way.
LEMMA WriteStep ==
    ASSUME ArtifactInv, NEW c \in Commands, Truncate(c) \/ Write(c)
    PROVE  ArtifactInv'
<1>1. /\ parent[c] \in {"truncating", "writing"} /\ worker[c] = "reaped"
      /\ claim[c] \in Inodes /\ UNCHANGED <<path, force, claim, workerVars>>
  BY WorkerAssumption DEF Truncate, Write, ArtifactInv, ArtifactTypeOK, StagesAgree, Inodes
<1>2. PICK step \in {"writing", "success", "dropping"}, held \in {"nothing", "report", "part"} :
         /\ parent' = [parent EXCEPT ![c] = step]
         /\ content' = [content EXCEPT ![claim[c]] = held]
         /\ held = "report" <=> step = "success"
  BY Zenon DEF Truncate, Write, Goes
<1>3. StagesAgree' /\ LeaseIsWorkers'
  BY <1>1, <1>2, WorkersStay DEF ArtifactInv, ArtifactTypeOK
<1>4. ArtifactTypeOK'
  BY <1>1, <1>2 DEF ArtifactInv, ArtifactTypeOK, workerVars, Ended
<1>5. ClaimsAreOwned'
  BY <1>1, <1>2 DEF ArtifactInv, ArtifactTypeOK, ClaimsAreOwned
<1>6. ContentIsOwned'
  <2>1. \A d \in Commands : claim[d] # d => claim[c] # d
    BY DEF ArtifactInv, ContentIsOwned
  <2>2. Unforced => claim[c] = c
    BY <1>1, WorkerAssumption DEF Unforced, ArtifactInv, ClaimsAreOwned, Inodes
  <2> QED BY <1>1, <1>2, <2>1, <2>2 DEF ArtifactInv, ArtifactTypeOK, ContentIsOwned, Unforced, Inodes
<1> QED BY <1>3, <1>4, <1>5, <1>6 DEF ArtifactInv

\* A reservation is dropped: what it created is removed by its name.
LEMMA DropStep ==
    ASSUME ArtifactInv, NEW c \in Commands, Drop(c)
    PROVE  ArtifactInv'
<1>1. /\ parent[c] = "dropping" /\ parent' = [parent EXCEPT ![c] = "error"]
      /\ worker[c] \in {"none", "reaped"}
      /\ path' = (IF claim[c] = c THEN None ELSE path)
      /\ UNCHANGED <<content, force, claim, workerVars>>
  BY DEF Drop, Goes, ArtifactInv, StagesAgree
<1>2. StagesAgree' /\ LeaseIsWorkers'
  BY <1>1, WorkersStay DEF ArtifactInv, ArtifactTypeOK
<1>3. ArtifactTypeOK'
  BY <1>1 DEF ArtifactInv, ArtifactTypeOK, workerVars, Ended
<1>4. claim[c] = c <=> path = c
  BY <1>1 DEF ArtifactInv, ClaimsAreOwned
<1>5. ClaimsAreOwned'
  BY <1>1, <1>4, WorkerAssumption DEF ArtifactInv, ArtifactTypeOK, ClaimsAreOwned
<1>6. ContentIsOwned'
  BY <1>1 DEF ArtifactInv, ArtifactTypeOK, ContentIsOwned, Unforced
<1> QED BY <1>2, <1>3, <1>5, <1>6 DEF ArtifactInv

(***************************************************************************)
(* The theorem.                                                            *)
(***************************************************************************)

\* Every step of a command, a worker or the start of one keeps the invariant.
LEMMA ArtifactInvStep ==
    ASSUME ArtifactInv, [ArtifactNext]_artifactVars
    PROVE  ArtifactInv'
<1>1. ASSUME NEW c \in Commands, Claim(c) \/ Command(c) \/ Disappear(c) \/ Worker(c)
      PROVE  ArtifactInv'
  <2>1. Claim(c) \/ Worker(c) \/ Drop(c) \/ (Truncate(c) \/ Write(c)) \/ Quiet(c)
    BY <1>1 DEF Command, Quiet
  <2> QED BY <2>1, ClaimStep, WorkerStep, DropStep, WriteStep, QuietStep
<1>2. CASE UNCHANGED artifactVars
  BY <1>2 DEF artifactVars, fileVars, workerVars, ArtifactInv, ArtifactTypeOK, StagesAgree, LeaseIsWorkers,
     ClaimsAreOwned, ContentIsOwned, Unforced
<1> QED BY <1>1, <1>2 DEF ArtifactNext

\* The invariant is what CommandsAreSound promises of every state.
LEMMA ArtifactInvIsSound ==
    ASSUME ArtifactInv
    PROVE  /\ WorkersEndWithCommands
           /\ RefusedBeforeRecording
           /\ AnalysesAreLeased
           /\ DestinationIsSettled
<1>1. WorkersEndWithCommands /\ RefusedBeforeRecording /\ AnalysesAreLeased
  BY DEF ArtifactInv, StagesAgree, LeaseIsWorkers, WorkersEndWithCommands, RefusedBeforeRecording,
     AnalysesAreLeased
<1>2. DestinationIsSettled
  <2> SUFFICES ASSUME \A c \in Commands : parent[c] \in {"success", "error", "refused"} /\ ~force[c],
                      path \in Commands
               PROVE  content[path] = "report" /\ parent[path] = "success"
    BY DEF DestinationIsSettled
  <2>1. claim[path] = path /\ parent[path] \notin {"error", "refused"}
    BY WorkerAssumption DEF ArtifactInv, ArtifactTypeOK, ClaimsAreOwned
  <2> QED BY <2>1 DEF ArtifactInv, ContentIsOwned, Unforced
<1> QED BY <1>1, <1>2

\* What a step of a command does to a file that holds something.
LEMMA NothingIsLost ==
    ASSUME ArtifactInv, [ArtifactNext]_artifactVars, Unforced, Unforced',
           NEW i \in Inodes, content[i] \in {"before", "report"}
    PROVE  content'[i] = content[i] /\ (path = i => path' = i)
<1>1. i \in Commands => parent[i] = "success"
  BY DEF ArtifactInv, ContentIsOwned
<1>2. ASSUME NEW c \in Commands, Claim(c)
      PROVE  content'[i] = content[i] /\ (path = i => path' = i)
  <2>1. parent[c] = "idle" /\ i # c
    BY <1>1, <1>2 DEF Claim
  <2> QED BY <1>2, <2>1, WorkerAssumption DEF Claim, fileVars, ArtifactInv, ArtifactTypeOK, Inodes
<1>3. ASSUME NEW c \in Commands, Truncate(c) \/ Write(c)
      PROVE  content'[i] = content[i] /\ (path = i => path' = i)
  <2>1. claim[c] = c
    BY <1>3 DEF Truncate, Write, ArtifactInv, ArtifactTypeOK, ClaimsAreOwned, Unforced
  <2>2. i # c
    BY <1>1, <1>3 DEF Truncate, Write
  <2> QED BY <1>3, <2>1, <2>2 DEF Truncate, Write, ArtifactInv, ArtifactTypeOK, Inodes
<1>4. ASSUME NEW c \in Commands, Drop(c)
      PROVE  content'[i] = content[i] /\ (path = i => path' = i)
  <2>1. i # c
    BY <1>1, <1>4 DEF Drop
  <2>2. claim[c] = c => path = c
    BY <1>4 DEF Drop, ArtifactInv, ClaimsAreOwned
  <2> QED BY <1>4, <2>1, <2>2 DEF Drop
<1>5. ASSUME NEW c \in Commands, Quiet(c) \/ Worker(c)
      PROVE  content'[i] = content[i] /\ (path = i => path' = i)
  BY <1>5 DEF Quiet, Spawn, SeesExit, Deadline, Kill, Reap, ReadReport, Disappear, Worker,
     StartWorker, RecordAnalysis, Render, Finish, WorkerFails, fileVars
<1>6. CASE UNCHANGED artifactVars
  BY <1>6 DEF artifactVars, fileVars
<1>7. ASSUME NEW c \in Commands, Claim(c) \/ Command(c) \/ Disappear(c) \/ Worker(c)
      PROVE  content'[i] = content[i] /\ (path = i => path' = i)
  <2>1. Claim(c) \/ (Quiet(c) \/ Worker(c)) \/ Drop(c) \/ (Truncate(c) \/ Write(c))
    BY <1>7 DEF Command, Quiet
  <2> QED BY <1>2, <1>3, <1>4, <1>5, <2>1
<1> QED BY <1>6, <1>7 DEF ArtifactNext

\* However many artifact commands share a database and a destination, and at
\* whatever step each is killed, timed out or fails: none leaves its worker or
\* the lease behind, none records before its destination is settled, and without
\* --force what was there is spared.
THEOREM CommandsSound ==
     ArtifactSpec => CommandsAreSound
<1> DEFINE Stays == \A i \in Inodes :
              content[i] \in {"before", "report"}
                /\ (\A c \in Commands : ~force[c] /\ ~force'[c]) =>
                  content'[i] = content[i] /\ (path = i => path' = i)
<1>1. ArtifactInit => ArtifactInv
  BY ArtifactInitHolds
<1>2. ArtifactInv /\ [ArtifactNext]_artifactVars => ArtifactInv'
  BY ArtifactInvStep
<1>3. ArtifactInv => /\ ArtifactTypeOK
              /\ WorkersEndWithCommands
              /\ RefusedBeforeRecording
              /\ AnalysesAreLeased
              /\ DestinationIsSettled
  BY ArtifactInvIsSound DEF ArtifactInv
<1>4. ArtifactInv /\ [ArtifactNext]_artifactVars => [Stays]_artifactVars
  BY NothingIsLost DEF Unforced
<1> QED BY <1>1, <1>2, <1>3, <1>4, PTL DEF ArtifactSpec, CommandsAreSound, NothingIsOverwritten
=============================================================================
