-------------------------- MODULE PluginEventsProofs --------------------------
(***************************************************************************)
(* Proofs about PluginEvents: the event hub, the plugin lists and the      *)
(* tracking sources that follow it, and the log entries that pass through  *)
(* it, for any plugins, sessions, entries and capacities.                  *)
(***************************************************************************)
EXTENDS PluginEvents, FiniteSetTheorems, SequenceTheorems, WellFoundedInduction, TLAPS

-----------------------------------------------------------------------------
(* Operators. *)

\* Removing one element of a sequence.
LEMMA RemovedAt ==
    ASSUME NEW S, NEW s \in Seq(S), NEW i \in 1 .. Len(s)
    PROVE  /\ RemoveAt(s, i) \in Seq(S) /\ Len(RemoveAt(s, i)) = Len(s) - 1
           /\ \A j \in 1 .. Len(s) - 1 : RemoveAt(s, i)[j] = IF j < i THEN s[j] ELSE s[j + 1]
<1> DEFINE a == SubSeq(s, 1, i - 1)
           b == SubSeq(s, i + 1, Len(s))
<1>0. i \in Nat /\ 1 <= i /\ i <= Len(s) /\ Len(s) \in Nat
  OBVIOUS
<1>1. a \in Seq(S) /\ Len(a) = i - 1 /\ \A j \in 1 .. i - 1 : a[j] = s[j]
  OBVIOUS
<1>2. b \in Seq(S) /\ Len(b) = Len(s) - i /\ \A j \in 1 .. Len(s) - i : b[j] = s[i + j]
  OBVIOUS
<1> HIDE DEF a, b
<1>3. a \o b \in Seq(S) /\ Len(a \o b) = Len(s) - 1
  <2>1. a \o b \in Seq(S) /\ Len(a \o b) = Len(a) + Len(b)
    BY <1>1, <1>2, ConcatProperties
  <2> QED BY <2>1, <1>0, <1>1, <1>2
<1>4. ASSUME NEW j \in 1 .. Len(s) - 1 PROVE (a \o b)[j] = IF j < i THEN s[j] ELSE s[j + 1]
  <2>1. (a \o b)[j] = IF j <= Len(a) THEN a[j] ELSE b[j - Len(a)]
    <3>1. j \in 1 .. Len(a) + Len(b)
      BY <1>0, <1>1, <1>2
    <3> QED BY <3>1, <1>1, <1>2, ConcatProperties
  <2>2. CASE j < i BY <2>1, <2>2, <1>1
  <2>3. CASE ~ (j < i)
    <3>1. j - (i - 1) \in 1 .. Len(s) - i
      BY <2>3
    <3>2. (a \o b)[j] = b[j - (i - 1)]
      BY <2>1, <2>3, <1>1
    <3> QED BY <3>1, <3>2, <1>2, <2>3
  <2> QED BY <2>2, <2>3
<1> QED BY <1>3, <1>4 DEF RemoveAt, a, b

\* Sets of naturals have a least element.
LEMMA MinIsLeast ==
    ASSUME NEW S \in SUBSET Nat, S # {} PROVE Min(S) \in S /\ \A y \in S : Min(S) <= y
<1> DEFINE R == OpToRel(<, Nat)
<1>1. IsWellFoundedOn(R, Nat)
  BY NatLessThanWellFounded
<1>2. \A x, y \in S : <<y, x>> \in R <=> y < x
  BY DEF OpToRel
<1> HIDE DEF R
<1>3. PICK x \in S : \A y \in S : <<y, x>> \notin R
  BY <1>1, WFMin
<1>4. ASSUME NEW y \in S PROVE x <= y
  <2>1. ~ (y < x)
    BY <1>2, <1>3
  <2> QED BY <2>1
<1> QED BY <1>4 DEF Min

\* How many log entries one event stands for.
Unit(e, p) == IF e.kind = "log" /\ e.plugin = p THEN 1 + e.dropped ELSE 0

Snapshots == [session : Nat, up : BOOLEAN]
Kinds == {"none", "discovered", "state", "status", "log"}
Events == [kind : Kinds, plugin : Plugin \cup {"none"}, snap : Snapshots, dropped : Nat]

LogsOf(es, p) == {i \in DOMAIN es : es[i].kind = "log" /\ es[i].plugin = p}

LEMMA EntriesIn ==
    ASSUME NEW es \in Seq(Events), NEW p
    PROVE  \A x : x \in Entries(es, p) <=> \E i \in LogsOf(es, p) : \E k \in 0 .. es[i].dropped : x = <<i, k>>
BY DEF Entries, LogsOf

LEMMA EntriesFinite ==
    ASSUME NEW es \in Seq(Events), NEW p
    PROVE  IsFiniteSet(Entries(es, p)) /\ Weight(es, p) \in Nat
<1> DEFINE Of == LogsOf(es, p)
           Part(i) == {i} \X (0 .. es[i].dropped)
           Parts == {Part(i) : i \in Of}
<1>1. IsFiniteSet(Of)
  <2>1. IsFiniteSet(1 .. Len(es)) /\ Of \subseteq 1 .. Len(es)
    BY FS_Interval DEF LogsOf
  <2> QED BY <2>1, FS_Subset
<1>2. IsFiniteSet(Parts)
  <2> DEFINE f == [i \in Of |-> Part(i)]
  <2>1. f \in Surjection(Of, Parts)
    <3>1. f \in [Of -> Parts] /\ \A P \in Parts : \E i \in Of : f[i] = P
      OBVIOUS
    <3> HIDE DEF f, Of, Parts
    <3> QED BY <3>1 DEF Surjection
  <2> HIDE DEF f, Of, Parts
  <2> QED BY <2>1, <1>1, FS_Surjection
<1>3. ASSUME NEW P \in Parts PROVE IsFiniteSet(P)
  <2>1. PICK i \in Of : P = Part(i)
    OBVIOUS
  <2>2. es[i].dropped \in Nat
    <3>1. i \in 1 .. Len(es)
      BY DEF LogsOf
    <3>2. es[i] \in Events
      BY <3>1
    <3> QED BY <3>2 DEF Events
  <2>3. IsFiniteSet({i}) /\ IsFiniteSet(0 .. es[i].dropped)
    <3>1. IsFiniteSet({i})
      BY FS_Singleton
    <3> DEFINE d == es[i].dropped
    <3>2. IsFiniteSet(0 .. d)
      <4>1. 0 \in Int /\ d \in Int
        BY <2>2
      <4> HIDE DEF d
      <4> QED BY <4>1, FS_Interval
    <3> QED BY <3>1, <3>2
  <2> QED BY <2>1, <2>3, FS_Product
<1>4. Entries(es, p) = UNION Parts
  BY DEF Entries, LogsOf
<1>5. IsFiniteSet(Entries(es, p))
  BY <1>2, <1>3, <1>4, FS_UNION
<1> QED BY <1>5, FS_CardinalityType DEF Weight

\* The elements of fs are elements of es, all log entries of p among them.
Moves(m, es, fs, p) ==
    /\ m \in [1 .. Len(fs) -> 1 .. Len(es)]
    /\ \A j, k \in 1 .. Len(fs) : m[j] = m[k] => j = k
    /\ \A j \in 1 .. Len(fs) : fs[j] = es[m[j]]
    /\ \A i \in LogsOf(es, p) : \E j \in 1 .. Len(fs) : m[j] = i

\* Moving entries about does not change their number.
LEMMA WeightMoved ==
    ASSUME NEW es \in Seq(Events), NEW fs \in Seq(Events), NEW p, NEW m, Moves(m, es, fs, p)
    PROVE  Weight(fs, p) = Weight(es, p)
<1> USE DEF Moves
<1> DEFINE E == Entries(es, p)
           F == Entries(fs, p)
           g == [x \in F |-> <<m[x[1]], x[2]>>]
<1>1. ASSUME NEW x \in F PROVE g[x] \in E /\ x = <<x[1], x[2]>> /\ x[1] \in 1 .. Len(fs)
  <2>1. PICK j \in LogsOf(fs, p) : \E k \in 0 .. fs[j].dropped : x = <<j, k>>
    BY EntriesIn
  <2>0. PICK k \in 0 .. fs[j].dropped : x = <<j, k>>
    BY <2>1
  <2>2. j \in 1 .. Len(fs) /\ m[j] \in LogsOf(es, p) /\ es[m[j]] = fs[j]
    BY DEF LogsOf
  <2>3. g[x] = <<m[j], k>>
    BY <2>0
  <2> QED BY <2>0, <2>2, <2>3, EntriesIn
<1>2. ASSUME NEW x \in F, NEW y \in F, g[x] = g[y] PROVE x = y
  <2>1. m[x[1]] = m[y[1]] /\ x[2] = y[2]
    BY <1>2
  <2>2. x[1] \in 1 .. Len(fs) /\ y[1] \in 1 .. Len(fs) /\ x = <<x[1], x[2]>> /\ y = <<y[1], y[2]>>
    BY <1>1
  <2>3. x[1] = y[1]
    BY <2>1, <2>2
  <2> QED BY <2>1, <2>2, <2>3
<1>3. ASSUME NEW y \in E PROVE \E x \in F : g[x] = y
  <2>1. PICK i \in LogsOf(es, p) : \E k \in 0 .. es[i].dropped : y = <<i, k>>
    BY EntriesIn
  <2>0. PICK k \in 0 .. es[i].dropped : y = <<i, k>>
    BY <2>1
  <2>2. PICK j \in 1 .. Len(fs) : m[j] = i
    OBVIOUS
  <2>3. j \in LogsOf(fs, p) /\ fs[j] = es[i]
    BY <2>2 DEF LogsOf
  <2>4. <<j, k>> \in F
    BY <2>3, EntriesIn
  <2>5. g[<<j, k>>] = y
    BY <2>4, <2>0, <2>2
  <2> QED BY <2>4, <2>5
<1>4. g \in Bijection(F, E)
  <2>1. g \in [F -> E]
    BY <1>1
  <2> HIDE DEF g, E, F
  <2> QED BY <2>1, <1>2, <1>3 DEF Bijection, Injection, Surjection, IsInjective
<1>5. ExistsBijection(F, E)
  BY <1>4 DEF ExistsBijection
<1>6. IsFiniteSet(F)
  BY EntriesFinite
<1> QED BY <1>5, <1>6, FS_Bijection DEF Weight

LEMMA WeightNone ==
    ASSUME NEW p PROVE Weight(<<>>, p) = 0
<1>1. Entries(<<>>, p) = {}
  BY DEF Entries
<1> QED BY <1>1, FS_EmptySet DEF Weight

LEMMA WeightAppend ==
    ASSUME NEW es \in Seq(Events), NEW e \in Events, NEW p
    PROVE  Weight(Append(es, e), p) = Weight(es, p) + Unit(e, p) /\ Unit(e, p) \in Nat
<1> DEFINE fs == Append(es, e)
           n == Len(es) + 1
<1>1. fs \in Seq(Events) /\ Len(fs) = n /\ fs[n] = e /\ \A i \in 1 .. Len(es) : fs[i] = es[i]
  OBVIOUS
<1> HIDE DEF fs
<1>2. e.dropped \in Nat
  BY DEF Events
<1>a. CASE e.kind = "log" /\ e.plugin = p
  <2> DEFINE New == {n} \X (0 .. e.dropped)
  <2>1. LogsOf(fs, p) = LogsOf(es, p) \cup {n}
    BY <1>a, <1>1 DEF LogsOf
  <2>2. Entries(fs, p) = Entries(es, p) \cup New
    <3>1. ASSUME NEW x \in Entries(fs, p) PROVE x \in Entries(es, p) \cup New
      <4>1. PICK i \in LogsOf(fs, p) : \E k \in 0 .. fs[i].dropped : x = <<i, k>>
        BY <1>1, EntriesIn
      <4>0. PICK k \in 0 .. fs[i].dropped : x = <<i, k>>
        BY <4>1
      <4>2. CASE i = n BY <4>0, <4>2, <1>1
      <4>3. CASE i \in LogsOf(es, p)
        <5>1. fs[i] = es[i] BY <4>3, <1>1 DEF LogsOf
        <5> QED BY <4>0, <4>3, <5>1, EntriesIn
      <4> QED BY <4>2, <4>3, <2>1
    <3>2. ASSUME NEW x \in Entries(es, p) PROVE x \in Entries(fs, p)
      <4>1. PICK i \in LogsOf(es, p) : \E k \in 0 .. es[i].dropped : x = <<i, k>>
        BY EntriesIn
      <4>0. PICK k \in 0 .. es[i].dropped : x = <<i, k>>
        BY <4>1
      <4>2. fs[i] = es[i] /\ i \in LogsOf(fs, p)
        BY <2>1, <1>1 DEF LogsOf
      <4> QED BY <4>0, <4>2, <1>1, EntriesIn
    <3>3. ASSUME NEW x \in New PROVE x \in Entries(fs, p)
      <4>1. PICK k \in 0 .. e.dropped : x = <<n, k>>
        OBVIOUS
      <4> QED BY <4>1, <2>1, <1>1, EntriesIn
    <3> QED BY <3>1, <3>2, <3>3
  <2>3. Entries(es, p) \cap New = {}
    <3>1. ASSUME NEW x \in Entries(es, p) PROVE x \notin New
      <4>1. PICK i \in LogsOf(es, p) : \E k \in 0 .. es[i].dropped : x = <<i, k>>
        BY EntriesIn
      <4>0. PICK k \in 0 .. es[i].dropped : x = <<i, k>>
        BY <4>1
      <4>2. i # n BY DEF LogsOf
      <4> QED BY <4>0, <4>2
    <3> QED BY <3>1
  <2>4. IsFiniteSet(New) /\ Cardinality(New) = 1 + e.dropped
    <3>1. IsFiniteSet({n}) /\ Cardinality({n}) = 1
      BY FS_Singleton
    <3> DEFINE d == e.dropped
    <3>2. IsFiniteSet(0 .. d) /\ Cardinality(0 .. d) = d + 1
      <4>1. 0 \in Int /\ d \in Nat
        BY <1>2
      <4> HIDE DEF d
      <4> QED BY <4>1, FS_Interval
    <3> HIDE DEF n
    <3>3. IsFiniteSet(New) /\ Cardinality(New) = 1 * (e.dropped + 1)
      <4> DEFINE D == 0 .. d
      <4>1. IsFiniteSet({n}) /\ IsFiniteSet(D) /\ Cardinality({n}) = 1 /\ Cardinality(D) = d + 1 /\ New = {n} \X D
        BY <3>1, <3>2
      <4> HIDE DEF D, New, d
      <4> QED BY <4>1, FS_Product DEF d
    <3> QED BY <3>3, <1>2
  <2>5. IsFiniteSet(Entries(es, p)) /\ Cardinality(Entries(es, p)) \in Nat
    BY EntriesFinite DEF Weight
  <2>6. Cardinality(Entries(fs, p)) = Cardinality(Entries(es, p)) + Cardinality(New) - Cardinality({})
    BY <2>2, <2>3, <2>4, <2>5, FS_Union
  <2>7. Cardinality({}) = 0
    BY FS_EmptySet
  <2>8. Weight(fs, p) = Weight(es, p) + (1 + e.dropped) - 0
    BY <2>4, <2>6, <2>7 DEF Weight
  <2>9. Unit(e, p) = 1 + e.dropped
    BY <1>a DEF Unit
  <2> QED BY <2>5, <2>8, <2>9, <1>2 DEF Weight, fs
<1>b. CASE ~ (e.kind = "log" /\ e.plugin = p)
  <2>1. LogsOf(fs, p) = LogsOf(es, p)
    BY <1>b, <1>1 DEF LogsOf
  <2>2. Entries(fs, p) = Entries(es, p)
    <3>1. \A i \in LogsOf(es, p) : fs[i] = es[i]
      BY <1>1 DEF LogsOf
    <3>2. \A x : x \in Entries(fs, p) <=> x \in Entries(es, p)
      BY <1>1, <2>1, <3>1, EntriesIn
    <3> QED BY <3>2
  <2>3. Weight(fs, p) = Weight(es, p) /\ Weight(es, p) \in Nat
    BY <2>2, EntriesFinite DEF Weight
  <2>4. Unit(e, p) = 0
    BY <1>b DEF Unit
  <2> QED BY <2>3, <2>4 DEF fs
<1> QED BY <1>a, <1>b DEF fs

LEMMA WeightOne ==
    ASSUME NEW e \in Events, NEW p PROVE Weight(<<e>>, p) = Unit(e, p) /\ Unit(e, p) \in Nat
<1>1. <<e>> = Append(<<>>, e) /\ <<>> \in Seq(Events)
  OBVIOUS
<1>2. Weight(Append(<<>>, e), p) = Weight(<<>>, p) + Unit(e, p) /\ Unit(e, p) \in Nat
  BY <1>1, WeightAppend
<1> QED BY <1>1, <1>2, WeightNone

\* Taking the first element away.
LEMMA WeightTail ==
    ASSUME NEW es \in Seq(Events), es # <<>>, NEW p
    PROVE  /\ Weight(es, p) = Unit(Head(es), p) + Weight(Tail(es), p)
           /\ Head(es) \in Events /\ Tail(es) \in Seq(Events) /\ Unit(Head(es), p) \in Nat
<1> DEFINE n == Len(es) - 1
           t == Tail(es)
           fs == Append(t, Head(es))
           m == [j \in 1 .. Len(fs) |-> IF j = Len(fs) THEN 1 ELSE j + 1]
<1>0. n \in Nat /\ Len(es) \in Nat
  OBVIOUS
<1>1. Head(es) \in Events /\ Head(es) = es[1] /\ t \in Seq(Events) /\ Len(t) = n /\ \A i \in 1 .. n : t[i] = es[i + 1]
  OBVIOUS
<1> HIDE DEF t
<1>2. fs \in Seq(Events) /\ Len(fs) = n + 1 /\ fs[n + 1] = es[1] /\ \A i \in 1 .. n : fs[i] = es[i + 1]
  BY <1>1
<1> HIDE DEF fs
<1>3. m \in [1 .. Len(fs) -> 1 .. Len(es)]
  BY <1>0, <1>2
<1>4. \A j, k \in 1 .. Len(fs) : m[j] = m[k] => j = k
  BY <1>0, <1>2
<1>5. \A j \in 1 .. Len(fs) : fs[j] = es[m[j]]
  BY <1>0, <1>2
<1>6. ASSUME NEW i \in LogsOf(es, p) PROVE \E j \in 1 .. Len(fs) : m[j] = i
  <2>1. i \in 1 .. n + 1
    BY <1>0 DEF LogsOf
  <2>2. CASE i = 1
    <3>1. n + 1 \in 1 .. Len(fs) /\ m[n + 1] = 1
      BY <1>0, <1>2
    <3> QED BY <3>1, <2>2
  <2>3. CASE i # 1
    <3>1. i - 1 \in 1 .. Len(fs) /\ m[i - 1] = i
      BY <1>0, <1>2, <2>1, <2>3
    <3> QED BY <3>1
  <2> QED BY <2>2, <2>3
<1> HIDE DEF m
<1>7. Weight(fs, p) = Weight(es, p)
  <2>1. Moves(m, es, fs, p)
    BY <1>3, <1>4, <1>5, <1>6 DEF Moves
  <2> QED BY <2>1, <1>2, WeightMoved
<1>8. Weight(fs, p) = Weight(t, p) + Unit(Head(es), p) /\ Unit(Head(es), p) \in Nat
  BY <1>1, WeightAppend DEF fs
<1>9. Weight(t, p) \in Nat
  BY <1>1, EntriesFinite
<1> QED BY <1>1, <1>7, <1>8, <1>9 DEF t

\* Removing what is no log entry.
LEMMA WeightRemoved ==
    ASSUME NEW es \in Seq(Events), NEW i \in 1 .. Len(es), NEW p, es[i].kind # "log"
    PROVE  Weight(RemoveAt(es, i), p) = Weight(es, p)
<1> DEFINE fs == RemoveAt(es, i)
           m == [j \in 1 .. Len(fs) |-> IF j < i THEN j ELSE j + 1]
<1>1. fs \in Seq(Events) /\ Len(fs) = Len(es) - 1 /\ \A j \in 1 .. Len(es) - 1 : fs[j] = IF j < i THEN es[j] ELSE es[j + 1]
  BY RemovedAt
<1> HIDE DEF fs
<1>2. m \in [1 .. Len(fs) -> 1 .. Len(es)] /\ (\A j, k \in 1 .. Len(fs) : m[j] = m[k] => j = k)
  BY <1>1
<1>3. \A j \in 1 .. Len(fs) : fs[j] = es[m[j]]
  BY <1>1
<1>4. ASSUME NEW k \in LogsOf(es, p) PROVE \E j \in 1 .. Len(fs) : m[j] = k
  <2>1. k \in 1 .. Len(es) /\ k # i
    BY DEF LogsOf
  <2>2. CASE k < i
    <3>1. k \in 1 .. Len(fs) /\ m[k] = k
      BY <2>1, <2>2, <1>1
    <3> QED BY <3>1
  <2>3. CASE k > i
    <3>1. k - 1 \in 1 .. Len(fs) /\ m[k - 1] = k
      BY <2>1, <2>3, <1>1
    <3> QED BY <3>1
  <2> QED BY <2>1, <2>2, <2>3
<1> HIDE DEF m
<1>5. Weight(fs, p) = Weight(es, p)
  <2>1. Moves(m, es, fs, p)
    BY <1>2, <1>3, <1>4 DEF Moves
  <2> QED BY <2>1, <1>1, WeightMoved
<1> QED BY <1>5 DEF fs

-----------------------------------------------------------------------------
(* The invariant. *)

Subscribers ==
    [at : {"none", "asked", "on", "closed"}, cancelled : BOOLEAN, pending : Seq(Events),
     order : Seq(Plugin \X States), dropped : [Plugin -> Nat]]

Hubs == [at : {"off", "run", "stopped"}, done : BOOLEAN, quota : Nat, queue : Seq(Events)]

Ghosts ==
    [refused : SUBSET Plugin, pushed : SUBSET Plugin, who : Sub, logs : Nat,
     first : [Plugin -> Nat], owed : [Sub -> [Plugin -> Int]]]

Types ==
    /\ life \in {"starting", "started", "closing"}
    /\ starter \in [left : SUBSET Plugin, next : Events]
    /\ snap \in [Plugin -> Snapshots]
    /\ loop \in [Plugin -> Events]
    /\ lost \in [Plugin -> [count : Nat, session : Nat]]
    /\ hub \in Hubs
    /\ sub \in [Sub -> Subscribers]
    /\ list \in [reading : SUBSET Plugin, got : [Plugin -> Snapshots], shown : [Plugin -> Snapshots]]
    /\ known \in [Plugin -> Nat]
    /\ source \in [Plugin -> Nat \cup {Late}]
    /\ recon \in [at : {"none", "applying"}, left : SUBSET Plugin, got : [Plugin -> Snapshots]]
    /\ ghost \in Ghosts

\* An event tells of a plugin, and no later session than its present one.
Old(e) == e.kind # "none" /\ e.plugin \in Plugin /\ e.snap.session <= snap[e.plugin].session

\* Every event of a sequence tells of the past.
AllOld(es) == \A i \in DOMAIN es : Old(es[i])

\* What is on its way is from the past, and each loop publishes its own.
Reports ==
    /\ \A p \in Plugin : loop[p] = Idle \/ (Old(loop[p]) /\ loop[p].plugin = p /\ loop[p].kind # "discovered")
    /\ starter.next = Idle \/ (Old(starter.next) /\ starter.next.kind \in {"discovered", "state"})
    /\ AllOld(hub.queue)
    /\ \A s \in Sub : AllOld(sub[s].pending)

\* Who does not follow has nothing; the coordinator follows from the beginning;
\* it reads the list when Start is over.
Subscriptions ==
    /\ \A s \in Sub : sub[s].at # "on" =>
          sub[s].pending = <<>> /\ sub[s].order = <<>> /\ sub[s].dropped = [p \in Plugin |-> 0]
    /\ Coordinator \in Sub => sub[Coordinator].at \in {"on", "closed"}
    /\ hub.done => life = "closing"
    /\ recon.at = "none" => recon.left = {}
    /\ recon.at = "applying" => StartIsOver
    /\ life = "starting" => starter.left = Plugin

\* A plugin's loop holds a log entry only while nothing of it is refused.
LogsCounted ==
    /\ LogsAccounted
    /\ \A p \in Plugin : loop[p].kind = "log" => lost[p].count = 0

News(e) == e.kind \notin {"none", "log"}
Quiet(es) == \A i \in DOMAIN es : ~News(es[i])

\* Nothing that the list follower would be told is on its way.
AtRest ==
    /\ Follower \in Sub /\ sub[Follower].at = "on" /\ life = "started" /\ ghost.refused = {}
    /\ starter.left = {} /\ ~News(starter.next) /\ \A p \in Plugin : ~News(loop[p])
    /\ Quiet(hub.queue) /\ Quiet(sub[Follower].pending)

\* What the list follower has read is right, unless something is on its way.
ListRight ==
    /\ \A p \in Plugin \ list.reading : list.got[p] = snap[p]
    /\ list.reading = {} => list.shown = list.got

ListKept == AtRest => ListRight

\* What the coordinator holds is from the past.
Past ==
    \A p \in Plugin :
       /\ known[p] <= snap[p].session /\ recon.got[p].session <= snap[p].session
       /\ source[p] = Late \/ source[p] <= snap[p].session
       /\ ghost.first[p] = 0 <=> known[p] = 0
       /\ known[p] = snap[p].session => source[p] \in {0, Late, snap[p].session} \cup 1 .. (ghost.first[p] - 1)

\* With these the coordinator knows the present session of p, and that it is lost.
Told(session, from, p) ==
    /\ session = snap[p].session
    /\ snap[p].up \/ from \in {0, Late}

\* A state or status of p, and one that tells the present.
Of(e, p) == e.kind \in States /\ e.plugin = p
Current(e, p) == Of(e, p) /\ e.snap = snap[p]

AllCurrent(es, p) == \A i \in DOMAIN es : Of(es[i], p) => es[i].snap = snap[p]
SomeCurrent(es, p) ==
    \E i \in DOMAIN es : Current(es[i], p) /\ \A j \in DOMAIN es : j > i /\ Of(es[j], p) => es[j].snap = snap[p]

\* The present is on its way, from the loop through the queue to what is
\* pending, and nothing older comes after it.
Coming(e, queue, pending, p) ==
    \/ Current(e, p)
    \/ /\ Of(e, p) => e.snap = snap[p]
       /\ SomeCurrent(queue, p) \/ (AllCurrent(queue, p) /\ SomeCurrent(pending, p))

Reconciled ==
    Coordinator \in Sub /\ sub[Coordinator].at = "on" /\ recon.at = "applying" /\ life = "started"

CoordinatorTold ==
    Reconciled =>
       \A p \in Plugin \ (ghost.refused \cup ghost.pushed) :
          \/ Told(known[p], source[p], p)
          \/ Coming(loop[p], hub.queue, sub[Coordinator].pending, p)
          \/ p \in recon.left /\ recon.got[p] = snap[p]

EventsInv == Types /\ Reports /\ Subscriptions /\ LogsCounted /\ ListKept /\ Past /\ CoordinatorTold

-----------------------------------------------------------------------------
(* Sequences of events. *)

LEMMA QuietAppend ==
    ASSUME NEW es \in Seq(Events), NEW e PROVE Quiet(Append(es, e)) <=> Quiet(es) /\ ~News(e)
<1> DEFINE fs == Append(es, e)
<1>1. fs \in Seq(Events \cup {e}) /\ Len(fs) = Len(es) + 1 /\ fs[Len(es) + 1] = e /\ \A i \in 1 .. Len(es) : fs[i] = es[i]
  OBVIOUS
<1> HIDE DEF fs
<1>2. DOMAIN fs = 1 .. Len(es) + 1 /\ DOMAIN es = 1 .. Len(es) /\ Len(es) \in Nat
  BY <1>1
<1>3. Quiet(fs) <=> Quiet(es) /\ ~News(e)
  BY <1>1, <1>2 DEF Quiet
<1> QED BY <1>3 DEF fs

LEMMA QuietTail ==
    ASSUME NEW es \in Seq(Events), es # <<>> PROVE Quiet(es) <=> ~News(Head(es)) /\ Quiet(Tail(es))
<1> DEFINE fs == Tail(es)
<1>1. fs \in Seq(Events) /\ Len(fs) = Len(es) - 1 /\ Head(es) = es[1] /\ (\A i \in 1 .. Len(es) - 1 : fs[i] = es[i + 1]) /\ Len(es) \in Nat \ {0}
  OBVIOUS
<1> HIDE DEF fs
<1>2. DOMAIN fs = 1 .. Len(es) - 1 /\ DOMAIN es = 1 .. Len(es)
  BY <1>1
<1>3. ASSUME Quiet(es) PROVE ~News(Head(es)) /\ Quiet(fs)
  <2>1. \A i \in 1 .. Len(es) : ~News(es[i])
    BY <1>2, <1>3 DEF Quiet
  <2>2. 1 \in 1 .. Len(es) /\ \A i \in 1 .. Len(es) - 1 : i + 1 \in 1 .. Len(es)
    BY <1>1
  <2> QED BY <2>1, <2>2, <1>1, <1>2 DEF Quiet
<1>4. ASSUME ~News(Head(es)), Quiet(fs) PROVE Quiet(es)
  <2>1. ASSUME NEW i \in 1 .. Len(es) PROVE ~News(es[i])
    <3>1. CASE i = 1 BY <3>1, <1>1, <1>4
    <3>2. CASE i # 1
      <4>1. i - 1 \in 1 .. Len(es) - 1 /\ es[i] = fs[i - 1]
        BY <3>2, <1>1
      <4> QED BY <4>1, <1>2, <1>4 DEF Quiet
    <3> QED BY <3>1, <3>2
  <2> QED BY <2>1, <1>2 DEF Quiet
<1> QED BY <1>3, <1>4 DEF fs

LEMMA QuietRemoved ==
    ASSUME NEW es \in Seq(Events), NEW i \in 1 .. Len(es), ~News(es[i]), Quiet(RemoveAt(es, i)) PROVE Quiet(es)
<1> DEFINE fs == RemoveAt(es, i)
<1>1. fs \in Seq(Events) /\ Len(fs) = Len(es) - 1 /\ \A j \in 1 .. Len(es) - 1 : fs[j] = IF j < i THEN es[j] ELSE es[j + 1]
  BY RemovedAt
<1>2. Quiet(fs)
  OBVIOUS
<1> HIDE DEF fs
<1>3. ASSUME NEW j \in 1 .. Len(es) PROVE ~News(es[j])
  <2>1. CASE j = i BY <2>1
  <2>2. CASE j < i
    <3>1. j \in DOMAIN fs /\ fs[j] = es[j]
      BY <1>1, <2>2
    <3> QED BY <3>1, <1>2 DEF Quiet
  <2>3. CASE j > i
    <3>1. j - 1 \in DOMAIN fs /\ fs[j - 1] = es[j]
      BY <1>1, <2>3
    <3> QED BY <3>1, <1>2 DEF Quiet
  <2> QED BY <2>1, <2>2, <2>3
<1> QED BY <1>3 DEF Quiet

LEMMA AllCurrentAppend ==
    ASSUME NEW es \in Seq(Events), NEW e, NEW p
    PROVE  AllCurrent(Append(es, e), p) <=> AllCurrent(es, p) /\ (Of(e, p) => e.snap = snap[p])
<1> DEFINE fs == Append(es, e)
<1>1. fs \in Seq(Events \cup {e}) /\ Len(fs) = Len(es) + 1 /\ fs[Len(es) + 1] = e /\ \A i \in 1 .. Len(es) : fs[i] = es[i]
  OBVIOUS
<1> HIDE DEF fs
<1>2. DOMAIN fs = 1 .. Len(es) + 1 /\ DOMAIN es = 1 .. Len(es) /\ Len(es) \in Nat
  BY <1>1
<1>3. AllCurrent(fs, p) <=> AllCurrent(es, p) /\ (Of(e, p) => e.snap = snap[p])
  BY <1>1, <1>2 DEF AllCurrent
<1> QED BY <1>3 DEF fs

LEMMA SomeCurrentAppend ==
    ASSUME NEW es \in Seq(Events), NEW e, NEW p, Of(e, p) => e.snap = snap[p], SomeCurrent(es, p) \/ Current(e, p)
    PROVE  SomeCurrent(Append(es, e), p)
<1> DEFINE fs == Append(es, e)
<1>1. fs \in Seq(Events \cup {e}) /\ Len(fs) = Len(es) + 1 /\ fs[Len(es) + 1] = e /\ \A i \in 1 .. Len(es) : fs[i] = es[i]
  OBVIOUS
<1> HIDE DEF fs
<1>2. DOMAIN fs = 1 .. Len(es) + 1 /\ DOMAIN es = 1 .. Len(es) /\ Len(es) \in Nat
  BY <1>1
<1>3. CASE Current(e, p)
  <2>1. Current(fs[Len(es) + 1], p) /\ Len(es) + 1 \in DOMAIN fs /\ \A j \in DOMAIN fs : ~(j > Len(es) + 1)
    BY <1>1, <1>2, <1>3
  <2> QED BY <2>1 DEF SomeCurrent, fs
<1>4. CASE SomeCurrent(es, p)
  <2>1. PICK i \in DOMAIN es : Current(es[i], p) /\ \A j \in DOMAIN es : j > i /\ Of(es[j], p) => es[j].snap = snap[p]
    BY <1>4 DEF SomeCurrent
  <2>2. i \in DOMAIN fs /\ Current(fs[i], p)
    BY <2>1, <1>1, <1>2
  <2>3. ASSUME NEW j \in DOMAIN fs, j > i, Of(fs[j], p) PROVE fs[j].snap = snap[p]
    BY <2>1, <2>3, <1>1, <1>2
  <2> QED BY <2>2, <2>3 DEF SomeCurrent, fs
<1> QED BY <1>3, <1>4

LEMMA SomeCurrentRemoved ==
    ASSUME NEW es \in Seq(Events), NEW k \in 1 .. Len(es), NEW p, ~Of(es[k], p), SomeCurrent(es, p)
    PROVE  SomeCurrent(RemoveAt(es, k), p)
<1> DEFINE fs == RemoveAt(es, k)
<1>1. fs \in Seq(Events) /\ Len(fs) = Len(es) - 1 /\ \A j \in 1 .. Len(es) - 1 : fs[j] = IF j < k THEN es[j] ELSE es[j + 1]
  BY RemovedAt
<1> HIDE DEF fs
<1>2. DOMAIN fs = 1 .. Len(es) - 1 /\ DOMAIN es = 1 .. Len(es) /\ Len(es) \in Nat
  BY <1>1
<1>3. PICK i \in 1 .. Len(es) : Current(es[i], p) /\ \A j \in DOMAIN es : j > i /\ Of(es[j], p) => es[j].snap = snap[p]
  BY <1>2 DEF SomeCurrent
<1>4. i # k
  BY <1>3 DEF Current
<1> DEFINE n == IF i < k THEN i ELSE i - 1
<1>5. n \in 1 .. Len(es) - 1 /\ fs[n] = es[i]
  BY <1>1, <1>2, <1>4
<1>6. ASSUME NEW j \in 1 .. Len(es) - 1, j > n, Of(fs[j], p) PROVE fs[j].snap = snap[p]
  <2>1. CASE j < k
    <3>1. fs[j] = es[j] /\ j > i
      BY <2>1, <1>1, <1>4, <1>6
    <3> QED BY <3>1, <1>3, <1>2, <1>6
  <2>2. CASE ~(j < k)
    <3>1. fs[j] = es[j + 1] /\ j + 1 > i /\ j + 1 \in DOMAIN es
      BY <2>2, <1>1, <1>2, <1>4, <1>6
    <3> QED BY <3>1, <1>3, <1>6
  <2> QED BY <2>1, <2>2
<1> HIDE DEF n
<1>7. n \in DOMAIN fs /\ Current(fs[n], p) /\ \A j \in DOMAIN fs : j > n /\ Of(fs[j], p) => fs[j].snap = snap[p]
  BY <1>2, <1>3, <1>5, <1>6
<1> QED BY <1>7 DEF SomeCurrent, fs

LEMMA CurrentTail ==
    ASSUME NEW es \in Seq(Events), es # <<>>, NEW p
    PROVE  /\ AllCurrent(es, p) => AllCurrent(<<Head(es)>>, p) /\ AllCurrent(Tail(es), p)
           /\ SomeCurrent(es, p) => SomeCurrent(Tail(es), p) \/ (Current(Head(es), p) /\ AllCurrent(Tail(es), p))
<1> DEFINE fs == Tail(es)
<1>1. fs \in Seq(Events) /\ Len(fs) = Len(es) - 1 /\ Head(es) = es[1] /\ (\A i \in 1 .. Len(es) - 1 : fs[i] = es[i + 1]) /\ Len(es) \in Nat \ {0}
  OBVIOUS
<1> HIDE DEF fs
<1>2. DOMAIN fs = 1 .. Len(es) - 1 /\ DOMAIN es = 1 .. Len(es)
  BY <1>1
<1>3. ASSUME AllCurrent(es, p) PROVE AllCurrent(<<Head(es)>>, p) /\ AllCurrent(fs, p)
  <2>1. 1 \in DOMAIN es /\ Head(es) = es[1] /\ \A i \in DOMAIN fs : i + 1 \in DOMAIN es /\ fs[i] = es[i + 1]
    BY <1>1, <1>2
  <2>2. AllCurrent(fs, p)
    BY <2>1, <1>3 DEF AllCurrent
  <2> DEFINE hd == <<Head(es)>>
  <2>3. DOMAIN hd = {1} /\ hd[1] = es[1]
    BY <2>1
  <2> HIDE DEF hd
  <2>4. AllCurrent(hd, p)
    BY <2>1, <2>3, <1>3 DEF AllCurrent
  <2> QED BY <2>2, <2>4 DEF hd
<1>4. ASSUME SomeCurrent(es, p) PROVE SomeCurrent(fs, p) \/ (Current(Head(es), p) /\ AllCurrent(fs, p))
  <2>1. PICK i \in 1 .. Len(es) : Current(es[i], p) /\ \A j \in DOMAIN es : j > i /\ Of(es[j], p) => es[j].snap = snap[p]
    BY <1>2, <1>4 DEF SomeCurrent
  <2>2. \A j \in 1 .. Len(es) - 1 : j + 1 > i /\ Of(fs[j], p) => fs[j].snap = snap[p]
    <3>1. \A j \in 1 .. Len(es) - 1 : j + 1 \in DOMAIN es /\ fs[j] = es[j + 1]
      BY <1>1, <1>2
    <3> QED BY <2>1, <3>1
  <2>3. CASE i = 1
    <3>1. \A j \in 1 .. Len(es) - 1 : j + 1 > i
      BY <2>3
    <3> QED BY <3>1, <2>1, <2>2, <2>3, <1>1, <1>2 DEF AllCurrent
  <2>4. CASE i # 1
    <3>1. i - 1 \in DOMAIN fs /\ fs[i - 1] = es[i]
      BY <2>4, <1>1, <1>2
    <3>2. \A j \in DOMAIN fs : j > i - 1 => j + 1 > i
      BY <1>2
    <3>3. \A j \in DOMAIN fs : j > i - 1 /\ Of(fs[j], p) => fs[j].snap = snap[p]
      BY <3>2, <2>2, <1>2
    <3> QED BY <3>1, <3>3, <2>1 DEF SomeCurrent
  <2> QED BY <2>3, <2>4
<1> QED BY <1>3, <1>4 DEF fs

LEMMA AllOldAppend ==
    ASSUME NEW es \in Seq(Events), NEW e PROVE AllOld(Append(es, e)) <=> AllOld(es) /\ Old(e)
<1> DEFINE fs == Append(es, e)
<1>1. fs \in Seq(Events \cup {e}) /\ Len(fs) = Len(es) + 1 /\ fs[Len(es) + 1] = e /\ \A i \in 1 .. Len(es) : fs[i] = es[i]
  OBVIOUS
<1> HIDE DEF fs
<1>2. DOMAIN fs = 1 .. Len(es) + 1 /\ DOMAIN es = 1 .. Len(es) /\ Len(es) \in Nat
  BY <1>1
<1>3. AllOld(fs) <=> AllOld(es) /\ Old(e)
  BY <1>1, <1>2 DEF AllOld
<1> QED BY <1>3 DEF fs

LEMMA AllOldTail ==
    ASSUME NEW es \in Seq(Events), es # <<>>, AllOld(es) PROVE Old(Head(es)) /\ AllOld(Tail(es))
<1> DEFINE fs == Tail(es)
<1>1. fs \in Seq(Events) /\ Len(fs) = Len(es) - 1 /\ Head(es) = es[1] /\ (\A i \in 1 .. Len(es) - 1 : fs[i] = es[i + 1]) /\ Len(es) \in Nat \ {0}
  OBVIOUS
<1> HIDE DEF fs
<1>2. DOMAIN fs = 1 .. Len(es) - 1 /\ DOMAIN es = 1 .. Len(es)
  BY <1>1
<1>3. Old(Head(es)) /\ AllOld(fs)
  <2>1. 1 \in DOMAIN es /\ Head(es) = es[1] /\ \A i \in DOMAIN fs : i + 1 \in DOMAIN es /\ fs[i] = es[i + 1]
    BY <1>1, <1>2
  <2>2. \A i \in DOMAIN es : Old(es[i])
    BY DEF AllOld
  <2> HIDE DEF Old, AllOld
  <2> QED BY <2>1, <2>2 DEF AllOld
<1> QED BY <1>3 DEF fs

LEMMA AllOldRemoved ==
    ASSUME NEW es \in Seq(Events), NEW i \in 1 .. Len(es), AllOld(es) PROVE AllOld(RemoveAt(es, i))
<1> DEFINE fs == RemoveAt(es, i)
<1>1. fs \in Seq(Events) /\ Len(fs) = Len(es) - 1 /\ \A j \in 1 .. Len(es) - 1 : fs[j] = IF j < i THEN es[j] ELSE es[j + 1]
  BY RemovedAt
<1> HIDE DEF fs
<1>2. AllOld(fs)
  <2>1. ASSUME NEW j \in 1 .. Len(es) - 1 PROVE Old(fs[j])
    <3>1. j \in DOMAIN es /\ j + 1 \in DOMAIN es
      OBVIOUS
    <3> QED BY <3>1, <1>1 DEF AllOld
  <2> QED BY <2>1, <1>1 DEF AllOld
<1> QED BY <1>2 DEF fs

-----------------------------------------------------------------------------
(* What a subscriber is given. *)

\* One state makes room, or none does.
LEMMA WithoutIs ==
    ASSUME NEW es \in Seq(Events), NEW keys
    PROVE  \/ Without(es, keys) = es
           \/ \E i \in 1 .. Len(es) : es[i].kind \in States /\ Key(es[i]) \in keys /\ Without(es, keys) = RemoveAt(es, i)
<1> DEFINE found == {i \in DOMAIN es : es[i].kind \in States /\ Key(es[i]) \in keys}
<1>1. CASE found = {}
  BY <1>1 DEF Without
<1>2. CASE found # {}
  <2>1. Without(es, keys) = RemoveAt(es, Min(found))
    BY <1>2 DEF Without
  <2>2. found \in SUBSET Nat /\ found \subseteq 1 .. Len(es)
    OBVIOUS
  <2>3. Min(found) \in found
    <3> HIDE DEF found
    <3> QED BY <1>2, <2>2, MinIsLeast
  <2> QED BY <2>1, <2>2, <2>3
<1> QED BY <1>1, <1>2

LEMMA CountIsNat ==
    ASSUME NEW es \in Seq(Events), NEW kinds PROVE Count(es, kinds) \in Nat
<1> DEFINE C == {i \in DOMAIN es : es[i].kind \in kinds}
<1>1. IsFiniteSet(1 .. Len(es)) /\ C \subseteq 1 .. Len(es)
  BY FS_Interval
<1> HIDE DEF C
<1>2. IsFiniteSet(C)
  BY <1>1, FS_Subset
<1> QED BY <1>2, FS_CardinalityType DEF Count, C

\* What enqueue does with a subscriber b, given e.
Given(b, e, c) ==
    /\ c \in Subscribers /\ c.at = b.at /\ c.cancelled = b.cancelled
    /\ \A p \in Plugin : Weight(c.pending, p) + c.dropped[p] = Weight(b.pending, p) + b.dropped[p] + Unit(e, p)
    /\ Quiet(c.pending) => Quiet(b.pending) /\ ~News(e)
    /\ AllOld(b.pending) /\ Old(e) => AllOld(c.pending)
    /\ \A p \in Plugin : Current(e, p) => SomeCurrent(c.pending, p)
    /\ \A p \in Plugin \ PushedOut(b, e) : SomeCurrent(b.pending, p) /\ (Of(e, p) => e.snap = snap[p]) => SomeCurrent(c.pending, p)

Event_(e) == e \in Events /\ e.kind # "none" /\ e.plugin \in Plugin

LEMMA KeysOf ==
    ASSUME NEW e, e.kind \in States, NEW x, x.kind \in States, Key(x) = Key(e) PROVE x.plugin = e.plugin
BY DEF Key

LEMMA StateGiven ==
    ASSUME NEW b \in Subscribers, NEW e, Event_(e), e.kind \in States
    PROVE  Given(b, e, EnqueueState(b, e))
<1> DEFINE c == EnqueueState(b, e)
           es == b.pending
           rest == Without(es, Gone(b, e))
<1>1. es \in Seq(Events) /\ b.order \in Seq(Plugin \X States) /\ b.dropped \in [Plugin -> Nat] /\ Capacity \in Nat \ {0}
  BY CapacityAssumption DEF Subscribers
<1>0. e \in Events /\ e.plugin \in Plugin /\ e.kind \in Kinds /\ Key(e) \in Plugin \X States
  BY DEF Event_, Events, Key
<1>2. rest = es \/ \E i \in 1 .. Len(es) : es[i].kind \in States /\ Key(es[i]) \in Gone(b, e) /\ rest = RemoveAt(es, i)
  BY <1>1, WithoutIs
<1>3. c.pending = Append(rest, e) /\ c.at = b.at /\ c.cancelled = b.cancelled /\ c.dropped = b.dropped
      /\ c = [b EXCEPT !.pending = c.pending, !.order = c.order]
      /\ c.order = IF Queued(b, e) THEN b.order ELSE Append(IF Full(b, e) THEN Tail(b.order) ELSE b.order, Key(e))
  BY DEF EnqueueState, Subscribers
<1> HIDE DEF rest, c
<1>4. rest \in Seq(Events)
  BY <1>1, <1>2, RemovedAt
<1>5. c.order \in Seq(Plugin \X States)
  <2>1. CASE Queued(b, e) BY <2>1, <1>1, <1>3
  <2>2. CASE ~Queued(b, e) /\ Full(b, e)
    <3>1. b.order # <<>>
      BY <2>2, <1>1 DEF Full
    <3>2. Tail(b.order) \in Seq(Plugin \X States)
      BY <3>1, <1>1
    <3> HIDE DEF es
    <3> QED BY <3>2, <2>2, <1>0, <1>3
  <2>3. CASE ~Queued(b, e) /\ ~Full(b, e) BY <2>3, <1>0, <1>1, <1>3
  <2> QED BY <2>1, <2>2, <2>3
<1>6. c \in Subscribers /\ c.pending \in Seq(Events)
  <2>1. c.pending \in Seq(Events)
    BY <1>0, <1>3, <1>4
  <2> QED BY <2>1, <1>3, <1>5 DEF Subscribers
<1>7. ASSUME NEW p \in Plugin PROVE Weight(c.pending, p) + c.dropped[p] = Weight(es, p) + b.dropped[p] + Unit(e, p)
  <2>1. Weight(rest, p) = Weight(es, p)
    BY <1>1, <1>2, WeightRemoved DEF States
  <2>2. Weight(c.pending, p) = Weight(rest, p) + Unit(e, p) /\ Unit(e, p) \in Nat
    BY <1>0, <1>3, <1>4, WeightAppend
  <2>3. Weight(es, p) \in Nat /\ b.dropped[p] \in Nat
    BY <1>1, EntriesFinite
  <2> HIDE DEF es
  <2> QED BY <2>1, <2>2, <2>3, <1>3
<1>8. ~Quiet(c.pending)
  <2>1. News(e)
    BY DEF News, States
  <2> QED BY <2>1, <1>3, <1>4, QuietAppend
<1>9. ASSUME AllOld(es), Old(e) PROVE AllOld(c.pending)
  <2>1. AllOld(rest)
    BY <1>1, <1>2, <1>9, AllOldRemoved
  <2> QED BY <2>1, <1>3, <1>4, <1>9, AllOldAppend
<1>10. ASSUME NEW p \in Plugin, Current(e, p) PROVE SomeCurrent(c.pending, p)
  <2>1. Of(e, p) => e.snap = snap[p]
    BY <1>10 DEF Current
  <2> QED BY <2>1, <1>3, <1>4, <1>10, SomeCurrentAppend
<1>11. ASSUME NEW p \in Plugin \ PushedOut(b, e), SomeCurrent(es, p), Of(e, p) => e.snap = snap[p]
       PROVE  SomeCurrent(c.pending, p)
  <2>1. CASE e.plugin = p
    <3>1. Current(e, p)
      BY <2>1, <1>11 DEF Current, Of
    <3> QED BY <3>1, <1>10
  <2>2. CASE e.plugin # p
    <3>1. ASSUME NEW x, Of(x, p), Key(x) \in Gone(b, e) PROVE FALSE
      <4>1. Key(x) = <<p, x.kind>> /\ Key(e) = <<e.plugin, e.kind>>
        BY <3>1 DEF Key, Of
      <4>2. Full(b, e) /\ Key(x) = Head(b.order)
        BY <4>1, <3>1, <2>2 DEF Gone
      <4>3. PushedOut(b, e) = {p}
        BY <4>1, <4>2, <2>2 DEF PushedOut
      <4> QED BY <4>3
    <3>2. SomeCurrent(rest, p)
      <4>1. CASE rest = es BY <4>1, <1>11
      <4>2. CASE \E i \in 1 .. Len(es) : es[i].kind \in States /\ Key(es[i]) \in Gone(b, e) /\ rest = RemoveAt(es, i)
        <5>1. PICK i \in 1 .. Len(es) : es[i].kind \in States /\ Key(es[i]) \in Gone(b, e) /\ rest = RemoveAt(es, i)
          BY <4>2
        <5>2. ~Of(es[i], p)
          BY <5>1, <3>1
        <5> QED BY <5>1, <5>2, <1>1, <1>11, SomeCurrentRemoved
      <4> QED BY <4>1, <4>2, <1>2
    <3> QED BY <3>2, <1>3, <1>4, <1>11, SomeCurrentAppend
  <2> QED BY <2>1, <2>2
<1> QED BY <1>3, <1>6, <1>7, <1>8, <1>9, <1>10, <1>11 DEF Given, c

LEMMA LogGiven ==
    ASSUME NEW b \in Subscribers, NEW e, Event_(e), e.kind = "log"
    PROVE  Given(b, e, EnqueueLog(b, e))
<1> DEFINE c == EnqueueLog(b, e)
           es == b.pending
           q == e.plugin
<1>1. es \in Seq(Events) /\ b.dropped \in [Plugin -> Nat] /\ Capacity \in Nat \ {0} /\ Count(es, {"log"}) \in Nat
  BY CapacityAssumption, CountIsNat DEF Subscribers
<1>0. e \in Events /\ e.dropped \in Nat /\ q \in Plugin /\ ~News(e) /\ \A p : ~Of(e, p) /\ ~Current(e, p)
  BY DEF Event_, Events, News, Of, Current, States
<1>2. \A p \in Plugin : Unit(e, p) = IF p = q THEN 1 + e.dropped ELSE 0
  BY DEF Unit
<1>3. CASE Count(es, {"log"}) >= Capacity
  <2>1. c = [b EXCEPT !.dropped[q] = @ + e.dropped + 1]
    BY <1>3 DEF EnqueueLog
  <2> HIDE DEF c
  <2>2. c \in Subscribers /\ c.at = b.at /\ c.cancelled = b.cancelled /\ c.pending = es
        /\ \A p \in Plugin : c.dropped[p] = IF p = q THEN b.dropped[p] + e.dropped + 1 ELSE b.dropped[p]
    <3>1. [b.dropped EXCEPT ![q] = @ + e.dropped + 1] \in [Plugin -> Nat]
      BY <1>0, <1>1
    <3>2. c = [b EXCEPT !.dropped = [b.dropped EXCEPT ![q] = @ + e.dropped + 1]]
      BY <2>1
    <3>3. c \in Subscribers /\ c.at = b.at /\ c.cancelled = b.cancelled /\ c.pending = es /\ c.dropped = [b.dropped EXCEPT ![q] = @ + e.dropped + 1]
      BY <3>1, <3>2 DEF Subscribers
    <3> HIDE DEF es
    <3> QED BY <3>3, <1>0, <1>1
  <2>3. ASSUME NEW p \in Plugin PROVE Weight(c.pending, p) + c.dropped[p] = Weight(es, p) + b.dropped[p] + Unit(e, p)
    <3>1. Weight(es, p) \in Nat /\ b.dropped[p] \in Nat
      BY <1>1, EntriesFinite
    <3> QED BY <3>1, <2>2, <1>2, <1>0
  <2> QED BY <2>2, <2>3, <1>0 DEF Given, c
<1>4. CASE ~(Count(es, {"log"}) >= Capacity)
  <2> DEFINE f == [e EXCEPT !.dropped = @ + b.dropped[q]]
  <2>1. c = [b EXCEPT !.pending = Append(@, f), !.dropped[q] = 0]
    BY <1>4 DEF EnqueueLog
  <2>2. f \in Events /\ f.kind = e.kind /\ f.plugin = q /\ f.snap = e.snap /\ f.dropped = e.dropped + b.dropped[q]
    <3>1. b.dropped[q] \in Nat
      BY <1>0, <1>1
    <3> QED BY <3>1, <1>0 DEF Events
  <2> HIDE DEF c, f
  <2>3. Append(es, f) \in Seq(Events)
    BY <2>2, <1>1
  <2>4. c \in Subscribers /\ c.at = b.at /\ c.cancelled = b.cancelled /\ c.pending = Append(es, f)
        /\ \A p \in Plugin : c.dropped[p] = IF p = q THEN 0 ELSE b.dropped[p]
    BY <2>1, <2>3, <1>0, <1>1 DEF Subscribers
  <2>5. ASSUME NEW p \in Plugin PROVE Weight(c.pending, p) + c.dropped[p] = Weight(es, p) + b.dropped[p] + Unit(e, p)
    <3>1. Weight(es, p) \in Nat /\ b.dropped[p] \in Nat
      BY <1>1, EntriesFinite
    <3>2. Weight(c.pending, p) = Weight(es, p) + Unit(f, p)
      BY <2>4, <2>2, <1>1, WeightAppend
    <3>3. Unit(f, p) = IF p = q THEN 1 + e.dropped + b.dropped[q] ELSE 0
      <4>1. Unit(f, p) = IF p = q THEN 1 + (e.dropped + b.dropped[q]) ELSE 0
        BY <2>2 DEF Unit
      <4>2. b.dropped[q] \in Nat
        BY <1>0, <1>1
      <4> QED BY <4>1, <4>2, <1>0
    <3>4. b.dropped[q] \in Nat
      BY <1>0, <1>1
    <3> HIDE DEF es, q
    <3>5. CASE p = q
      <4>1. c.dropped[p] = 0 /\ Unit(e, p) = 1 + e.dropped /\ Unit(f, p) = 1 + e.dropped + b.dropped[p]
        BY <3>5, <3>3, <2>4, <1>2
      <4> QED BY <4>1, <3>1, <3>2, <1>0
    <3>6. CASE p # q
      <4>1. c.dropped[p] = b.dropped[p] /\ Unit(e, p) = 0 /\ Unit(f, p) = 0
        BY <3>6, <3>3, <2>4, <1>2
      <4> QED BY <4>1, <3>1, <3>2, <1>0
    <3> QED BY <3>5, <3>6
  <2>6. ~News(f) /\ (Old(e) => Old(f)) /\ \A p : ~Of(f, p)
    BY <2>2 DEF News, Old, Of, States
  <2>7. Quiet(c.pending) => Quiet(es)
    BY <2>4, <1>1, QuietAppend
  <2>8. AllOld(es) /\ Old(e) => AllOld(c.pending)
    BY <2>4, <2>6, <1>1, AllOldAppend
  <2>9. ASSUME NEW p \in Plugin, SomeCurrent(es, p) PROVE SomeCurrent(c.pending, p)
    BY <2>4, <2>6, <2>9, <1>1, SomeCurrentAppend
  <2> QED BY <2>4, <2>5, <2>7, <2>8, <2>9, <1>0 DEF Given, c
<1> QED BY <1>3, <1>4

LEMMA NoticeGiven ==
    ASSUME NEW b \in Subscribers, NEW e, Event_(e), e.kind = "discovered"
    PROVE  Given(b, e, IF Count(b.pending, Notices) < Capacity THEN [b EXCEPT !.pending = Append(@, e)] ELSE b)
<1> DEFINE es == b.pending
           c == IF Count(es, Notices) < Capacity THEN [b EXCEPT !.pending = Append(@, e)] ELSE b
<1>1. es \in Seq(Events) /\ b.dropped \in [Plugin -> Nat] /\ Capacity \in Nat \ {0} /\ Count(es, Notices) \in Nat
  BY CapacityAssumption, CountIsNat DEF Subscribers
<1>0. e \in Events /\ News(e) /\ \A p : ~Of(e, p) /\ ~Current(e, p) /\ Unit(e, p) = 0
  BY DEF Event_, Events, News, Of, Current, States, Unit
<1>2. CASE Count(es, Notices) < Capacity
  <2>1. c = [b EXCEPT !.pending = Append(@, e)]
    BY <1>2
  <2> HIDE DEF c
  <2>3. Append(es, e) \in Seq(Events)
    BY <1>0, <1>1
  <2>4. c \in Subscribers /\ c.at = b.at /\ c.cancelled = b.cancelled /\ c.pending = Append(es, e) /\ c.dropped = b.dropped
    BY <2>1, <2>3, <1>1 DEF Subscribers
  <2>5. ASSUME NEW p \in Plugin PROVE Weight(c.pending, p) + c.dropped[p] = Weight(es, p) + b.dropped[p] + Unit(e, p)
    <3>1. Weight(es, p) \in Nat /\ b.dropped[p] \in Nat
      BY <1>1, EntriesFinite
    <3>2. Weight(c.pending, p) = Weight(es, p) + Unit(e, p)
      BY <2>4, <1>0, <1>1, WeightAppend
    <3> QED BY <3>1, <3>2, <2>4, <1>0
  <2>7. ~Quiet(c.pending)
    BY <2>4, <1>0, <1>1, QuietAppend
  <2>8. AllOld(es) /\ Old(e) => AllOld(c.pending)
    BY <2>4, <1>1, AllOldAppend
  <2>9. ASSUME NEW p \in Plugin, SomeCurrent(es, p) PROVE SomeCurrent(c.pending, p)
    BY <2>4, <2>9, <1>0, <1>1, SomeCurrentAppend
  <2> QED BY <2>4, <2>5, <2>7, <2>8, <2>9, <1>0 DEF Given, c
<1>3. CASE ~(Count(es, Notices) < Capacity)
  <2>1. c = b
    BY <1>3
  <2>2. ~Quiet(es)
    <3>1. Count(es, Notices) # 0
      BY <1>1, <1>3
    <3>2. {i \in DOMAIN es : es[i].kind \in Notices} # {}
      BY <3>1, FS_EmptySet DEF Count
    <3> QED BY <3>2 DEF Quiet, News, Notices
  <2>3. ASSUME NEW p \in Plugin PROVE Weight(es, p) \in Nat /\ b.dropped[p] \in Nat
    <3> HIDE DEF es
    <3> QED BY <1>1, EntriesFinite
  <2>4. ASSUME NEW p \in Plugin PROVE Weight(es, p) + b.dropped[p] = Weight(es, p) + b.dropped[p] + Unit(e, p)
    <3> HIDE DEF es
    <3> QED BY <2>3, <1>0
  <2> QED BY <2>1, <2>2, <2>4, <1>0 DEF Given
<1> QED BY <1>2, <1>3

LEMMA EnqueueGiven ==
    ASSUME NEW b \in Subscribers, NEW e, Event_(e) PROVE Given(b, e, Enqueue(b, e))
<1>1. CASE e.kind \in States
  BY <1>1, StateGiven DEF Enqueue
<1>2. CASE e.kind = "log"
  BY <1>2, LogGiven DEF Enqueue, States
<1>3. CASE e.kind = "discovered"
  BY <1>3, NoticeGiven DEF Enqueue, States
<1>4. e.kind \in States \cup {"log", "discovered"}
  BY DEF Event_, Events, Kinds, States
<1> QED BY <1>1, <1>2, <1>3, <1>4

-----------------------------------------------------------------------------
(* Types. *)

LEMMA RemovedFirst ==
    ASSUME NEW S, NEW s \in Seq(S), NEW x PROVE RemoveFirst(s, x) \in Seq(S)
<1> DEFINE I == {i \in 1 .. Len(s) : s[i] = x}
<1>1. CASE I = {}
  <2>1. ~ \E i \in 1 .. Len(s) : s[i] = x
    BY <1>1
  <2> QED BY <2>1 DEF RemoveFirst
<1>2. CASE I # {}
  <2>1. Min(I) \in 1 .. Len(s)
    <3>1. I \in SUBSET Nat /\ I \subseteq 1 .. Len(s)
      OBVIOUS
    <3> HIDE DEF I
    <3> QED BY <3>1, <1>2, MinIsLeast
  <2>2. RemoveFirst(s, x) = RemoveAt(s, Min(I))
    BY <1>2 DEF RemoveFirst, SelectInSeq
  <2> QED BY <2>1, <2>2, RemovedAt
<1> QED BY <1>1, <1>2

LEMMA Constants_ ==
    /\ Idle \in Events /\ Zero \in Snapshots /\ Idle.kind = "none" /\ Zero.session = 0 /\ Zero.up = FALSE
    /\ NoSub \in Subscribers /\ NoSub.pending = <<>> /\ NoSub.order = <<>> /\ NoSub.dropped = [p \in Plugin |-> 0]
<1>1. Idle \in Events /\ Zero \in Snapshots
  BY DEF Idle, Zero, Events, Snapshots, Kinds
<1>2. NoSub \in Subscribers
  BY DEF NoSub, Subscribers
<1> QED BY <1>1, <1>2 DEF NoSub, Idle, Zero

LEMMA Announcing ==
    ASSUME Types, NEW e \in Events
    PROVE  /\ Published(e) \in Hubs
           /\ Published(e).at = hub.at /\ Published(e).done = hub.done
           /\ Room => Published(e).queue = Append(hub.queue, e)
           /\ ~Room => Published(e).queue = hub.queue
           /\ e.plugin \in Plugin => Refusal(e) \in Ghosts
           /\ Refusal(e).first = ghost.first /\ Refusal(e).owed = ghost.owed /\ Refusal(e).logs = ghost.logs /\ Refusal(e).who = ghost.who
<1>1. hub \in Hubs
  BY DEF Types
<1>2. Append(hub.queue, e) \in Seq(Events)
  BY <1>1 DEF Hubs
<1>3. ghost \in Ghosts
  BY DEF Types
<1>4. Published(e) \in Hubs
      /\ Published(e).at = hub.at /\ Published(e).done = hub.done
      /\ (Room => Published(e).queue = Append(hub.queue, e)) /\ (~Room => Published(e).queue = hub.queue)
  BY <1>1, <1>2 DEF Published, Hubs
<1>5. Refusal(e).first = ghost.first /\ Refusal(e).owed = ghost.owed /\ Refusal(e).logs = ghost.logs /\ Refusal(e).who = ghost.who
  BY <1>3 DEF Refusal, Ghosts
<1>6. e.plugin \in Plugin => Refusal(e) \in Ghosts
  BY <1>3 DEF Refusal, Ghosts
<1> QED BY <1>4, <1>5, <1>6

\* Bounded ones have a greatest: the least bound.
LEMMA MaxIsGreatest ==
    ASSUME NEW S \in SUBSET Nat, S # {}, NEW n \in Nat, \A y \in S : y <= n
    PROVE  Max(S) \in S /\ \A y \in S : y <= Max(S)
<1> DEFINE Bounds == {m \in Nat : \A y \in S : y <= m}
           m == Min(Bounds)
<1>1. m \in Bounds /\ \A k \in Bounds : m <= k
  <2>1. Bounds \in SUBSET Nat /\ Bounds # {}
    OBVIOUS
  <2> HIDE DEF Bounds
  <2> QED BY <2>1, MinIsLeast
<1>2. m \in Nat /\ \A y \in S : y <= m
  BY <1>1
<1>3. m \in S
  <2>1. SUFFICES ASSUME m \notin S PROVE FALSE
    OBVIOUS
  <2>2. \A y \in S : y < m
    BY <1>2, <2>1
  <2>3. m - 1 \in Nat /\ \A y \in S : y <= m - 1
    <3>1. PICK y \in S : TRUE
      OBVIOUS
    <3> HIDE DEF m
    <3> QED BY <3>1, <2>2, <1>2
  <2>4. m - 1 \in Bounds
    BY <2>3
  <2> HIDE DEF m, Bounds
  <2> QED BY <2>4, <1>1, <1>2
<1> HIDE DEF m
<1>4. \A y \in S : m >= y
  BY <1>2
<1> QED BY <1>3, <1>4 DEF Max

\* A finite set of naturals has a bound.
LEMMA FiniteIsBounded ==
    ASSUME NEW S \in SUBSET Nat, IsFiniteSet(S) PROVE \E n \in Nat : \A y \in S : y <= n
<1> DEFINE Bounded(X) == \E n \in Nat : \A y \in X : y <= n
           T == {X \in SUBSET S : ~Bounded(X)}
           R == StrictSubsetOrdering(S)
<1>1. SUFFICES ASSUME S \in T PROVE FALSE
  OBVIOUS
<1>2. IsWellFoundedOn(R, SUBSET S)
  BY FS_StrictSubsetOrderingWellFounded, FS_FiniteSubsetsOfFinite, Zenon
<1>3. T \subseteq SUBSET S
  OBVIOUS
<1>4. PICK X \in T : \A Y \in T : <<Y, X>> \notin R
  <2> HIDE DEF T, R
  <2> QED BY <1>1, <1>2, <1>3, WFMin, Zenon
<1>5. X # {}
  <2>1. Bounded({})
    OBVIOUS
  <2> QED BY <1>4, <2>1
<1>6. PICK x \in X : TRUE
  BY <1>5
<1>7. X \ {x} \in SUBSET S /\ X \in SUBSET S /\ x \in Nat /\ S \subseteq Nat
  BY <1>4, <1>6
<1>8. <<X \ {x}, X>> \in R
  <2> HIDE DEF T, Bounded
  <2> QED BY <1>6, <1>7 DEF StrictSubsetOrdering
<1>9. Bounded(X \ {x})
  <2>1. X \ {x} \notin T
    BY <1>4, <1>8
  <2> HIDE DEF Bounded
  <2> QED BY <1>7, <2>1
<1>10. PICK n \in Nat : \A y \in X \ {x} : y <= n
  BY <1>9
<1>11. \E m \in Nat : n <= m /\ x <= m
  BY <1>7
<1>12. Bounded(X)
  <2>1. PICK m \in Nat : n <= m /\ x <= m
    BY <1>11
  <2>2. \A y \in X : y <= m
    BY <1>7, <1>10, <2>1
  <2> QED BY <2>2
<1> QED BY <1>4, <1>12

\* A session ID was not handed out before.
LEMMA NextSessionIsNew ==
    ASSUME Types, NEW q \in Plugin PROVE NextSession \in Nat /\ \A p \in Plugin : snap[p].session < NextSession
<1> DEFINE f == [p \in Plugin |-> snap[p].session]
           S == {snap[p].session : p \in Plugin}
<1>1. S \in SUBSET Nat /\ S # {}
  BY DEF Types, Snapshots
<1>2. IsFiniteSet(S)
  <2>1. f \in [Plugin -> S] /\ \A y \in S : \E p \in Plugin : f[p] = y
    OBVIOUS
  <2> HIDE DEF f, S
  <2>2. f \in Surjection(Plugin, S)
    BY <2>1 DEF Surjection
  <2> QED BY <2>2, PluginAssumption, FS_Surjection
<1>3. Max(S) \in S /\ \A y \in S : y <= Max(S)
  <2> HIDE DEF S
  <2>1. PICK n \in Nat : \A y \in S : y <= n
    BY <1>1, <1>2, FiniteIsBounded
  <2> QED BY <2>1, <1>1, MaxIsGreatest
<1>4. NextSession = 1 + Max(S)
  BY DEF NextSession
<1>5. Max(S) \in Nat /\ \A p \in Plugin : snap[p].session \in S /\ snap[p].session \in Nat
  BY <1>1, <1>3
<1> HIDE DEF S
<1> QED BY <1>3, <1>4, <1>5

\* Updates of the records stay in their types.
LEMMA HubsClosed == ASSUME NEW h \in Hubs, NEW es \in Seq(Events), NEW n \in Nat 
  PROVE /\ [h EXCEPT !.queue = es, !.quota = n] \in Hubs /\ [h EXCEPT !.at = "stopped", !.queue = es, !.quota = n] \in Hubs
        /\ Run(h) \in Hubs /\ Round(h) \in Hubs /\ [Run(h) EXCEPT !.done = TRUE] \in Hubs
<1>1. [h EXCEPT !.queue = es, !.quota = n] \in Hubs /\ [h EXCEPT !.at = "stopped", !.queue = es, !.quota = n] \in Hubs
  BY DEF Hubs
<1>2. Run(h) \in Hubs BY DEF Hubs, Run
<1>3. Round(h) \in Hubs BY DEF Hubs, Round
<1>4. [Run(h) EXCEPT !.done = TRUE] \in Hubs BY <1>2 DEF Hubs
<1> QED BY <1>1, <1>2, <1>3, <1>4

LEMMA OwedClosed ==
    ASSUME NEW g \in Ghosts, NEW o \in [Sub -> [Plugin -> Int]]
    PROVE  /\ [g EXCEPT !.owed = o] \in Ghosts
           /\ \A l \in Nat : [g EXCEPT !.logs = l, !.owed = o] \in Ghosts
           /\ \A s \in Sub, f \in [Plugin -> Int] : [g EXCEPT !.owed[s] = f] \in Ghosts
BY DEF Ghosts

LEMMA DeliveredClosed ==
    ASSUME NEW g \in Ghosts, NEW s \in Sub, NEW t \in [Plugin -> Nat], NEW p \in Plugin, NEW n \in Int
    PROVE  [g EXCEPT !.owed[s][p] = @ - n, !.first = t] \in Ghosts
<1>0. g.owed[s][p] - n \in Int
  BY DEF Ghosts
<1> DEFINE r == [g.owed[s] EXCEPT ![p] = @ - n]
<1>1. r \in [Plugin -> Int]
  BY <1>0 DEF Ghosts
<1>2. [g EXCEPT !.owed[s][p] = @ - n, !.first = t] = [g EXCEPT !.owed[s] = r, !.first = t]
  OBVIOUS
<1> HIDE DEF r
<1>3. [g EXCEPT !.owed[s] = r, !.first = t] \in Ghosts
  BY <1>1 DEF Ghosts
<1> QED BY <1>2, <1>3

LEMMA SubscribersClosed ==
    ASSUME NEW b \in Subscribers, NEW a \in {"none", "asked", "on", "closed"}
    PROVE  [b EXCEPT !.at = a] \in Subscribers /\ [b EXCEPT !.cancelled = TRUE] \in Subscribers /\ [NoSub EXCEPT !.at = a] \in Subscribers
BY Constants_ DEF Subscribers

LEMMA NoEvents == <<>> \in Seq(Events)
OBVIOUS

LEMMA TypesStep ==
    ASSUME Types, Reports, Next PROVE Types'
<1> USE DEF Types
<1>0. Idle \in Events /\ Zero \in Snapshots /\ Idle.kind = "none" /\ NoSub \in Subscribers
  BY Constants_
<1>1. ASSUME NEW p \in Plugin, Change(p) PROVE Types'
  <2>1. NextSession \in Nat
    <3>1. Types
      OBVIOUS
    <3> HIDE DEF Types
    <3> QED BY <3>1, NextSessionIsNew
  <2> DEFINE next == IF snap[p].up THEN [snap[p] EXCEPT !.up = FALSE] ELSE [session |-> NextSession, up |-> TRUE]
  <2>2. next \in Snapshots
    <3>1. snap[p] \in Snapshots
      OBVIOUS
    <3> HIDE DEF Types
    <3>2. [snap[p] EXCEPT !.up = FALSE] \in Snapshots
      BY <3>1 DEF Snapshots
    <3> DEFINE n == NextSession
    <3> HIDE DEF n
    <3>3. n \in Nat
      BY <2>1 DEF n
    <3>4. [session |-> n, up |-> TRUE] \in Snapshots
      BY <3>3 DEF Snapshots
    <3> QED BY <3>2, <3>4 DEF n
  <2>3. Event("state", p, next, 0) \in Events
    BY <2>2 DEF Event, Events, Kinds
  <2>4. snap' = [snap EXCEPT ![p] = next] /\ loop' = [loop EXCEPT ![p] = Event("state", p, next, 0)]
    BY <1>1 DEF Change
  <2> HIDE DEF next
  <2>5. snap' \in [Plugin -> Snapshots] /\ loop' \in [Plugin -> Events]
    BY <2>2, <2>3, <2>4
  <2> QED BY <1>1, <2>5 DEF Change
<1>2. ASSUME NEW p \in Plugin, Observe(p) PROVE Types'
  <2>1. Event("status", p, IF life = "starting" THEN Zero ELSE snap[p], 0) \in Events
    BY <1>0 DEF Event, Events, Kinds
  <2> QED BY <1>2, <2>1 DEF Observe
<1>3. ASSUME NEW p \in Plugin, Log(p) PROVE Types'
  <2> DEFINE d == IF lost[p].session = snap[p].session THEN lost[p].count ELSE 0
             w == IF lost[p].session = snap[p].session THEN 0 ELSE lost[p].count
  <2>1. d \in Nat /\ w \in Nat /\ Event("log", p, Zero, d) \in Events
    BY <1>0 DEF Event, Events, Kinds
  <2>2. loop' = [loop EXCEPT ![p] = Event("log", p, Zero, d)]
        /\ lost' = [lost EXCEPT ![p] = [count |-> 0, session |-> snap[p].session]]
    BY <1>3 DEF Log
  <2>3. [s \in Sub |-> IF sub[s].at = "on" THEN [ghost.owed[s] EXCEPT ![p] = @ + 1 - w] ELSE ghost.owed[s]] \in [Sub -> [Plugin -> Int]]
    BY <2>1 DEF Ghosts
  <2> HIDE DEF d, w
  <2> DEFINE owed_ == [s \in Sub |-> IF sub[s].at = "on" THEN [ghost.owed[s] EXCEPT ![p] = @ + 1 - w] ELSE ghost.owed[s]]
  <2>4. ghost' \in Ghosts
    <3>0. ghost.logs + 1 \in Nat
      BY DEF Ghosts
    <3>1. ghost' = [ghost EXCEPT !.logs = ghost.logs + 1, !.owed = owed_]
      BY <1>3 DEF Log, w
    <3>2. owed_ \in [Sub -> [Plugin -> Int]]
      BY <2>3
    <3> HIDE DEF owed_
    <3> QED BY <3>0, <3>1, <3>2, OwedClosed
  <2>5. lost' \in [Plugin -> [count : Nat, session : Nat]]
    <3>1. [count |-> 0, session |-> snap[p].session] \in [count : Nat, session : Nat]
      BY DEF Snapshots
    <3> QED BY <3>1, <2>2
  <2>6. loop' \in [Plugin -> Events]
    BY <2>1, <2>2
  <2> QED BY <1>3, <2>4, <2>5, <2>6 DEF Log
<1>4. ASSUME NEW p \in Plugin, PublishIfStarted(p) PROVE Types'
  <2>1. loop[p] \in Events /\ loop[p].plugin = p /\ loop[p].dropped \in Nat
    BY <1>4 DEF PublishIfStarted, Reports, Events
  <2>2. hub' \in Hubs /\ ghost' \in Ghosts
    BY <1>4, <2>1, Announcing DEF PublishIfStarted
  <2>3. lost' \in [Plugin -> [count : Nat, session : Nat]]
    BY <1>4, <2>1 DEF PublishIfStarted
  <2> QED BY <1>0, <1>4, <2>2, <2>3 DEF PublishIfStarted
<1>5. ASSUME NEW p \in Plugin, ReadSnapshot(p) PROVE Types'
  <2>1. Event("discovered", p, snap[p], 0) \in Events
    BY DEF Event, Events, Kinds
  <2> QED BY <1>5, <2>1 DEF ReadSnapshot
<1>6. ASSUME NEW p \in Plugin, ReadList(p) PROVE Types'
  BY <1>0, <1>6 DEF ReadList
<1>7. ASSUME NEW p \in Plugin, NEW s \in Snapshots, Observed(p, s)
      PROVE  known' \in [Plugin -> Nat] /\ source' \in [Plugin -> Nat \cup {Late}] /\ FirstKnown(known') \in [Plugin -> Nat]
  <2>1. known' \in [Plugin -> Nat] /\ source' \in [Plugin -> Nat \cup {Late}]
    BY <1>7 DEF Observed, Snapshots
  <2> QED BY <2>1 DEF FirstKnown, Ghosts
<1>8. ASSUME NEW p \in Plugin, Reconcile(p) PROVE Types'
  <2>1. recon.got[p] \in Snapshots
    OBVIOUS
  <2>2. known' \in [Plugin -> Nat] /\ source' \in [Plugin -> Nat \cup {Late}] /\ FirstKnown(known') \in [Plugin -> Nat]
    BY <1>7, <1>8, <2>1 DEF Reconcile
  <2>3. ghost' \in Ghosts
    BY <1>8, <2>2 DEF Reconcile, Ghosts
  <2>4. recon' \in [at : {"none", "applying"}, left : SUBSET Plugin, got : [Plugin -> Snapshots]]
    BY <1>0, <1>8 DEF Reconcile
  <2> QED BY <1>8, <2>2, <2>3, <2>4 DEF Reconcile
<1>9. ASSUME NEW p \in Plugin, Submit(p) \/ SubmitLate(p) PROVE Types'
  BY <1>9 DEF Submit, SubmitLate, Snapshots
<1>10. ASSUME Started PROVE Types'
  BY <1>10 DEF Started, Run, Hubs
<1>11. ASSUME Announce PROVE Types'
  <2>1. starter.next \in Events /\ starter.next.plugin \in Plugin
    BY <1>11 DEF Announce, Reports, Old
  <2>2. hub' \in Hubs /\ ghost' \in Ghosts
    BY <1>11, <2>1, Announcing DEF Announce
  <2>3. [starter.next EXCEPT !.kind = "state"] \in Events
    BY <2>1 DEF Events, Kinds
  <2> QED BY <1>0, <1>11, <2>2, <2>3 DEF Announce
<1>12. ASSUME Close PROVE Types'
  BY <1>12 DEF Close
<1>13. ASSUME CloseEvents PROVE Types'
  BY <1>13 DEF CloseEvents, Run, Hubs
<1>14. ASSUME ReconcileReads PROVE Types'
  BY <1>14 DEF ReconcileReads
<1>15. ASSUME NEW s \in Sub, Subscribe(s) PROVE Types'
  <2> DEFINE a == IF hub.done THEN "closed" ELSE "asked"
  <2>1. sub' = [sub EXCEPT ![s] = [sub[s] EXCEPT !.at = a]] /\ hub' = Run(hub)
    BY <1>15 DEF Subscribe
  <2>2. [sub[s] EXCEPT !.at = a] \in Subscribers
    BY SubscribersClosed
  <2>3. Run(hub) \in Hubs
    BY NoEvents, HubsClosed
  <2> HIDE DEF a
  <2>4. sub' \in [Sub -> Subscribers]
    BY <2>1, <2>2
  <2> QED BY <1>15, <2>1, <2>3, <2>4 DEF Subscribe
<1>16. ASSUME NEW s \in Sub, Cancel(s) PROVE Types'
  <2>1. sub' = [sub EXCEPT ![s] = [sub[s] EXCEPT !.cancelled = TRUE]]
    BY <1>16 DEF Cancel
  <2>2. [sub[s] EXCEPT !.cancelled = TRUE] \in Subscribers
    BY SubscribersClosed
  <2>3. sub' \in [Sub -> Subscribers]
    BY <2>1, <2>2
  <2> QED BY <1>16, <2>3 DEF Cancel
<1>17. ASSUME NEW s \in Sub, Deliver(s) PROVE Types'
  <2> DEFINE b == sub[s]
             e == Head(b.pending)
             order_ == IF e.kind \in States THEN RemoveFirst(b.order, Key(e)) ELSE b.order
  <2>1. b \in Subscribers /\ b.pending # <<>>
    BY <1>17 DEF Deliver
  <2>2. e \in Events /\ e.plugin \in Plugin /\ e.snap \in Snapshots /\ e.dropped \in Nat /\ Tail(b.pending) \in Seq(Events)
    <3>1. b.pending \in Seq(Events) /\ AllOld(b.pending)
      BY <2>1 DEF Subscribers, Reports
    <3>2. e \in Events /\ Tail(b.pending) \in Seq(Events) /\ Old(e)
      BY <2>1, <3>1, AllOldTail
    <3> QED BY <3>2 DEF Old, Events
  <2>3. order_ \in Seq(Plugin \X States)
    BY <2>1, RemovedFirst DEF Subscribers
  <2>4. sub' = [sub EXCEPT ![s] = [b EXCEPT !.pending = Tail(b.pending), !.order = order_]]
    BY <1>17 DEF Deliver
  <2>5. hub' = Round(hub) /\ UNCHANGED <<life, starter, snap, loop, lost, recon>>
        /\ (list' = list \/ list' = [list EXCEPT !.reading = Plugin])
        /\ (UNCHANGED <<known, source>> \/ Observed(e.plugin, e.snap))
        /\ ghost' = [ghost EXCEPT !.owed[s][e.plugin] = @ - IF e.kind = "log" THEN 1 + e.dropped ELSE 0, !.first = FirstKnown(known')]
    BY <1>17 DEF Deliver
  <2> HIDE DEF b, e, order_
  <2>6. sub' \in [Sub -> Subscribers]
    BY <2>1, <2>2, <2>3, <2>4 DEF Subscribers
  <2>7. known' \in [Plugin -> Nat] /\ source' \in [Plugin -> Nat \cup {Late}] /\ FirstKnown(known') \in [Plugin -> Nat]
    <3>1. CASE UNCHANGED <<known, source>> BY <3>1 DEF FirstKnown, Ghosts
    <3>2. CASE Observed(e.plugin, e.snap) BY <3>2, <1>7, <2>2
    <3> QED BY <2>5, <3>1, <3>2
  <2>8. ghost' \in Ghosts
    <3> DEFINE n == IF e.kind = "log" THEN 1 + e.dropped ELSE 0
    <3>1. n \in Int
      BY <2>2
    <3> HIDE DEF n
    <3>2. [ghost EXCEPT !.owed[s][e.plugin] = @ - n, !.first = FirstKnown(known')] \in Ghosts
      BY <2>2, <2>7, <3>1, DeliveredClosed
    <3> QED BY <2>5, <3>2 DEF n
  <2>9. hub' \in Hubs
    BY <2>5, NoEvents, HubsClosed
  <2>10. list' \in [reading : SUBSET Plugin, got : [Plugin -> Snapshots], shown : [Plugin -> Snapshots]]
    BY <2>5
  <2> QED BY <2>5, <2>6, <2>7, <2>8, <2>9, <2>10
<1>18. ASSUME NEW quota \in Nat, Dispatch(quota) PROVE Types'
  <2> DEFINE e == Head(hub.queue)
  <2>1. hub.queue \in Seq(Events) /\ hub.queue # <<>> /\ AllOld(hub.queue)
    BY <1>18 DEF Dispatch, Reports, Hubs
  <2>2. Event_(e) /\ Tail(hub.queue) \in Seq(Events)
    <3>1. Old(e)
      BY <2>1, AllOldTail
    <3> QED BY <3>1, <2>1 DEF Event_, Old
  <2>3. hub' \in Hubs
    BY <1>18, <2>2 DEF Dispatch, Hubs
  <2>4. sub' \in [Sub -> Subscribers]
    <3>1. ASSUME NEW s \in Sub PROVE Enqueue(sub[s], e) \in Subscribers
      BY <2>2, EnqueueGiven DEF Given
    <3>2. sub' = [s \in Sub |-> IF sub[s].at = "on" THEN Enqueue(sub[s], e) ELSE sub[s]]
      BY <1>18 DEF Dispatch, Dispatched
    <3> HIDE DEF e
    <3> QED BY <3>1, <3>2
  <2>5. ghost' \in Ghosts
    <3>1. ASSUME NEW s \in Sub PROVE PushedOut(sub[s], e) \in SUBSET Plugin
      <4>1. CASE Full(sub[s], e)
        <5>1. sub[s].order \in Seq(Plugin \X States) /\ sub[s].order # <<>>
          BY <4>1, CapacityAssumption DEF Full, Subscribers
        <5>2. Head(sub[s].order) \in Plugin \X States
          BY <5>1
        <5> QED BY <5>2 DEF PushedOut
      <4>2. CASE ~Full(sub[s], e) BY <4>2 DEF PushedOut
      <4> QED BY <4>1, <4>2
    <3> DEFINE Out == UNION {PushedOut(sub[s], e) : s \in {s \in Sub : sub[s].at = "on"}}
    <3>2. Out \in SUBSET Plugin
      BY <3>1
    <3>3. ghost' = [ghost EXCEPT !.pushed = @ \cup Out]
      BY <1>18 DEF Dispatch
    <3> HIDE DEF Out
    <3> QED BY <3>2, <3>3 DEF Ghosts
  <2> QED BY <1>18, <2>3, <2>4, <2>5 DEF Dispatch
<1>19. ASSUME Drain \/ SelectPublish PROVE Types'
  <2>1. hub.quota - 1 \in Nat \/ ~Drain
    BY DEF Drain, Hubs
  <2>2. Len(hub.queue) - 1 \in Nat \/ ~SelectPublish
    <3>1. hub.queue \in Seq(Events)
      BY DEF Hubs
    <3>2. hub.queue # <<>> \/ ~SelectPublish
      BY DEF SelectPublish, Dispatch
    <3> QED BY <3>1, <3>2
  <2> QED BY <1>18, <1>19, <2>1, <2>2 DEF Drain, SelectPublish
<1>20. ASSUME HubStops PROVE Types'
  <2>1. hub' \in Hubs
    <3>1. hub' = [hub EXCEPT !.at = "stopped", !.queue = <<>>, !.quota = 0]
      BY <1>20 DEF HubStops
    <3> QED BY <3>1, NoEvents, HubsClosed
  <2>2. [NoSub EXCEPT !.at = "closed"] \in Subscribers
    BY SubscribersClosed, <1>0
  <2>3. ghost' \in Ghosts
    <3> DEFINE o == [s \in Sub |-> [p \in Plugin |-> 0]]
    <3>1. ghost' = [ghost EXCEPT !.owed = o] /\ o \in [Sub -> [Plugin -> Int]]
      BY <1>20 DEF HubStops
    <3> HIDE DEF o
    <3> QED BY <3>1, OwedClosed
  <2>4. sub' \in [Sub -> Subscribers]
    BY <1>20, <2>2 DEF HubStops
  <2> QED BY <1>20, <2>1, <2>4, <2>3 DEF HubStops
<1>21. ASSUME NEW s \in Sub, SelectSubscribe(s) PROVE Types'
  <2>1. \A p \in Plugin : OnTheWay(p) \in Nat
    <3>1. ASSUME NEW p \in Plugin PROVE OnTheWay(p) \in Nat
      <4>0. hub.queue \in Seq(Events) /\ <<loop[p]>> \in Seq(Events)
        BY DEF Hubs
      <4>1. Weight(hub.queue, p) \in Nat /\ Weight(<<loop[p]>>, p) \in Nat /\ lost[p].count \in Nat
        BY <4>0, EntriesFinite
      <4> QED BY <4>1 DEF OnTheWay
    <3> QED BY <3>1
  <2>2. ghost' \in Ghosts
    <3> DEFINE f == [p \in Plugin |-> OnTheWay(p)]
    <3>0. ghost.owed \in [Sub -> [Plugin -> Int]]
      BY DEF Ghosts
    <3>1. ghost' = [ghost EXCEPT !.owed[s] = f] /\ f \in [Plugin -> Int]
      BY <1>21, <2>1 DEF SelectSubscribe
    <3> HIDE DEF f
    <3> QED BY <3>0, <3>1, OwedClosed
  <2>3. hub' \in Hubs
    BY <1>21, NoEvents, HubsClosed DEF SelectSubscribe
  <2>4. sub' \in [Sub -> Subscribers]
    <3> DEFINE a == IF sub[s].cancelled THEN "closed" ELSE "on"
    <3>1. sub' = [sub EXCEPT ![s] = [sub[s] EXCEPT !.at = a]]
      BY <1>21 DEF SelectSubscribe
    <3>2. [sub[s] EXCEPT !.at = a] \in Subscribers
      BY SubscribersClosed
    <3> QED BY <3>1, <3>2
  <2> QED BY <1>21, <2>2, <2>3, <2>4 DEF SelectSubscribe
<1>22. ASSUME NEW s \in Sub, SelectRemove(s) PROVE Types'
  <2>1. [NoSub EXCEPT !.at = "closed"] \in Subscribers
    BY SubscribersClosed, <1>0
  <2>2. ghost' \in Ghosts
    <3> DEFINE f == [p \in Plugin |-> 0]
    <3>0. ghost.owed \in [Sub -> [Plugin -> Int]]
      BY DEF Ghosts
    <3>1. ghost' = [ghost EXCEPT !.owed[s] = f] /\ f \in [Plugin -> Int]
      BY <1>22 DEF SelectRemove
    <3> HIDE DEF f
    <3> QED BY <3>0, <3>1, OwedClosed
  <2>3. hub' \in Hubs
    BY <1>22, NoEvents, HubsClosed DEF SelectRemove
  <2> QED BY <1>22, <2>1, <2>2, <2>3 DEF SelectRemove
<1> QED BY <1>1, <1>2, <1>3, <1>4, <1>5, <1>6, <1>8, <1>9, <1>10, <1>11, <1>12, <1>13, <1>14, <1>15, <1>16, <1>17, <1>19, <1>20, <1>21, <1>22 DEF Next, HubStep

-----------------------------------------------------------------------------
(* What is on its way is from the past. *)

LoopOld(f) == \A p \in Plugin : f[p] = Idle \/ (Old(f[p]) /\ f[p].plugin = p /\ f[p].kind # "discovered")
NextOld(e) == e = Idle \/ (Old(e) /\ e.kind \in {"discovered", "state"})

LEMMA ReportsFrom ==
    ASSUME snap' = snap, LoopOld(loop'), NextOld(starter'.next), AllOld(hub'.queue), \A s \in Sub : AllOld(sub'[s].pending)
    PROVE  Reports'
BY DEF LoopOld, NextOld, Reports, AllOld, Old

\* Sessions never go back.
LEMMA ChangeIs ==
    ASSUME Types, NEW p \in Plugin, Change(p)
    PROVE  /\ loop[p] = Idle /\ life # "closing"
           /\ snap' \in [Plugin -> Snapshots] /\ loop' = [loop EXCEPT ![p] = Event("state", p, snap'[p], 0)]
           /\ \A q \in Plugin : q # p => snap'[q] = snap[q]
           /\ snap[p].up => snap'[p].session = snap[p].session /\ ~snap'[p].up
           /\ ~snap[p].up => snap[p].session < snap'[p].session
           /\ \A q \in Plugin : snap[q].session <= snap'[q].session /\ snap[q].session \in Nat /\ snap'[q].session \in Nat
           /\ UNCHANGED <<life, starter, lost, hub, sub, list, known, source, recon, ghost>>
<1>1. NextSession \in Nat /\ \A q \in Plugin : snap[q].session < NextSession
  BY NextSessionIsNew
<1> DEFINE next == IF snap[p].up THEN [snap[p] EXCEPT !.up = FALSE] ELSE [session |-> NextSession, up |-> TRUE]
<1>2. snap \in [Plugin -> Snapshots] /\ \A q \in Plugin : snap[q] \in Snapshots /\ snap[q].session \in Nat
  BY DEF Types, Snapshots
<1>3. next \in Snapshots
  BY <1>1, <1>2 DEF Snapshots
<1>4. snap' = [snap EXCEPT ![p] = next] /\ loop' = [loop EXCEPT ![p] = Event("state", p, next, 0)]
      /\ loop[p] = Idle /\ life # "closing" /\ UNCHANGED <<life, starter, lost, hub, sub, list, known, source, recon, ghost>>
  BY DEF Change
<1>5. (snap[p].up => next.session = snap[p].session /\ ~next.up) /\ (~snap[p].up => snap[p].session < next.session)
  BY <1>1, <1>2 DEF Snapshots
<1> HIDE DEF next
<1>6. snap' \in [Plugin -> Snapshots] /\ snap'[p] = next /\ \A q \in Plugin : q # p => snap'[q] = snap[q]
  BY <1>2, <1>3, <1>4
<1>7. snap[p].session <= next.session /\ next.session \in Nat
  <2>1. next.session \in Nat
    BY <1>3 DEF Snapshots
  <2> QED BY <1>2, <1>5, <2>1
<1>8. ASSUME NEW q \in Plugin PROVE snap[q].session <= snap'[q].session /\ snap[q].session \in Nat /\ snap'[q].session \in Nat
  <2>1. CASE q = p BY <2>1, <1>2, <1>6, <1>7
  <2>2. CASE q # p BY <2>2, <1>2, <1>6
  <2> QED BY <2>1, <2>2
<1> QED BY <1>4, <1>5, <1>6, <1>8

LEMMA ReportsStep ==
    ASSUME Types, Reports, Next PROVE Reports'
<1>0. Idle \in Events /\ Zero \in Snapshots /\ Idle.kind = "none" /\ Zero.session = 0 /\ NoSub.pending = <<>>
  BY Constants_
<1>T. /\ loop \in [Plugin -> Events] /\ hub.queue \in Seq(Events) /\ \A s \in Sub : sub[s] \in Subscribers /\ sub[s].pending \in Seq(Events)
      /\ \A p \in Plugin : snap[p] \in Snapshots /\ snap[p].session \in Nat /\ 0 <= snap[p].session
  BY DEF Types, Hubs, Subscribers, Snapshots
<1>R. LoopOld(loop) /\ NextOld(starter.next) /\ AllOld(hub.queue) /\ \A s \in Sub : AllOld(sub[s].pending)
  BY DEF Reports, LoopOld, NextOld
<1>E. AllOld(<<>>) /\ sub \in [Sub -> Subscribers]
  BY DEF AllOld, Types
<1>U. ASSUME UNCHANGED <<snap, loop, starter, sub>>, hub'.queue = hub.queue PROVE Reports'
  BY <1>R, <1>U, ReportsFrom
<1>1. ASSUME NEW p \in Plugin, Change(p) PROVE Reports'
  <2> DEFINE Late_(e) == e.kind # "none" /\ e.plugin \in Plugin /\ e.snap.session <= snap'[e.plugin].session
  <2>1. ASSUME NEW e \in Events, Old(e) PROVE Late_(e)
    <3>1. e.snap.session \in Nat /\ e.plugin \in Plugin /\ e.snap.session <= snap[e.plugin].session
      BY <2>1 DEF Old, Events, Snapshots
    <3>2. snap[e.plugin].session <= snap'[e.plugin].session /\ snap[e.plugin].session \in Nat /\ snap'[e.plugin].session \in Nat
      BY <3>1, <1>1, ChangeIs
    <3> QED BY <2>1, <3>1, <3>2 DEF Old
  <2>2. ASSUME NEW es \in Seq(Events), AllOld(es) PROVE \A i \in DOMAIN es : Late_(es[i])
    <3>1. \A i \in DOMAIN es : es[i] \in Events
      OBVIOUS
    <3> QED BY <3>1, <2>1, <2>2 DEF AllOld
  <2>3. loop' = [loop EXCEPT ![p] = Event("state", p, snap'[p], 0)] /\ snap'[p].session \in Nat
        /\ UNCHANGED <<starter, hub, sub>>
    BY <1>1, ChangeIs
  <2>4. ASSUME NEW q \in Plugin PROVE loop'[q] = Idle \/ (Late_(loop'[q]) /\ loop'[q].plugin = q /\ loop'[q].kind # "discovered")
    <3>1. CASE q = p
      BY <3>1, <2>3, <1>T DEF Event
    <3>2. CASE q # p
      <4>1. loop'[q] = loop[q] /\ loop[q] \in Events
        BY <3>2, <2>3, <1>T
      <4> QED BY <4>1, <2>1, <1>R DEF LoopOld
    <3> QED BY <3>1, <3>2
  <2>5. starter.next = Idle \/ (Late_(starter.next) /\ starter.next.kind \in {"discovered", "state"})
    <3>1. starter.next \in Events
      BY DEF Types
    <3> QED BY <3>1, <2>1, <1>R DEF NextOld
  <2>6. \A i \in DOMAIN hub.queue : Late_(hub.queue[i])
    BY <2>2, <1>T, <1>R
  <2>7. \A s \in Sub : \A i \in DOMAIN sub[s].pending : Late_(sub[s].pending[i])
    BY <2>2, <1>T, <1>R
  <2> QED BY <2>3, <2>4, <2>5, <2>6, <2>7 DEF Reports, AllOld, Old
<1>2. ASSUME NEW p \in Plugin, Observe(p) PROVE Reports'
  <2> DEFINE e == Event("status", p, IF life = "starting" THEN Zero ELSE snap[p], 0)
  <2>1. Old(e) /\ e.plugin = p /\ e.kind # "discovered"
    BY <1>0, <1>T DEF Event, Old
  <2>2. loop' = [loop EXCEPT ![p] = e] /\ UNCHANGED <<snap, starter, hub, sub>>
    BY <1>2 DEF Observe
  <2> HIDE DEF e
  <2>3. LoopOld(loop')
    BY <2>1, <2>2, <1>R, <1>T DEF LoopOld
  <2> QED BY <2>2, <2>3, <1>R, ReportsFrom
<1>3. ASSUME NEW p \in Plugin, Log(p) PROVE Reports'
  <2> DEFINE e == Event("log", p, Zero, IF lost[p].session = snap[p].session THEN lost[p].count ELSE 0)
  <2>1. Old(e) /\ e.plugin = p /\ e.kind # "discovered"
    BY <1>0, <1>T DEF Event, Old
  <2>2. loop' = [loop EXCEPT ![p] = e] /\ UNCHANGED <<snap, starter, hub, sub>>
    BY <1>3 DEF Log
  <2> HIDE DEF e
  <2>3. LoopOld(loop')
    BY <2>1, <2>2, <1>R, <1>T DEF LoopOld
  <2> QED BY <2>2, <2>3, <1>R, ReportsFrom
<1>P. ASSUME NEW e \in Events, Old(e) PROVE AllOld(Published(e).queue)
  <2>1. CASE Room
    <3>1. Published(e).queue = Append(hub.queue, e)
      BY <2>1, Announcing
    <3> QED BY <3>1, <1>P, <1>R, <1>T, AllOldAppend
  <2>2. CASE ~Room
    <3>1. Published(e).queue = hub.queue
      BY <2>2, Announcing
    <3> QED BY <3>1, <1>R
  <2> QED BY <2>1, <2>2
<1>4. ASSUME NEW p \in Plugin, PublishIfStarted(p) PROVE Reports'
  <2>1. loop[p] \in Events /\ Old(loop[p])
    BY <1>4, <1>R, <1>T DEF PublishIfStarted, LoopOld
  <2>2. loop' = [loop EXCEPT ![p] = Idle] /\ UNCHANGED <<snap, starter, sub>> /\ (hub' = hub \/ hub' = Published(loop[p]))
    BY <1>4 DEF PublishIfStarted
  <2>3. LoopOld(loop')
    BY <2>2, <1>R, <1>T DEF LoopOld
  <2>4. AllOld(hub'.queue)
    BY <2>1, <2>2, <1>P, <1>R
  <2> QED BY <2>2, <2>3, <2>4, <1>R, ReportsFrom
<1>5. ASSUME NEW p \in Plugin, ReadSnapshot(p) PROVE Reports'
  <2> DEFINE e == Event("discovered", p, snap[p], 0)
  <2>1. NextOld(e)
    BY <1>T DEF Event, Old, NextOld
  <2>2. starter'.next = e /\ UNCHANGED <<snap, loop, hub, sub>>
    BY <1>5 DEF ReadSnapshot
  <2> HIDE DEF e
  <2> QED BY <2>1, <2>2, <1>R, ReportsFrom
<1>6. ASSUME Announce PROVE Reports'
  <2>1. starter.next \in Events /\ Old(starter.next) /\ starter.next # Idle
    BY <1>6, <1>R DEF Announce, NextOld, Types
  <2>2. UNCHANGED <<snap, loop, sub>> /\ (hub' = hub \/ hub' = Published(starter.next))
        /\ (starter'.next = [starter.next EXCEPT !.kind = "state"] \/ starter'.next = Idle)
    BY <1>6 DEF Announce, Types
  <2>3. NextOld(starter'.next)
    <3>1. [starter.next EXCEPT !.kind = "state"].plugin = starter.next.plugin /\ [starter.next EXCEPT !.kind = "state"].snap = starter.next.snap
          /\ [starter.next EXCEPT !.kind = "state"].kind = "state"
      BY <2>1 DEF Events
    <3> QED BY <3>1, <2>1, <2>2 DEF NextOld, Old
  <2>4. AllOld(hub'.queue)
    BY <2>1, <2>2, <1>P, <1>R
  <2> QED BY <2>2, <2>3, <2>4, <1>R, ReportsFrom
<1>7. ASSUME NEW quota, Dispatch(quota) PROVE Reports'
  <2> DEFINE e == Head(hub.queue)
  <2>1. hub.queue # <<>> /\ sub' = Dispatched(e) /\ UNCHANGED <<snap, loop, starter>>
        /\ hub' = [hub EXCEPT !.queue = Tail(@), !.quota = quota]
    BY <1>7 DEF Dispatch
  <2>2. Old(e) /\ AllOld(Tail(hub.queue)) /\ e \in Events
    BY <2>1, <1>R, <1>T, AllOldTail
  <2>3. hub'.queue = Tail(hub.queue)
    BY <2>1 DEF Types, Hubs
  <2>4. ASSUME NEW s \in Sub PROVE AllOld(sub'[s].pending)
    <3>1. CASE sub[s].at = "on"
      <4>1. sub'[s] = Enqueue(sub[s], e)
        BY <2>1, <3>1 DEF Dispatched
      <4>2. Event_(e) /\ sub[s] \in Subscribers
        BY <2>2, <1>T DEF Event_, Old
      <4> HIDE DEF e
      <4>3. Given(sub[s], e, Enqueue(sub[s], e))
        BY <4>2, EnqueueGiven
      <4> QED BY <4>1, <4>3, <2>2, <1>R DEF Given
    <3>2. CASE sub[s].at # "on"
      BY <2>1, <3>2, <1>R DEF Dispatched
    <3> QED BY <3>1, <3>2
  <2> QED BY <2>1, <2>2, <2>3, <2>4, <1>R, ReportsFrom
<1>8. ASSUME HubStops PROVE Reports'
  <2>1. hub'.queue = <<>> /\ UNCHANGED <<snap, loop, starter>>
        /\ sub' = [s \in Sub |-> IF sub[s].at \in {"on", "asked"} THEN [NoSub EXCEPT !.at = "closed"] ELSE sub[s]]
    BY <1>8 DEF HubStops, Types, Hubs
  <2>2. ASSUME NEW s \in Sub PROVE AllOld(sub'[s].pending)
    <3>1. [NoSub EXCEPT !.at = "closed"].pending = <<>>
      BY DEF NoSub
    <3> QED BY <3>1, <2>1, <1>R, <1>E
  <2> QED BY <2>1, <2>2, <1>R, <1>E, ReportsFrom
<1>9. ASSUME NEW s \in Sub, SelectRemove(s) PROVE Reports'
  <2>1. hub'.queue = hub.queue /\ UNCHANGED <<snap, loop, starter>> /\ sub' = [sub EXCEPT ![s] = [NoSub EXCEPT !.at = "closed"]]
    BY <1>9 DEF SelectRemove, Round, Types, Hubs
  <2>2. ASSUME NEW t \in Sub PROVE AllOld(sub'[t].pending)
    <3>1. [NoSub EXCEPT !.at = "closed"].pending = <<>>
      BY DEF NoSub
    <3> QED BY <3>1, <2>1, <1>R, <1>E
  <2> QED BY <2>1, <2>2, <1>R, ReportsFrom
<1>S. ASSUME NEW s \in Sub, UNCHANGED <<snap, loop, starter>>, hub'.queue = hub.queue, sub'[s].pending = sub[s].pending,
             \A t \in Sub : t # s => sub'[t] = sub[t]
      PROVE  Reports'
  <2>1. \A t \in Sub : sub'[t].pending = sub[t].pending
    BY <1>S
  <2> QED BY <2>1, <1>S, <1>R, ReportsFrom
<1>10. ASSUME NEW s \in Sub, SelectSubscribe(s) PROVE Reports'
  <2>1. hub'.queue = hub.queue /\ UNCHANGED <<snap, loop, starter>>
    BY <1>10 DEF SelectSubscribe, Round, Types, Hubs
  <2>2. sub'[s].pending = sub[s].pending /\ \A t \in Sub : t # s => sub'[t] = sub[t]
    BY <1>10, <1>E DEF SelectSubscribe, Subscribers
  <2> QED BY <2>1, <2>2, <1>S
<1>11. ASSUME NEW s \in Sub, Subscribe(s) PROVE Reports'
  <2>1. hub'.queue = hub.queue /\ UNCHANGED <<snap, loop, starter>>
    BY <1>11 DEF Subscribe, Run, Types, Hubs
  <2>2. sub'[s].pending = sub[s].pending /\ \A t \in Sub : t # s => sub'[t] = sub[t]
    BY <1>11, <1>E DEF Subscribe, Subscribers
  <2> QED BY <2>1, <2>2, <1>S
<1>12. ASSUME NEW s \in Sub, Cancel(s) PROVE Reports'
  <2>1. hub'.queue = hub.queue /\ UNCHANGED <<snap, loop, starter>>
    BY <1>12 DEF Cancel
  <2>2. sub'[s].pending = sub[s].pending /\ \A t \in Sub : t # s => sub'[t] = sub[t]
    BY <1>12, <1>E DEF Cancel, Subscribers
  <2> QED BY <2>1, <2>2, <1>S
<1>13. ASSUME NEW s \in Sub, Deliver(s) PROVE Reports'
  <2>1. hub'.queue = hub.queue /\ UNCHANGED <<snap, loop, starter>> /\ sub[s].pending # <<>>
    BY <1>13 DEF Deliver, Round, Types, Hubs
  <2>2. sub'[s].pending = Tail(sub[s].pending) /\ \A t \in Sub : t # s => sub'[t] = sub[t]
    BY <1>13, <1>E DEF Deliver, Subscribers
  <2>3. AllOld(Tail(sub[s].pending))
    BY <2>1, <1>R, <1>T, AllOldTail
  <2>4. \A t \in Sub : AllOld(sub'[t].pending)
    BY <2>2, <2>3, <1>R
  <2> QED BY <2>1, <2>4, <1>R, ReportsFrom
<1>14. ASSUME NEW p \in Plugin, ReadList(p) \/ Reconcile(p) \/ Submit(p) \/ SubmitLate(p) PROVE Reports'
  BY <1>14, <1>U DEF ReadList, Reconcile, Submit, SubmitLate
<1>15. ASSUME Started \/ Close \/ CloseEvents \/ ReconcileReads PROVE Reports'
  <2>1. hub'.queue = hub.queue /\ UNCHANGED <<snap, loop, sub>> /\ starter'.next = starter.next
    BY <1>15 DEF Started, Close, CloseEvents, ReconcileReads, Run, Types, Hubs
  <2> QED BY <2>1, <1>R, ReportsFrom
<1> QED BY <1>1, <1>2, <1>3, <1>4, <1>5, <1>6, <1>7, <1>8, <1>9, <1>10, <1>11, <1>12, <1>13, <1>14, <1>15 DEF Next, HubStep, Drain, SelectPublish

-----------------------------------------------------------------------------
(* Who follows. *)

LEMMA SubscriptionsStep ==
    ASSUME Types, Reports, Subscriptions, Next PROVE Subscriptions'
<1> DEFINE Empty(b) == b.at # "on" => b.pending = <<>> /\ b.order = <<>> /\ b.dropped = [p \in Plugin |-> 0]
<1>T. /\ hub \in Hubs /\ sub \in [Sub -> Subscribers] /\ hub.queue \in Seq(Events)
      /\ recon \in [at : {"none", "applying"}, left : SUBSET Plugin, got : [Plugin -> Snapshots]]
      /\ starter \in [left : SUBSET Plugin, next : Events]
  BY DEF Types, Hubs
<1>S. /\ \A s \in Sub : Empty(sub[s])
      /\ Coordinator \in Sub => sub[Coordinator].at \in {"on", "closed"}
      /\ hub.done => life = "closing"
      /\ recon.at = "none" => recon.left = {}
      /\ recon.at = "applying" => StartIsOver
      /\ life = "starting" => starter.left = Plugin
  BY DEF Subscriptions
<1>E. Empty(NoSub) /\ \A a : Empty([NoSub EXCEPT !.at = a]) /\ [NoSub EXCEPT !.at = a].at = a
  BY DEF NoSub
<1>F. ASSUME \A s \in Sub : Empty(sub'[s]), Coordinator \in Sub => sub'[Coordinator].at \in {"on", "closed"},
             hub'.done => life' = "closing", recon'.at = "none" => recon'.left = {}, recon'.at = "applying" => StartIsOver',
             life' = "starting" => starter'.left = Plugin
      PROVE  Subscriptions'
  BY <1>F DEF Subscriptions
<1>1. ASSUME NEW p \in Plugin, Change(p) \/ Observe(p) \/ Log(p) \/ PublishIfStarted(p) \/ ReadList(p) \/ Submit(p) \/ SubmitLate(p)
      PROVE  Subscriptions'
  <2>1. UNCHANGED <<life, starter, sub, recon>>
    BY <1>1 DEF Change, Observe, Log, PublishIfStarted, ReadList, Submit, SubmitLate
  <2>2. hub'.done = hub.done
    BY <1>1, <1>T DEF Change, Observe, Log, PublishIfStarted, ReadList, Submit, SubmitLate, Published, Hubs
  <2> QED BY <2>1, <2>2, <1>S, <1>F DEF StartIsOver
<1>2. ASSUME NEW p \in Plugin, ReadSnapshot(p) PROVE Subscriptions'
  <2>1. UNCHANGED <<life, sub, recon, hub>> /\ ~StartIsOver /\ life # "starting"
    BY <1>2 DEF ReadSnapshot, StartIsOver
  <2> QED BY <2>1, <1>S, <1>F
<1>3. ASSUME NEW p \in Plugin, Reconcile(p) PROVE Subscriptions'
  <2>1. UNCHANGED <<life, starter, sub, hub>> /\ recon' = [recon EXCEPT !.left = @ \ {p}, !.got[p] = Zero] /\ p \in recon.left
    BY <1>3 DEF Reconcile
  <2>2. recon'.at = recon.at /\ recon.at = "applying"
    BY <2>1, <1>S, <1>T
  <2> QED BY <2>1, <2>2, <1>S, <1>F DEF StartIsOver
<1>4. ASSUME Started PROVE Subscriptions'
  <2>1. UNCHANGED <<sub, recon>> /\ ~StartIsOver /\ life = "starting" /\ life' = "started" /\ hub' = Run(hub)
    BY <1>4 DEF Started, StartIsOver
  <2>2. hub'.done = hub.done
    BY <2>1, <1>T DEF Run, Hubs
  <2>3. recon.at = "none"
    BY <2>1, <1>S, <1>T
  <2> QED BY <2>1, <2>2, <2>3, <1>S, <1>F
<1>5. ASSUME Announce PROVE Subscriptions'
  <2>1. UNCHANGED <<life, sub, recon>> /\ ~StartIsOver /\ life # "starting"
    BY <1>5 DEF Announce, StartIsOver
  <2>2. hub'.done = hub.done
    BY <1>5, <1>T DEF Announce, Published, Hubs
  <2>3. recon.at = "none"
    BY <2>1, <1>S, <1>T
  <2> QED BY <2>1, <2>2, <2>3, <1>S, <1>F
<1>6. ASSUME Close PROVE Subscriptions'
  <2>1. UNCHANGED <<starter, sub, recon, hub>> /\ life = "started" /\ life' = "closing"
    BY <1>6 DEF Close
  <2> QED BY <2>1, <1>S, <1>F DEF StartIsOver
<1>7. ASSUME CloseEvents PROVE Subscriptions'
  BY <1>7, <1>S, <1>F DEF CloseEvents, StartIsOver
<1>8. ASSUME ReconcileReads PROVE Subscriptions'
  <2>1. UNCHANGED <<life, starter, sub, hub>> /\ recon'.at = "applying" /\ StartIsOver
    BY <1>8 DEF ReconcileReads
  <2> QED BY <2>1, <1>S, <1>F DEF StartIsOver
<1>G. ASSUME NEW s \in Sub, NEW b, sub' = [sub EXCEPT ![s] = b], Empty(b), s = Coordinator => b.at \in {"on", "closed"},
             UNCHANGED <<life, starter, recon>>, hub'.done = hub.done
      PROVE  Subscriptions'
  <2>1. \A t \in Sub : sub'[t] = IF t = s THEN b ELSE sub[t]
    BY <1>G, <1>T
  <2>2. (\A t \in Sub : Empty(sub'[t])) /\ (Coordinator \in Sub => sub'[Coordinator].at \in {"on", "closed"})
    BY <2>1, <1>G, <1>S
  <2> QED BY <2>2, <1>G, <1>S, <1>F DEF StartIsOver
<1>9. ASSUME NEW s \in Sub, Subscribe(s) PROVE Subscriptions'
  <2> DEFINE b == [sub[s] EXCEPT !.at = IF hub.done THEN "closed" ELSE "asked"]
  <2>1. sub' = [sub EXCEPT ![s] = b] /\ UNCHANGED <<life, starter, recon>> /\ sub[s].at = "none" /\ hub' = Run(hub)
    BY <1>9 DEF Subscribe
  <2>2. hub'.done = hub.done
    BY <2>1, <1>T DEF Run, Hubs
  <2>3. Empty(b)
    BY <2>1, <1>S, <1>T DEF Subscribers
  <2>4. s # Coordinator
    BY <2>1, <1>S
  <2> HIDE DEF b, Empty
  <2> QED BY <2>1, <2>2, <2>3, <2>4, <1>G
<1>10. ASSUME NEW s \in Sub, Cancel(s) PROVE Subscriptions'
  <2> DEFINE b == [sub[s] EXCEPT !.cancelled = TRUE]
  <2>1. sub' = [sub EXCEPT ![s] = b] /\ UNCHANGED <<life, starter, recon, hub>>
    BY <1>10 DEF Cancel
  <2>2. Empty(b) /\ b.at = sub[s].at
    BY <2>1, <1>S, <1>T DEF Subscribers
  <2>3. s = Coordinator => b.at \in {"on", "closed"}
    BY <2>2, <1>S
  <2> HIDE DEF b, Empty
  <2> QED BY <2>1, <2>2, <2>3, <1>G
<1>11. ASSUME NEW s \in Sub, Deliver(s) PROVE Subscriptions'
  <2> DEFINE e == Head(sub[s].pending)
             b == [sub[s] EXCEPT !.pending = Tail(@), !.order = IF e.kind \in States THEN RemoveFirst(@, Key(e)) ELSE @]
  <2>1. sub' = [sub EXCEPT ![s] = b] /\ UNCHANGED <<life, starter, recon>> /\ sub[s].at = "on" /\ hub' = Round(hub)
    BY <1>11 DEF Deliver
  <2>2. hub'.done = hub.done
    BY <2>1, <1>T DEF Round, Hubs
  <2>3. b.at = "on"
    BY <2>1, <1>T DEF Subscribers
  <2> HIDE DEF b
  <2> QED BY <2>1, <2>2, <2>3, <1>G
<1>12. ASSUME NEW s \in Sub, SelectSubscribe(s) PROVE Subscriptions'
  <2> DEFINE b == [sub[s] EXCEPT !.at = IF sub[s].cancelled THEN "closed" ELSE "on"]
  <2>1. sub' = [sub EXCEPT ![s] = b] /\ UNCHANGED <<life, starter, recon>> /\ sub[s].at = "asked" /\ hub' = Round(hub)
    BY <1>12 DEF SelectSubscribe
  <2>2. hub'.done = hub.done
    BY <2>1, <1>T DEF Round, Hubs
  <2>3. Empty(b)
    BY <2>1, <1>S, <1>T DEF Subscribers
  <2>4. s # Coordinator
    BY <2>1, <1>S
  <2> HIDE DEF b, Empty
  <2> QED BY <2>1, <2>2, <2>3, <2>4, <1>G
<1>13. ASSUME NEW s \in Sub, SelectRemove(s) PROVE Subscriptions'
  <2> DEFINE b == [NoSub EXCEPT !.at = "closed"]
  <2>1. sub' = [sub EXCEPT ![s] = b] /\ UNCHANGED <<life, starter, recon>> /\ hub' = Round(hub)
    BY <1>13 DEF SelectRemove
  <2>2. hub'.done = hub.done
    BY <2>1, <1>T DEF Round, Hubs
  <2>3. Empty(b) /\ b.at = "closed"
    BY <1>E
  <2> HIDE DEF b, Empty
  <2> QED BY <2>1, <2>2, <2>3, <1>G
<1>14. ASSUME NEW quota, Dispatch(quota) PROVE Subscriptions'
  <2> DEFINE e == Head(hub.queue)
  <2>1. hub.queue # <<>> /\ sub' = Dispatched(e) /\ UNCHANGED <<life, starter, recon>> /\ hub' = [hub EXCEPT !.queue = Tail(@), !.quota = quota]
    BY <1>14 DEF Dispatch
  <2>2. hub'.done = hub.done
    BY <2>1, <1>T DEF Hubs
  <2>3. Event_(e)
    BY <2>1, <1>T, AllOldTail DEF Reports, Event_, Old
  <2> HIDE DEF e
  <2>4. ASSUME NEW s \in Sub PROVE sub'[s].at = sub[s].at /\ (sub[s].at # "on" => sub'[s] = sub[s])
    <3>1. sub[s].at = "on" => Enqueue(sub[s], e).at = sub[s].at
      BY <2>3, <1>T, EnqueueGiven DEF Given
    <3> QED BY <2>1, <3>1 DEF Dispatched
  <2> QED BY <2>1, <2>2, <2>4, <1>S, <1>F DEF StartIsOver
<1>15. ASSUME HubStops PROVE Subscriptions'
  <2>1. sub' = [s \in Sub |-> IF sub[s].at \in {"on", "asked"} THEN [NoSub EXCEPT !.at = "closed"] ELSE sub[s]]
        /\ UNCHANGED <<life, starter, recon>> /\ hub'.done = hub.done
    BY <1>15, <1>T DEF HubStops, Hubs
  <2>2. ASSUME NEW s \in Sub PROVE Empty(sub'[s]) /\ (s = Coordinator => sub'[s].at \in {"on", "closed"})
    <3> DEFINE c == [NoSub EXCEPT !.at = "closed"]
    <3>1. Empty(c) /\ c.at = "closed"
      BY <1>E
    <3>2. sub'[s] = c \/ sub'[s] = sub[s]
      BY <2>1
    <3> HIDE DEF c, Empty
    <3> QED BY <3>1, <3>2, <1>S
  <2> HIDE DEF Empty
  <2> QED BY <2>1, <2>2, <1>S, <1>F DEF StartIsOver
<1> QED BY <1>1, <1>2, <1>3, <1>4, <1>5, <1>6, <1>7, <1>8, <1>9, <1>10, <1>11, <1>12, <1>13, <1>14, <1>15 DEF Next, HubStep, Drain, SelectPublish

-----------------------------------------------------------------------------
(* Every log entry is accounted for. *)

\* What is on the way, from its parts.
Way(q, e, n, p) == Weight(q, p) + Unit(e, p) + n

LEMMA WayIs ==
    ASSUME Types, NEW p \in Plugin
    PROVE  /\ OnTheWay(p) = Way(hub.queue, loop[p], lost[p].count, p) /\ OnTheWay(p) \in Nat
           /\ Weight(hub.queue, p) \in Nat /\ Unit(loop[p], p) \in Nat /\ lost[p].count \in Nat
           /\ \A s \in Sub : Held(s, p) \in Nat /\ ghost.owed[s][p] \in Int
<1>1. hub.queue \in Seq(Events) /\ loop[p] \in Events /\ lost[p].count \in Nat
  BY DEF Types, Hubs
<1>2. Weight(hub.queue, p) \in Nat /\ Weight(<<loop[p]>>, p) = Unit(loop[p], p) /\ Unit(loop[p], p) \in Nat
  BY <1>1, EntriesFinite, WeightOne
<1>3. ASSUME NEW s \in Sub PROVE Held(s, p) \in Nat /\ ghost.owed[s][p] \in Int
  <2>1. sub[s].pending \in Seq(Events) /\ sub[s].dropped[p] \in Nat
    BY DEF Types, Subscribers
  <2>2. Weight(sub[s].pending, p) \in Nat
    BY <2>1, EntriesFinite
  <2> QED BY <2>1, <2>2 DEF Held, Types, Ghosts
<1> QED BY <1>1, <1>2, <1>3 DEF OnTheWay, Way

LEMMA LogsCountedStep ==
    ASSUME Types, Types', Reports, Subscriptions, LogsCounted, Next PROVE LogsCounted'
<1>W. ASSUME NEW p \in Plugin
      PROVE  /\ OnTheWay(p) = Way(hub.queue, loop[p], lost[p].count, p) /\ OnTheWay(p) \in Nat
             /\ OnTheWay(p)' = Way(hub'.queue, loop'[p], lost'[p].count, p) /\ OnTheWay(p)' \in Nat
             /\ Weight(hub.queue, p) \in Nat /\ Unit(loop[p], p) \in Nat /\ lost[p].count \in Nat
             /\ Weight(hub'.queue, p) \in Nat /\ Unit(loop'[p], p) \in Nat /\ lost'[p].count \in Nat
  <2>1. /\ OnTheWay(p) = Way(hub.queue, loop[p], lost[p].count, p) /\ OnTheWay(p) \in Nat
        /\ Weight(hub.queue, p) \in Nat /\ Unit(loop[p], p) \in Nat /\ lost[p].count \in Nat
    BY WayIs
  <2>2. (/\ OnTheWay(p) = Way(hub.queue, loop[p], lost[p].count, p) /\ OnTheWay(p) \in Nat
         /\ Weight(hub.queue, p) \in Nat /\ Unit(loop[p], p) \in Nat /\ lost[p].count \in Nat)'
    BY WayIs, PTL
  <2> QED BY <2>1, <2>2 DEF Way, Unit
<1>T. /\ hub \in Hubs /\ hub.queue \in Seq(Events) /\ sub \in [Sub -> Subscribers] /\ loop \in [Plugin -> Events] /\ ghost \in Ghosts
      /\ lost \in [Plugin -> [count : Nat, session : Nat]] /\ ghost.owed \in [Sub -> [Plugin -> Int]]
      /\ \A s \in Sub : sub[s] \in Subscribers /\ sub[s].pending \in Seq(Events) /\ sub[s].dropped \in [Plugin -> Nat]
  BY DEF Types, Hubs, Subscribers, Ghosts
<1>L. /\ \A s \in Sub, p \in Plugin : sub[s].at = "on" => ghost.owed[s][p] = OnTheWay(p) + Held(s, p)
      /\ \A p \in Plugin : loop[p].kind = "log" => lost[p].count = 0
  BY DEF LogsCounted, LogsAccounted
<1>H. ASSUME NEW s \in Sub, NEW p \in Plugin
      PROVE  Held(s, p)' = Weight(sub'[s].pending, p) + sub'[s].dropped[p] /\ Held(s, p)' \in Nat /\ Held(s, p) \in Nat /\ ghost.owed[s][p] \in Int
  <2>1. Held(s, p) \in Nat /\ ghost.owed[s][p] \in Int
    BY WayIs
  <2>2. Held(s, p)' \in Nat
    <3>1. sub'[s].pending \in Seq(Events) /\ sub'[s].dropped[p] \in Nat
      BY DEF Types, Subscribers
    <3>2. Weight(sub'[s].pending, p) \in Nat
      BY <3>1, EntriesFinite
    <3> QED BY <3>1, <3>2 DEF Held
  <2> QED BY <2>1, <2>2 DEF Held
<1>F. ASSUME \A s \in Sub, p \in Plugin : sub'[s].at = "on" => ghost'.owed[s][p] = OnTheWay(p)' + Held(s, p)',
             \A p \in Plugin : loop'[p].kind = "log" => lost'[p].count = 0
      PROVE  LogsCounted'
  BY <1>F DEF LogsCounted, LogsAccounted
\* Nothing moves between what is on the way and a subscriber.
<1>K. ASSUME ghost'.owed = ghost.owed, \A p \in Plugin : OnTheWay(p)' = OnTheWay(p), \A p \in Plugin : loop'[p].kind = "log" => lost'[p].count = 0,
             \A s \in Sub : sub'[s].at = "on" => sub[s].at = "on" /\ sub'[s].pending = sub[s].pending /\ sub'[s].dropped = sub[s].dropped
      PROVE  LogsCounted'
  <2>1. ASSUME NEW s \in Sub, NEW p \in Plugin, sub'[s].at = "on" PROVE ghost'.owed[s][p] = OnTheWay(p)' + Held(s, p)'
    <3>1. Held(s, p)' = Held(s, p)
      BY <2>1, <1>K, <1>H DEF Held
    <3> QED BY <3>1, <2>1, <1>K, <1>L
  <2> QED BY <2>1, <1>K, <1>F
<1>U. ASSUME UNCHANGED <<loop, lost, sub>>, hub'.queue = hub.queue, ghost'.owed = ghost.owed PROVE LogsCounted'
  <2>1. \A p \in Plugin : OnTheWay(p)' = OnTheWay(p)
    BY <1>U, <1>W
  <2> QED BY <2>1, <1>U, <1>L, <1>K
\* A loop that was idle has something else than a log entry to publish.
<1>I. ASSUME NEW p \in Plugin, NEW e, loop[p] = Idle, loop' = [loop EXCEPT ![p] = e], e.kind # "log", UNCHANGED <<lost, hub, sub, ghost>> PROVE LogsCounted'
  <2>1. ASSUME NEW q \in Plugin PROVE OnTheWay(q)' = OnTheWay(q) /\ (loop'[q].kind = "log" => lost'[q].count = 0)
    <3>1. Unit(Idle, q) = 0 /\ Unit(e, q) = 0
      BY <1>I, Constants_ DEF Unit
    <3>2. loop'[q] = IF q = p THEN e ELSE loop[q]
      BY <1>I, <1>T
    <3>3. Unit(loop'[q], q) = Unit(loop[q], q)
      BY <3>1, <3>2, <1>I
    <3> QED BY <3>2, <3>3, <1>I, <1>W, <1>L DEF Way
  <2> QED BY <2>1, <1>I, <1>K
<1>1. ASSUME NEW p \in Plugin, Change(p) PROVE LogsCounted'
  <2>1. loop[p] = Idle /\ loop' = [loop EXCEPT ![p] = Event("state", p, snap'[p], 0)] /\ UNCHANGED <<lost, hub, sub, ghost>>
    BY <1>1, ChangeIs
  <2>2. Event("state", p, snap'[p], 0).kind # "log"
    BY DEF Event
  <2> QED BY <2>1, <2>2, <1>I
<1>2. ASSUME NEW p \in Plugin, Observe(p) PROVE LogsCounted'
  <2> DEFINE e == Event("status", p, IF life = "starting" THEN Zero ELSE snap[p], 0)
  <2>1. loop[p] = Idle /\ loop' = [loop EXCEPT ![p] = e] /\ UNCHANGED <<lost, hub, sub, ghost>>
    BY <1>2 DEF Observe
  <2>2. e.kind # "log"
    BY DEF Event
  <2> HIDE DEF e
  <2> QED BY <2>1, <2>2, <1>I
<1>3. ASSUME NEW p \in Plugin, Log(p) PROVE LogsCounted'
  <2> DEFINE d == IF lost[p].session = snap[p].session THEN lost[p].count ELSE 0
             w == IF lost[p].session = snap[p].session THEN 0 ELSE lost[p].count
             e == Event("log", p, Zero, d)
             owed_ == [s \in Sub |-> IF sub[s].at = "on" THEN [ghost.owed[s] EXCEPT ![p] = @ + 1 - w] ELSE ghost.owed[s]]
  <2>1. d \in Nat /\ w \in Nat /\ d + w = lost[p].count
    BY <1>T
  <2>2. loop[p] = Idle /\ loop' = [loop EXCEPT ![p] = e] /\ lost' = [lost EXCEPT ![p] = [count |-> 0, session |-> snap[p].session]]
        /\ UNCHANGED <<hub, sub>>
    BY <1>3 DEF Log
  <2>3. ghost'.owed = owed_
    <3>1. ghost' = [ghost EXCEPT !.logs = @ + 1, !.owed = owed_]
      BY <1>3 DEF Log
    <3> HIDE DEF owed_
    <3> QED BY <3>1, <1>T DEF Ghosts
  <2>4. e.kind = "log" /\ e.plugin = p /\ e.dropped = d
    BY DEF Event
  <2>5. ASSUME NEW s \in Sub, NEW q \in Plugin, sub[s].at = "on" PROVE ghost'.owed[s][q] = IF q = p THEN ghost.owed[s][q] + 1 - w ELSE ghost.owed[s][q]
    <3>1. ghost'.owed[s] = [ghost.owed[s] EXCEPT ![p] = @ + 1 - w] /\ ghost.owed[s] \in [Plugin -> Int]
      BY <2>3, <2>5, <1>T
    <3> HIDE DEF w
    <3> QED BY <3>1
  <2> HIDE DEF d, w, e, owed_
  <2>6. ASSUME NEW q \in Plugin
        PROVE  /\ OnTheWay(q)' = IF q = p THEN OnTheWay(q) + 1 - w ELSE OnTheWay(q)
               /\ loop'[q].kind = "log" => lost'[q].count = 0
    <3>1. CASE q = p
      <4>1. Unit(Idle, p) = 0 /\ Unit(e, p) = 1 + d
        BY <2>4, Constants_ DEF Unit
      <4>2. loop'[p] = e /\ lost'[p].count = 0
        BY <2>2, <1>T
      <4>3. OnTheWay(p) = Weight(hub.queue, p) + 0 + lost[p].count
        BY <4>1, <2>2, <1>W DEF Way
      <4>4. OnTheWay(p)' = Weight(hub.queue, p) + (1 + d) + 0
        BY <4>1, <4>2, <2>2, <1>W DEF Way
      <4>5. Weight(hub.queue, p) \in Nat
        BY <1>W
      <4> QED BY <4>2, <4>3, <4>4, <4>5, <3>1, <2>1
    <3>2. CASE q # p
      <4>1. loop'[q] = loop[q] /\ lost'[q] = lost[q]
        BY <3>2, <2>2, <1>T
      <4> QED BY <4>1, <3>2, <2>2, <1>W, <1>L
    <3> QED BY <3>1, <3>2
  <2>7. ASSUME NEW s \in Sub, NEW q \in Plugin, sub'[s].at = "on" PROVE ghost'.owed[s][q] = OnTheWay(q)' + Held(s, q)'
    <3>1. Held(s, q)' = Held(s, q) /\ Held(s, q) \in Nat /\ sub[s].at = "on"
      BY <2>2, <2>7, <1>H DEF Held
    <3>2. ghost.owed[s][q] = OnTheWay(q) + Held(s, q) /\ OnTheWay(q) \in Nat
      BY <3>1, <1>L, <1>W
    <3>3. CASE q = p
      <4>1. ghost'.owed[s][q] = ghost.owed[s][q] + 1 - w /\ OnTheWay(q)' = OnTheWay(q) + 1 - w
        BY <3>1, <3>3, <2>5, <2>6
      <4> QED BY <4>1, <3>1, <3>2, <2>1
    <3>4. CASE q # p
      BY <3>1, <3>2, <3>4, <2>5, <2>6
    <3> QED BY <3>3, <3>4
  <2> QED BY <2>6, <2>7, <1>F
<1>P. ASSUME NEW e \in Events, NEW q \in Plugin
      PROVE  Weight(Published(e).queue, q) = Weight(hub.queue, q) + (IF Room THEN Unit(e, q) ELSE 0)
  <2>1. CASE Room
    <3>1. Published(e).queue = Append(hub.queue, e)
      BY <2>1, Announcing
    <3> QED BY <3>1, <2>1, <1>T, WeightAppend
  <2>2. CASE ~Room
    <3>1. Published(e).queue = hub.queue /\ Weight(hub.queue, q) \in Nat
      BY <2>2, <1>W, Announcing
    <3> QED BY <3>1, <2>2
  <2> QED BY <2>1, <2>2
<1>4. ASSUME NEW p \in Plugin, PublishIfStarted(p) PROVE LogsCounted'
  <2> DEFINE e == loop[p]
             sent == life = "started" /\ Room
  <2>1. e \in Events /\ e.plugin = p /\ e.dropped \in Nat
    BY <1>4 DEF PublishIfStarted, Reports, Types, Events
  <2>2. loop' = [loop EXCEPT ![p] = Idle] /\ UNCHANGED <<sub>>
        /\ hub' = (IF life = "started" THEN Published(e) ELSE hub)
        /\ ghost' = (IF life = "started" THEN Refusal(e) ELSE ghost)
        /\ lost' = IF e.kind = "log" /\ ~sent THEN [lost EXCEPT ![p].count = e.dropped + 1] ELSE lost
    BY <1>4 DEF PublishIfStarted
  <2>3. ghost'.owed = ghost.owed
    BY <2>1, <2>2, Announcing
  <2>4. \A q \in Plugin : Weight(hub'.queue, q) = Weight(hub.queue, q) + (IF sent THEN Unit(e, q) ELSE 0)
    <3>1. CASE life = "started" BY <3>1, <2>1, <2>2, <1>P
    <3>2. CASE life # "started"
      <4>1. \A q \in Plugin : Weight(hub.queue, q) \in Nat
        BY <1>W
      <4> QED BY <4>1, <3>2, <2>2
    <3> QED BY <3>1, <3>2
  <2>5. ASSUME NEW q \in Plugin PROVE OnTheWay(q)' = OnTheWay(q) /\ (loop'[q].kind = "log" => lost'[q].count = 0)
    <3>0. Unit(Idle, q) = 0 /\ Idle.kind # "log"
      BY Constants_ DEF Unit
    <3>1. CASE q # p
      <4>1. loop'[q] = loop[q] /\ lost'[q] = lost[q] /\ Unit(e, q) = 0
        BY <3>1, <2>1, <2>2, <1>T DEF Unit
      <4>2. Weight(hub'.queue, q) = Weight(hub.queue, q)
        BY <4>1, <2>4, <1>W
      <4> QED BY <4>1, <4>2, <1>W, <1>L DEF Way
    <3>2. CASE q = p
      <4>1. loop'[p] = Idle /\ OnTheWay(p) = Weight(hub.queue, p) + Unit(e, p) + lost[p].count
            /\ OnTheWay(p)' = Weight(hub'.queue, p) + 0 + lost'[p].count
        BY <3>0, <3>2, <2>2, <1>T, <1>W DEF Way
      <4>2. Weight(hub.queue, p) \in Nat /\ Unit(e, p) \in Nat /\ lost[p].count \in Nat
        BY <1>W
      <4>3. CASE sent \/ e.kind # "log"
        <5>1. lost' = lost
          BY <4>3, <2>2
        <5>2. Weight(hub'.queue, p) = Weight(hub.queue, p) + Unit(e, p)
          <6>1. e.kind # "log" => Unit(e, p) = 0
            BY DEF Unit
          <6> QED BY <6>1, <4>2, <4>3, <2>4
        <5> HIDE DEF e, sent
        <5> QED BY <5>1, <5>2, <4>1, <4>2, <3>0, <3>2
      <4>4. CASE ~sent /\ e.kind = "log"
        <5>1. lost'[p].count = e.dropped + 1 /\ lost[p].count = 0 /\ Unit(e, p) = 1 + e.dropped
          <6>1. lost' = [lost EXCEPT ![p].count = e.dropped + 1]
            BY <4>4, <2>2
          <6>2. lost'[p].count = e.dropped + 1
            <7> HIDE DEF e
            <7> QED BY <6>1, <1>T
          <6>3. Unit(e, p) = 1 + e.dropped
            BY <4>4, <2>1 DEF Unit
          <6> QED BY <6>2, <6>3, <4>4, <1>L
        <5>2. Weight(hub'.queue, p) = Weight(hub.queue, p)
          BY <4>2, <4>4, <2>4
        <5> HIDE DEF e, sent
        <5> QED BY <5>1, <5>2, <4>1, <4>2, <3>0, <3>2, <2>1
      <4> QED BY <4>3, <4>4
    <3> QED BY <3>1, <3>2
  <2> QED BY <2>2, <2>3, <2>5, <1>K
<1>5. ASSUME Announce PROVE LogsCounted'
  <2> DEFINE e == starter.next
  <2>1. e \in Events /\ e.kind # "log"
    BY <1>5 DEF Announce, Reports, Types
  <2>2. UNCHANGED <<loop, lost, sub>> /\ ((hub' = hub /\ ghost' = ghost) \/ (hub' = Published(e) /\ ghost' = Refusal(e)))
    BY <1>5 DEF Announce
  <2> HIDE DEF e
  <2>3. ASSUME NEW q \in Plugin PROVE Weight(hub'.queue, q) = Weight(hub.queue, q)
    <3>1. Unit(e, q) = 0 /\ Weight(hub.queue, q) \in Nat
      BY <2>1, <1>W DEF Unit
    <3>2. Weight(Published(e).queue, q) = Weight(hub.queue, q) + 0
      BY <3>1, <2>1, <1>P
    <3> QED BY <3>1, <3>2, <2>2
  <2>4. ghost'.owed = ghost.owed
    BY <2>1, <2>2, Announcing
  <2>5. \A q \in Plugin : OnTheWay(q)' = OnTheWay(q)
    BY <2>2, <2>3, <1>W DEF Way
  <2> QED BY <2>2, <2>4, <2>5, <1>L, <1>K
<1>6. ASSUME NEW quota, Dispatch(quota) PROVE LogsCounted'
  <2> DEFINE e == Head(hub.queue)
  <2>1. hub.queue # <<>> /\ sub' = Dispatched(e) /\ UNCHANGED <<loop, lost>> /\ hub' = [hub EXCEPT !.queue = Tail(@), !.quota = quota]
    BY <1>6 DEF Dispatch
  <2>2. hub'.queue = Tail(hub.queue)
    BY <2>1, <1>T DEF Hubs
  <2>3. Event_(e)
    BY <2>1, <1>T, AllOldTail DEF Reports, Event_, Old
  <2>4. ghost'.owed = ghost.owed
    <3> DEFINE Out == UNION {PushedOut(sub[s], e) : s \in {s \in Sub : sub[s].at = "on"}}
    <3>1. ghost' = [ghost EXCEPT !.pushed = @ \cup Out]
      BY <1>6 DEF Dispatch
    <3> HIDE DEF Out
    <3> QED BY <3>1, <1>T DEF Ghosts
  <2>5. ASSUME NEW p \in Plugin PROVE OnTheWay(p) = OnTheWay(p)' + Unit(e, p) /\ Unit(e, p) \in Nat
    <3>1. Weight(hub.queue, p) = Unit(e, p) + Weight(Tail(hub.queue), p) /\ Unit(e, p) \in Nat
      BY <2>1, <1>T, WeightTail
    <3> QED BY <3>1, <2>1, <2>2, <1>W DEF Way
  <2> HIDE DEF e
  <2>6. ASSUME NEW s \in Sub, NEW p \in Plugin, sub'[s].at = "on" PROVE ghost'.owed[s][p] = OnTheWay(p)' + Held(s, p)'
    <3>1. Given(sub[s], e, Enqueue(sub[s], e))
      BY <2>3, <1>T, EnqueueGiven
    <3>2. sub[s].at = "on" /\ sub'[s] = Enqueue(sub[s], e)
      BY <2>1, <2>6 DEF Dispatched
    <3>3. Held(s, p)' = Held(s, p) + Unit(e, p)
      BY <3>1, <3>2, <1>H DEF Given, Held
    <3> QED BY <3>2, <3>3, <2>4, <2>5, <1>L, <1>H, <1>W
  <2> QED BY <2>1, <2>6, <1>L, <1>F
<1>7. ASSUME HubStops PROVE LogsCounted'
  <2>1. \A s \in Sub : sub'[s].at # "on"
    BY <1>7 DEF HubStops, NoSub
  <2> QED BY <1>7, <2>1, <1>L, <1>F DEF HubStops
<1>8. ASSUME NEW s \in Sub, SelectRemove(s) PROVE LogsCounted'
  <2>1. sub' = [sub EXCEPT ![s] = [NoSub EXCEPT !.at = "closed"]] /\ hub' = Round(hub) /\ UNCHANGED <<loop, lost>>
    BY <1>8 DEF SelectRemove
  <2>2. hub'.queue = hub.queue
    BY <2>1, <1>T DEF Round, Hubs
  <2>3. ASSUME NEW t \in Sub, t # s PROVE ghost'.owed[t] = ghost.owed[t] /\ sub'[t] = sub[t]
    <3> DEFINE f == [p \in Plugin |-> 0]
    <3>1. ghost' = [ghost EXCEPT !.owed[s] = f]
      BY <1>8 DEF SelectRemove
    <3> HIDE DEF f
    <3> QED BY <3>1, <2>1, <2>3, <1>T DEF Ghosts
  <2>4. sub'[s].at # "on"
    BY <2>1, <1>T DEF NoSub
  <2>5. ASSUME NEW t \in Sub, NEW p \in Plugin, sub'[t].at = "on" PROVE ghost'.owed[t][p] = OnTheWay(p)' + Held(t, p)'
    <3>1. t # s
      BY <2>4, <2>5
    <3>2. Held(t, p)' = Held(t, p) /\ OnTheWay(p)' = OnTheWay(p)
      BY <3>1, <2>1, <2>2, <2>3, <1>H, <1>W DEF Held
    <3> QED BY <3>1, <3>2, <2>3, <2>5, <1>L
  <2> QED BY <2>1, <2>5, <1>L, <1>F
<1>9. ASSUME NEW s \in Sub, SelectSubscribe(s) PROVE LogsCounted'
  <2>1. sub' = [sub EXCEPT ![s].at = IF sub[s].cancelled THEN "closed" ELSE "on"] /\ hub' = Round(hub) /\ UNCHANGED <<loop, lost>> /\ sub[s].at = "asked"
    BY <1>9 DEF SelectSubscribe
  <2>2. hub'.queue = hub.queue
    BY <2>1, <1>T DEF Round, Hubs
  <2>3. ghost'.owed[s] = [p \in Plugin |-> OnTheWay(p)] /\ \A t \in Sub : t # s => ghost'.owed[t] = ghost.owed[t] /\ sub'[t] = sub[t]
    <3> DEFINE f == [p \in Plugin |-> OnTheWay(p)]
    <3>1. ghost' = [ghost EXCEPT !.owed[s] = f]
      BY <1>9 DEF SelectSubscribe
    <3> HIDE DEF f
    <3>2. ghost'.owed[s] = f /\ \A t \in Sub : t # s => ghost'.owed[t] = ghost.owed[t] /\ sub'[t] = sub[t]
      BY <3>1, <2>1, <1>T DEF Ghosts
    <3> QED BY <3>2 DEF f
  <2>4. sub'[s].pending = <<>> /\ sub'[s].dropped = [p \in Plugin |-> 0]
    <3>1. sub[s].pending = <<>> /\ sub[s].dropped = [p \in Plugin |-> 0]
      BY <2>1 DEF Subscriptions
    <3> QED BY <3>1, <2>1, <1>T DEF Subscribers
  <2>5. ASSUME NEW t \in Sub, NEW p \in Plugin, sub'[t].at = "on" PROVE ghost'.owed[t][p] = OnTheWay(p)' + Held(t, p)'
    <3>0. OnTheWay(p)' = OnTheWay(p) /\ OnTheWay(p) \in Nat
      BY <2>1, <2>2, <1>W
    <3>1. CASE t # s
      <4>1. Held(t, p)' = Held(t, p)
        BY <3>1, <2>3, <1>H DEF Held
      <4> QED BY <3>0, <3>1, <4>1, <2>3, <2>5, <1>L
    <3>2. CASE t = s
      <4>1. Held(t, p)' = 0 + 0
        BY <3>2, <2>4, <1>H, WeightNone
      <4> QED BY <3>0, <3>2, <4>1, <2>3
    <3> QED BY <3>1, <3>2
  <2> QED BY <2>1, <2>5, <1>L, <1>F
<1>10. ASSUME NEW s \in Sub, Subscribe(s) \/ Cancel(s) PROVE LogsCounted'
  <2>1. UNCHANGED <<loop, lost, ghost>> /\ hub'.queue = hub.queue
    BY <1>10, <1>T DEF Subscribe, Cancel, Run, Hubs
  <2>2. ASSUME NEW t \in Sub, sub'[t].at = "on" PROVE sub[t].at = "on" /\ sub'[t].pending = sub[t].pending /\ sub'[t].dropped = sub[t].dropped
    <3>1. CASE t # s
      BY <3>1, <2>2, <1>10, <1>T DEF Subscribe, Cancel
    <3>2. CASE t = s /\ Subscribe(s)
      BY <3>2, <2>2, <1>T DEF Subscribe, Subscribers
    <3>3. CASE t = s /\ Cancel(s)
      BY <3>3, <2>2, <1>T DEF Cancel, Subscribers
    <3> QED BY <1>10, <3>1, <3>2, <3>3
  <2>3. \A p \in Plugin : OnTheWay(p)' = OnTheWay(p)
    BY <2>1, <1>W
  <2> QED BY <2>1, <2>2, <2>3, <1>L, <1>K
<1>11. ASSUME NEW s \in Sub, Deliver(s) PROVE LogsCounted'
  <2> DEFINE e == Head(sub[s].pending)
             n == IF e.kind = "log" THEN 1 + e.dropped ELSE 0
             order_ == IF e.kind \in States THEN RemoveFirst(sub[s].order, Key(e)) ELSE sub[s].order
  <2>1. sub[s].at = "on" /\ sub[s].pending # <<>> /\ hub' = Round(hub) /\ UNCHANGED <<loop, lost>>
        /\ sub' = [sub EXCEPT ![s].pending = Tail(@), ![s].order = order_]
        /\ ghost' = [ghost EXCEPT !.owed[s][e.plugin] = @ - n, !.first = FirstKnown(known')]
    BY <1>11 DEF Deliver
  <2>2. hub'.queue = hub.queue
    BY <2>1, <1>T DEF Round, Hubs
  <2>3. e.plugin \in Plugin /\ e \in Events
    BY <2>1, <1>T, AllOldTail DEF Reports, Old
  <2>4. ASSUME NEW p \in Plugin
        PROVE  Weight(sub[s].pending, p) = Unit(e, p) + Weight(Tail(sub[s].pending), p) /\ Unit(e, p) \in Nat /\ Weight(Tail(sub[s].pending), p) \in Nat
               /\ Unit(e, p) = IF p = e.plugin THEN n ELSE 0
    <3>1. Tail(sub[s].pending) \in Seq(Events)
      BY <2>1, <1>T
    <3> QED BY <3>1, <2>1, <1>T, WeightTail, EntriesFinite DEF Unit
  <2>5. n \in Nat
    BY <2>3 DEF Events
  <2> HIDE DEF e, n, order_
  <2>6. sub'[s].pending = Tail(sub[s].pending) /\ sub'[s].dropped = sub[s].dropped /\ \A t \in Sub : t # s => sub'[t] = sub[t]
    BY <2>1, <1>T DEF Subscribers
  <2>7. /\ \A t \in Sub : t # s => ghost'.owed[t] = ghost.owed[t]
        /\ \A p \in Plugin : ghost'.owed[s][p] = IF p = e.plugin THEN ghost.owed[s][p] - n ELSE ghost.owed[s][p]
    <3> DEFINE f == FirstKnown(known')
    <3>1. ghost' = [ghost EXCEPT !.owed[s][e.plugin] = @ - n, !.first = f]
      BY <2>1
    <3> HIDE DEF f
    <3>2. ghost'.owed = [ghost.owed EXCEPT ![s][e.plugin] = @ - n]
      BY <3>1, <1>T DEF Ghosts
    <3> QED BY <3>2, <2>3, <1>T
  <2>8. ASSUME NEW t \in Sub, NEW p \in Plugin, sub'[t].at = "on" PROVE ghost'.owed[t][p] = OnTheWay(p)' + Held(t, p)'
    <3>0. OnTheWay(p)' = OnTheWay(p) /\ OnTheWay(p) \in Nat
      BY <2>1, <2>2, <1>W
    <3>1. CASE t # s
      <4>1. Held(t, p)' = Held(t, p)
        BY <3>1, <2>6, <1>H DEF Held
      <4> QED BY <3>0, <3>1, <4>1, <2>6, <2>7, <2>8, <1>L
    <3>2. CASE t = s
      <4>1. Held(s, p) = Unit(e, p) + Held(s, p)'
        <5>1. sub[s].dropped[p] \in Nat
          BY <1>T
        <5> QED BY <5>1, <2>4, <2>6, <1>H DEF Held
      <4>2. ghost.owed[s][p] = OnTheWay(p) + Held(s, p)
        BY <2>1, <1>L
      <4>3. ghost'.owed[s][p] = ghost.owed[s][p] - Unit(e, p)
        BY <2>4, <2>5, <2>7, <1>H
      <4> QED BY <3>0, <3>2, <4>1, <4>2, <4>3, <2>4, <1>H
    <3> QED BY <3>1, <3>2
  <2> QED BY <2>1, <2>8, <1>L, <1>F
<1>12. ASSUME NEW p \in Plugin, ReadSnapshot(p) \/ ReadList(p) \/ Submit(p) \/ SubmitLate(p) PROVE LogsCounted'
  BY <1>12, <1>U DEF ReadSnapshot, ReadList, Submit, SubmitLate
<1>13. ASSUME NEW p \in Plugin, Reconcile(p) PROVE LogsCounted'
  <2>1. ghost'.owed = ghost.owed
    BY <1>13, <1>T DEF Reconcile, Ghosts
  <2> QED BY <1>13, <2>1, <1>U DEF Reconcile
<1>14. ASSUME Started \/ Close \/ CloseEvents \/ ReconcileReads PROVE LogsCounted'
  <2>1. hub'.queue = hub.queue
    BY <1>14, <1>T DEF Started, Close, CloseEvents, ReconcileReads, Run, Hubs
  <2> QED BY <1>14, <2>1, <1>U DEF Started, Close, CloseEvents, ReconcileReads
<1> QED BY <1>1, <1>2, <1>3, <1>4, <1>5, <1>6, <1>7, <1>8, <1>9, <1>10, <1>11, <1>12, <1>13, <1>14 DEF Next, HubStep, Drain, SelectPublish

-----------------------------------------------------------------------------
(* The list follower. *)

LEMMA ListKeptStep ==
    ASSUME Types, Types', Reports, Subscriptions, ListKept, Next PROVE ListKept'
<1>T. /\ hub \in Hubs /\ hub.queue \in Seq(Events) /\ sub \in [Sub -> Subscribers] /\ loop \in [Plugin -> Events] /\ ghost \in Ghosts
      /\ \A s \in Sub : sub[s] \in Subscribers /\ sub[s].pending \in Seq(Events)
      /\ list \in [reading : SUBSET Plugin, got : [Plugin -> Snapshots], shown : [Plugin -> Snapshots]]
  BY DEF Types, Hubs, Subscribers
<1>I. ~News(Idle)
  BY Constants_ DEF News
\* What is at rest after the step was at rest before it, and the list is not touched.
<1>K. ASSUME AtRest' => AtRest, UNCHANGED <<snap, list>> PROVE ListKept'
  BY <1>K DEF ListKept, ListRight
<1>M. ASSUME UNCHANGED <<snap, list, life, loop, sub, starter>>, hub'.queue = hub.queue, ghost'.refused = ghost.refused PROVE ListKept'
  <2>1. AtRest' => AtRest
    BY <1>M DEF AtRest
  <2> QED BY <2>1, <1>M, <1>K
<1>1. ASSUME NEW p \in Plugin, Change(p) PROVE ListKept'
  <2>1. loop' = [loop EXCEPT ![p] = Event("state", p, snap'[p], 0)]
    BY <1>1, ChangeIs
  <2>2. News(loop'[p])
    BY <2>1, <1>T DEF Event, News
  <2> QED BY <2>2 DEF ListKept, AtRest, News
<1>2. ASSUME NEW p \in Plugin, Observe(p) PROVE ListKept'
  <2> DEFINE e == Event("status", p, IF life = "starting" THEN Zero ELSE snap[p], 0)
  <2>1. loop' = [loop EXCEPT ![p] = e]
    BY <1>2 DEF Observe
  <2>2. e.kind = "status"
    BY DEF Event
  <2> HIDE DEF e
  <2>3. News(loop'[p])
    BY <2>1, <2>2, <1>T DEF News
  <2> QED BY <2>3 DEF ListKept, AtRest, News
<1>3. ASSUME NEW p \in Plugin, Log(p) PROVE ListKept'
  <2>1. loop[p] = Idle /\ UNCHANGED <<snap, list, life, hub, sub, starter>>
    BY <1>3 DEF Log
  <2>2. \A q \in Plugin : q # p => loop'[q] = loop[q]
    BY <1>3, <1>T DEF Log
  <2>3. ghost'.refused = ghost.refused
    <3> DEFINE o == [s \in Sub |-> IF sub[s].at = "on" THEN [ghost.owed[s] EXCEPT ![p] = @ + 1 - IF lost[p].session = snap[p].session THEN 0 ELSE lost[p].count] ELSE ghost.owed[s]]
    <3>1. ghost' = [ghost EXCEPT !.logs = @ + 1, !.owed = o]
      BY <1>3 DEF Log
    <3> HIDE DEF o
    <3> QED BY <3>1, <1>T DEF Ghosts
  <2>4. ASSUME AtRest', NEW q \in Plugin PROVE ~News(loop[q])
    <3>1. CASE q = p BY <3>1, <2>1, <1>I
    <3>2. CASE q # p
      <4>1. loop'[q] = loop[q] /\ ~News(loop[q])'
        BY <3>2, <2>2, <2>4 DEF AtRest
      <4> QED BY <4>1 DEF News
    <3> QED BY <3>1, <3>2
  <2>5. AtRest' => AtRest
    BY <2>1, <2>3, <2>4 DEF AtRest
  <2> QED BY <2>1, <2>5, <1>K
\* News that are published are in the queue, or are refused.
<1>P. ASSUME NEW e \in Events, News(e), e.plugin \in Plugin, hub' = Published(e), ghost' = Refusal(e) PROVE ~AtRest'
  <2>1. CASE Room
    <3>1. hub'.queue = Append(hub.queue, e)
      BY <2>1, <1>P, Announcing
    <3>2. ~Quiet(hub'.queue)
      BY <3>1, <1>P, <1>T, QuietAppend
    <3> QED BY <3>2 DEF AtRest, Quiet, News
  <2>2. CASE ~Room
    <3>1. e.plugin \in ghost'.refused
      BY <2>2, <1>P, <1>T DEF Refusal, News, Ghosts
    <3> QED BY <3>1 DEF AtRest
  <2> QED BY <2>1, <2>2
<1>4. ASSUME NEW p \in Plugin, PublishIfStarted(p) PROVE ListKept'
  <2> DEFINE e == loop[p]
  <2>1. e \in Events /\ e.plugin = p /\ e.kind # "none"
    BY <1>4, <1>T DEF PublishIfStarted, Reports, Old
  <2>2. loop' = [loop EXCEPT ![p] = Idle] /\ UNCHANGED <<snap, list, life, sub, starter>>
        /\ hub' = (IF life = "started" THEN Published(e) ELSE hub) /\ ghost' = (IF life = "started" THEN Refusal(e) ELSE ghost)
    BY <1>4 DEF PublishIfStarted
  <2>3. CASE life = "started" /\ News(e)
    BY <2>1, <2>2, <2>3, <1>P DEF ListKept
  <2>4. CASE life # "started"
    BY <2>2, <2>4 DEF ListKept, AtRest
  <2>5. CASE life = "started" /\ ~News(e)
    <3>1. ghost' = ghost
      BY <2>1, <2>2, <2>5 DEF Refusal, News
    <3>2. Quiet(hub'.queue) => Quiet(hub.queue)
      <4>1. hub'.queue = Append(hub.queue, e) \/ hub'.queue = hub.queue
        BY <2>1, <2>2, <2>5, Announcing
      <4> QED BY <4>1, <2>1, <1>T, QuietAppend
    <3>3. ASSUME AtRest', NEW q \in Plugin PROVE ~News(loop[q])
      <4>1. CASE q = p BY <4>1, <2>5
      <4>2. CASE q # p
        <5>1. loop'[q] = loop[q] /\ ~News(loop[q])'
          BY <4>2, <2>2, <3>3, <1>T DEF AtRest
        <5> QED BY <5>1 DEF News
      <4> QED BY <4>1, <4>2
    <3>4. AtRest' => Quiet(hub'.queue)
      BY DEF AtRest, Quiet, News
    <3>5. AtRest' => AtRest
      BY <2>2, <3>1, <3>2, <3>3, <3>4 DEF AtRest
    <3> QED BY <2>2, <3>5, <1>K
  <2> QED BY <2>3, <2>4, <2>5
<1>5. ASSUME NEW p \in Plugin, ReadSnapshot(p) PROVE ListKept'
  <2>1. starter'.next.kind = "discovered"
    BY <1>5 DEF ReadSnapshot, Event
  <2> QED BY <2>1 DEF ListKept, AtRest, News
<1>6. ASSUME Announce PROVE ListKept'
  <2> DEFINE e == starter.next
  <2>1. e \in Events /\ e # Idle /\ e.kind \in {"discovered", "state"} /\ e.plugin \in Plugin
    BY <1>6 DEF Announce, Reports, Old, Types
  <2>2. CASE e.kind = "discovered"
    <3>1. starter'.next.kind = "state"
      <4>1. starter' = [starter EXCEPT !.next = [e EXCEPT !.kind = "state"]] /\ starter \in [left : SUBSET Plugin, next : Events]
        BY <1>6, <2>2 DEF Announce, Types
      <4> QED BY <4>1, <2>1 DEF Events
    <3> QED BY <3>1 DEF ListKept, AtRest, News
  <2>3. CASE e.kind = "state" /\ life = "started"
    <3>1. hub' = Published(e) /\ ghost' = Refusal(e)
      BY <1>6, <2>3 DEF Announce
    <3>2. News(e)
      BY <2>3 DEF News
    <3> QED BY <3>1, <3>2, <2>1, <1>P DEF ListKept
  <2>4. CASE life # "started"
    BY <1>6, <2>4 DEF Announce, ListKept, AtRest
  <2> QED BY <2>1, <2>2, <2>3, <2>4
<1>7. ASSUME NEW p \in Plugin, ReadList(p) PROVE ListKept'
  <2> DEFINE got_ == [list.got EXCEPT ![p] = IF life = "starting" THEN Zero ELSE snap[p]]
  <2>1. p \in list.reading /\ UNCHANGED <<snap, life, loop, sub, starter, hub, ghost>>
        /\ list' = [reading |-> list.reading \ {p}, got |-> got_, shown |-> IF list.reading = {p} THEN got_ ELSE list.shown]
    BY <1>7 DEF ReadList
  <2>2. ASSUME AtRest' PROVE ListRight'
    <3>1. AtRest /\ life = "started"
      BY <2>1, <2>2 DEF AtRest
    <3>2. \A q \in Plugin : got_[q] = IF q = p THEN snap[p] ELSE list.got[q]
      BY <3>1, <1>T
    <3> HIDE DEF got_
    <3>3. list'.reading = list.reading \ {p} /\ list'.got = got_ /\ (list.reading = {p} => list'.shown = got_)
      BY <2>1
    <3>4. \A q \in Plugin \ list.reading : list.got[q] = snap[q]
      BY <3>1 DEF ListKept, ListRight
    <3>5. \A q \in Plugin \ list'.reading : list'.got[q] = snap'[q]
      BY <2>1, <3>2, <3>3, <3>4
    <3>6. list'.reading = {} => list'.shown = list'.got
      <4>1. list'.reading = {} => list.reading = {p}
        BY <2>1, <3>3
      <4> QED BY <4>1, <3>3
    <3> QED BY <3>5, <3>6 DEF ListRight
  <2> QED BY <2>2 DEF ListKept
<1>8. ASSUME NEW p \in Plugin, Reconcile(p) PROVE ListKept'
  <2>1. ghost'.refused = ghost.refused
    BY <1>8, <1>T DEF Reconcile, Ghosts
  <2> QED BY <1>8, <2>1, <1>M DEF Reconcile
<1>9. ASSUME NEW p \in Plugin, Submit(p) \/ SubmitLate(p) PROVE ListKept'
  BY <1>9, <1>M DEF Submit, SubmitLate
\* Every plugin is to be read.
<1>R. ASSUME list' = [list EXCEPT !.reading = Plugin] PROVE ListRight'
  <2>1. list'.reading = Plugin
    BY <1>R, <1>T
  <2>2. Plugin = {} => list'.shown = list'.got
    BY DEF Types
  <2> QED BY <2>1, <2>2 DEF ListRight
<1>10. ASSUME Started PROVE ListKept'
  <2>1. starter.left = Plugin /\ starter'.left = starter.left
    BY <1>10 DEF Started, Subscriptions
  <2>2. CASE Plugin = {}
    <3>1. list'.shown = list'.got
      BY <2>2 DEF Types
    <3> QED BY <3>1, <2>2 DEF ListKept, ListRight
  <2>3. CASE Plugin # {}
    BY <2>1, <2>3 DEF ListKept, AtRest
  <2> QED BY <2>2, <2>3
<1>11. ASSUME Close \/ CloseEvents PROVE ListKept'
  BY <1>11 DEF Close, CloseEvents, ListKept, AtRest
<1>12. ASSUME ReconcileReads PROVE ListKept'
  BY <1>12, <1>M DEF ReconcileReads
\* A step that leaves the follower's subscription alone, or ends it.
<1>S. ASSUME UNCHANGED <<snap, list, life, loop, starter>>, hub'.queue = hub.queue, ghost'.refused = ghost.refused,
             Follower \in Sub /\ sub'[Follower].at = "on" => sub[Follower].at = "on" /\ sub'[Follower].pending = sub[Follower].pending
      PROVE  ListKept'
  <2>1. AtRest' => AtRest
    BY <1>S DEF AtRest
  <2> QED BY <2>1, <1>S, <1>K
<1>13. ASSUME NEW s \in Sub, Subscribe(s) PROVE ListKept'
  <2>1. UNCHANGED <<snap, list, life, loop, starter, ghost>> /\ hub'.queue = hub.queue
    BY <1>13, <1>T DEF Subscribe, Run, Hubs
  <2>2. sub'[s].at # "on" /\ \A t \in Sub : t # s => sub'[t] = sub[t]
    BY <1>13, <1>T DEF Subscribe, Subscribers
  <2>3. Follower \in Sub /\ sub'[Follower].at = "on" => sub'[Follower] = sub[Follower]
    BY <2>2
  <2> QED BY <2>1, <2>3, <1>S
<1>14. ASSUME NEW s \in Sub, Cancel(s) PROVE ListKept'
  <2>1. \A t \in Sub : sub'[t].at = sub[t].at /\ sub'[t].pending = sub[t].pending
    BY <1>14, <1>T DEF Cancel, Subscribers
  <2> QED BY <1>14, <2>1, <1>S DEF Cancel
<1>15. ASSUME NEW s \in Sub, Deliver(s) PROVE ListKept'
  <2> DEFINE e == Head(sub[s].pending)
             n == IF e.kind = "log" THEN 1 + e.dropped ELSE 0
  <2>1. sub[s].at = "on" /\ sub[s].pending # <<>> /\ hub' = Round(hub) /\ UNCHANGED <<snap, life, loop, starter>>
        /\ ghost' = [ghost EXCEPT !.owed[s][e.plugin] = @ - n, !.first = FirstKnown(known')]
        /\ (s = Follower => list' = IF e.kind = "log" THEN list ELSE [list EXCEPT !.reading = Plugin])
        /\ (s # Follower => list' = list)
    BY <1>15 DEF Deliver
  <2>2. hub'.queue = hub.queue
    BY <2>1, <1>T DEF Round, Hubs
  <2>3. ghost'.refused = ghost.refused
    <3> DEFINE f == FirstKnown(known')
    <3> HIDE DEF n, f, e
    <3> QED BY <2>1, <1>T DEF Ghosts
  <2>4. sub'[s].pending = Tail(sub[s].pending) /\ sub'[s].at = sub[s].at /\ \A t \in Sub : t # s => sub'[t] = sub[t]
    BY <1>15, <1>T DEF Deliver, Subscribers
  <2>5. CASE s = Follower /\ e.kind # "log"
    <3>1. list' = [list EXCEPT !.reading = Plugin]
      BY <2>1, <2>5
    <3> QED BY <3>1, <1>R DEF ListKept
  <2>6. CASE s = Follower /\ e.kind = "log"
    <3>1. ~News(e) /\ list' = list
      BY <2>1, <2>6 DEF News
    <3>2. Quiet(sub'[s].pending) => Quiet(sub[s].pending)
      BY <2>1, <2>4, <3>1, <1>T, QuietTail
    <3>3. AtRest' => Quiet(sub'[s].pending)
      BY <2>6 DEF AtRest, Quiet, News
    <3>4. AtRest' => AtRest
      BY <2>1, <2>2, <2>3, <2>4, <2>6, <3>2, <3>3 DEF AtRest
    <3> QED BY <3>1, <3>4, <2>1, <1>K
  <2>7. CASE s # Follower
    <3>1. Follower \in Sub => sub'[Follower] = sub[Follower]
      BY <2>4, <2>7
    <3> QED BY <3>1, <2>1, <2>2, <2>3, <2>7, <1>S
  <2> QED BY <2>5, <2>6, <2>7
<1>16. ASSUME NEW quota, Dispatch(quota) PROVE ListKept'
  <2> DEFINE e == Head(hub.queue)
  <2>1. hub.queue # <<>> /\ sub' = Dispatched(e) /\ UNCHANGED <<snap, list, life, loop, starter>> /\ hub' = [hub EXCEPT !.queue = Tail(@), !.quota = quota]
    BY <1>16 DEF Dispatch
  <2>2. hub'.queue = Tail(hub.queue)
    BY <2>1, <1>T DEF Hubs
  <2>3. Event_(e)
    BY <2>1, <1>T, AllOldTail DEF Reports, Event_, Old
  <2>4. ghost'.refused = ghost.refused
    <3> DEFINE Out == UNION {PushedOut(sub[s], e) : s \in {s \in Sub : sub[s].at = "on"}}
    <3>1. ghost' = [ghost EXCEPT !.pushed = @ \cup Out]
      BY <1>16 DEF Dispatch
    <3> HIDE DEF Out
    <3> QED BY <3>1, <1>T DEF Ghosts
  <2>5. ASSUME AtRest' PROVE AtRest
    <3>1. Follower \in Sub /\ sub'[Follower].at = "on" /\ Quiet(hub'.queue) /\ Quiet(sub'[Follower].pending)
      BY <2>5 DEF AtRest, Quiet, News
    <3>2. sub[Follower].at = "on" /\ sub'[Follower] = Enqueue(sub[Follower], e)
      <4>1. sub[Follower].at # "on" => sub'[Follower] = sub[Follower]
        BY <3>1, <2>1 DEF Dispatched
      <4> QED BY <4>1, <3>1, <2>1 DEF Dispatched
    <3> HIDE DEF e
    <3>3. Quiet(sub[Follower].pending) /\ ~News(e)
      BY <3>1, <3>2, <2>3, <1>T, EnqueueGiven DEF Given
    <3>4. Quiet(hub.queue)
      BY <3>1, <3>3, <2>1, <2>2, <1>T, QuietTail DEF e
    <3> QED BY <3>1, <3>2, <3>3, <3>4, <2>1, <2>4, <2>5 DEF AtRest
  <2> QED BY <2>1, <2>5, <1>K
<1>17. ASSUME HubStops PROVE ListKept'
  <2>1. \A s \in Sub : sub'[s].at # "on"
    BY <1>17 DEF HubStops, NoSub
  <2> QED BY <2>1 DEF ListKept, AtRest
<1>18. ASSUME NEW s \in Sub, SelectSubscribe(s) PROVE ListKept'
  <2> DEFINE f == [p \in Plugin |-> OnTheWay(p)]
  <2>0. hub' = Round(hub) /\ ghost' = [ghost EXCEPT !.owed[s] = f] /\ UNCHANGED <<snap, life, loop, starter>>
        /\ sub' = [sub EXCEPT ![s].at = IF sub[s].cancelled THEN "closed" ELSE "on"]
    BY <1>18 DEF SelectSubscribe
  <2> HIDE DEF f
  <2>5. list' = IF s = Follower /\ ~sub[s].cancelled THEN [list EXCEPT !.reading = Plugin] ELSE list
    BY <1>18 DEF SelectSubscribe
  <2>1. hub' = Round(hub) /\ ghost' = [ghost EXCEPT !.owed[s] = f] /\ UNCHANGED <<snap, life, loop, starter>>
    BY <2>0
  <2>2. hub'.queue = hub.queue /\ ghost'.refused = ghost.refused
    BY <2>1, <1>T DEF Round, Hubs, Ghosts
  <2>3. CASE s = Follower /\ ~sub[s].cancelled
    BY <2>5, <2>3, <1>R DEF ListKept
  <2>4. CASE ~(s = Follower /\ ~sub[s].cancelled)
    <3>1. Follower \in Sub /\ sub'[Follower].at = "on" => sub'[Follower] = sub[Follower]
      <4>1. CASE s = Follower
        <5>1. sub' = [sub EXCEPT ![s].at = "closed"]
          BY <2>0, <2>4, <4>1
        <5>2. sub'[s].at = "closed"
          BY <5>1, <1>T DEF Subscribers
        <5> QED BY <4>1, <5>2
      <4>2. CASE s # Follower
        BY <2>0, <4>2, <1>T
      <4> QED BY <4>1, <4>2
    <3>2. list' = list
      BY <2>4, <2>5
    <3> QED BY <3>1, <3>2, <2>1, <2>2, <1>S
  <2> QED BY <2>3, <2>4
<1>19. ASSUME NEW s \in Sub, SelectRemove(s) PROVE ListKept'
  <2> DEFINE f == [p \in Plugin |-> 0]
  <2>1. hub' = Round(hub) /\ ghost' = [ghost EXCEPT !.owed[s] = f] /\ UNCHANGED <<snap, list, life, loop, starter>>
        /\ sub' = [sub EXCEPT ![s] = [NoSub EXCEPT !.at = "closed"]]
    BY <1>19 DEF SelectRemove
  <2> HIDE DEF f
  <2>2. hub'.queue = hub.queue /\ ghost'.refused = ghost.refused
    BY <2>1, <1>T DEF Round, Hubs, Ghosts
  <2>3. [NoSub EXCEPT !.at = "closed"].at = "closed"
    BY DEF NoSub
  <2>4. Follower \in Sub /\ sub'[Follower].at = "on" => sub'[Follower] = sub[Follower]
    BY <2>1, <2>3, <1>T
  <2> QED BY <2>1, <2>2, <2>4, <1>S
<1> QED BY <1>1, <1>2, <1>3, <1>4, <1>5, <1>6, <1>7, <1>8, <1>9, <1>10, <1>11, <1>12, <1>13, <1>14, <1>15, <1>16, <1>17, <1>18, <1>19 DEF Next, HubStep, Drain, SelectPublish

-----------------------------------------------------------------------------
(* The coordinator. *)

\* What the coordinator knows of a plugin is from the past.
PastOf(k, from, first, got, s) ==
    /\ k <= s.session /\ got.session <= s.session
    /\ from = Late \/ from <= s.session
    /\ first = 0 <=> k = 0
    /\ k = s.session => from \in {0, Late, s.session} \cup 1 .. (first - 1)

LEMMA ObservedIs ==
    ASSUME Types, Past, NEW q \in Plugin, NEW s \in Snapshots, s.session <= snap[q].session, Observed(q, s)
    PROVE  /\ \A p \in Plugin : p # q => known'[p] = known[p] /\ source'[p] = source[p]
           /\ PastOf(known'[q], source'[q], FirstKnown(known')[q], recon.got[q], snap[q])
           /\ \A p \in Plugin : p # q => FirstKnown(known')[p] = ghost.first[p]
           /\ Told(known[q], source[q], q) \/ s = snap[q] => Told(known'[q], source'[q], q)
<1>T. /\ known \in [Plugin -> Nat] /\ source \in [Plugin -> Nat \cup {Late}] /\ ghost.first \in [Plugin -> Nat]
      /\ known[q] \in Nat /\ source[q] \in Nat \cup {Late} /\ ghost.first[q] \in Nat
      /\ snap[q] \in Snapshots /\ snap[q].session \in Nat /\ s.session \in Nat /\ recon.got[q].session \in Nat
      /\ Late = -1
  BY DEF Types, Ghosts, Snapshots, Late
<1>P. PastOf(known[q], source[q], ghost.first[q], recon.got[q], snap[q])
  BY DEF Past, PastOf
<1> DEFINE stale == s.session # 0 /\ s.session < known[q]
           changed == s.session # 0 /\ known[q] # 0 /\ s.session > known[q]
           gone == ~stale /\ (changed \/ ~s.up)
<1>1. known' = (IF s.session > known[q] THEN [known EXCEPT ![q] = s.session] ELSE known)
      /\ source' = IF gone THEN [source EXCEPT ![q] = 0] ELSE source
  BY DEF Observed
<1>2. known'[q] = (IF s.session > known[q] THEN s.session ELSE known[q]) /\ source'[q] = IF gone THEN 0 ELSE source[q]
  BY <1>1, <1>T
<1>3. \A p \in Plugin : p # q => known'[p] = known[p] /\ source'[p] = source[p]
  BY <1>1, <1>T
<1>4. FirstKnown(known')[q] = (IF ghost.first[q] = 0 THEN known'[q] ELSE ghost.first[q])
      /\ \A p \in Plugin : FirstKnown(known')[p] = IF ghost.first[p] = 0 THEN known'[p] ELSE ghost.first[p]
  BY DEF FirstKnown
<1>5. ASSUME NEW p \in Plugin, p # q PROVE FirstKnown(known')[p] = ghost.first[p]
  <2>1. ghost.first[p] = 0 <=> known[p] = 0
    BY DEF Past
  <2> QED BY <2>1, <1>3, <1>4, <1>5
<1>6. PastOf(known'[q], source'[q], FirstKnown(known')[q], recon.got[q], snap[q])
  <2>1. CASE s.session > known[q] /\ known[q] # 0
    <3>1. gone /\ known'[q] = s.session /\ source'[q] = 0
      BY <2>1, <1>2, <1>T
    <3>2. FirstKnown(known')[q] = ghost.first[q] /\ ghost.first[q] # 0 /\ known'[q] # 0
      BY <2>1, <3>1, <1>4, <1>P, <1>T DEF PastOf
    <3> QED BY <3>1, <3>2, <1>P, <1>T DEF PastOf
  <2>2. CASE s.session > known[q] /\ known[q] = 0
    <3>1. known'[q] = s.session /\ source'[q] \in {0, source[q]} /\ FirstKnown(known')[q] = s.session
      BY <2>2, <1>2, <1>4, <1>P DEF PastOf
    <3>2. source'[q] = Late \/ (source'[q] \in Nat /\ source'[q] <= snap[q].session)
      BY <3>1, <1>P, <1>T DEF PastOf
    <3> QED BY <2>2, <3>1, <3>2, <1>P, <1>T DEF PastOf
  <2>3. CASE ~(s.session > known[q])
    <3>1. known'[q] = known[q] /\ source'[q] \in {0, source[q]}
      BY <2>3, <1>2
    <3>2. FirstKnown(known')[q] = ghost.first[q]
      BY <3>1, <1>4, <1>P DEF PastOf
    <3> QED BY <3>1, <3>2, <1>P, <1>T DEF PastOf
  <2> QED BY <2>1, <2>2, <2>3
<1>7. ASSUME Told(known[q], source[q], q) PROVE Told(known'[q], source'[q], q)
  <2>1. known'[q] = known[q] /\ source'[q] \in {0, source[q]}
    BY <1>2, <1>7, <1>T DEF Told
  <2> QED BY <2>1, <1>7 DEF Told
<1>8. ASSUME s = snap[q] PROVE Told(known'[q], source'[q], q)
  <2>1. known[q] <= s.session
    BY <1>8, <1>P DEF PastOf
  <2>2. known'[q] = s.session /\ ~stale
    BY <2>1, <1>2, <1>T
  <2>3. ~s.up => source'[q] = 0
    BY <2>2, <1>2
  <2> QED BY <2>2, <2>3, <1>8 DEF Told
<1> QED BY <1>3, <1>5, <1>6, <1>7, <1>8

LEMMA PastStep ==
    ASSUME Types, Types', Reports, Past, Next PROVE Past'
<1>T. /\ known \in [Plugin -> Nat] /\ source \in [Plugin -> Nat \cup {Late}] /\ ghost \in Ghosts /\ ghost.first \in [Plugin -> Nat]
      /\ recon \in [at : {"none", "applying"}, left : SUBSET Plugin, got : [Plugin -> Snapshots]]
      /\ \A p \in Plugin : snap[p] \in Snapshots /\ snap[p].session \in Nat /\ recon.got[p] \in Snapshots /\ recon.got[p].session \in Nat
                           /\ known[p] \in Nat /\ source[p] \in Nat \cup {Late} /\ ghost.first[p] \in Nat
      /\ Late = -1
  BY DEF Types, Ghosts, Snapshots, Late
<1>P. \A p \in Plugin : PastOf(known[p], source[p], ghost.first[p], recon.got[p], snap[p])
  BY DEF Past, PastOf
<1>F. ASSUME \A p \in Plugin : PastOf(known'[p], source'[p], ghost'.first[p], recon'.got[p], snap'[p]) PROVE Past'
  BY <1>F DEF Past, PastOf
<1>U. ASSUME UNCHANGED <<known, source, snap, recon>>, ghost'.first = ghost.first PROVE Past'
  BY <1>U, <1>P, <1>F
<1>1. ASSUME NEW p \in Plugin, Change(p) PROVE Past'
  <2>1. /\ UNCHANGED <<known, source, recon, ghost>>
        /\ \A q \in Plugin : q # p => snap'[q] = snap[q]
        /\ (snap[p].up => snap'[p].session = snap[p].session) /\ (~snap[p].up => snap[p].session < snap'[p].session) /\ snap'[p].session \in Nat
    BY <1>1, ChangeIs
  <2>2. PastOf(known[p], source[p], ghost.first[p], recon.got[p], snap'[p])
    <3>1. CASE snap'[p].session = snap[p].session
      BY <3>1, <1>P DEF PastOf
    <3>2. CASE snap[p].session < snap'[p].session
      BY <3>2, <2>1, <1>P, <1>T DEF PastOf
    <3> QED BY <3>1, <3>2, <2>1
  <2>3. \A q \in Plugin : PastOf(known'[q], source'[q], ghost'.first[q], recon'.got[q], snap'[q])
    BY <2>1, <2>2, <1>P
  <2> QED BY <2>3, <1>F
<1>O. ASSUME NEW q \in Plugin, NEW s \in Snapshots, s.session <= snap[q].session, Observed(q, s), snap' = snap,
             ghost'.first = FirstKnown(known'), \A p \in Plugin : recon'.got[p] = recon.got[p] \/ recon'.got[p] = Zero
      PROVE  Past'
  <2>1. \A p \in Plugin : PastOf(known'[p], source'[p], ghost'.first[p], recon.got[p], snap[p])
    BY <1>O, <1>P, ObservedIs
  <2>2. Zero.session = 0
    BY Constants_
  <2>3. ASSUME NEW p \in Plugin PROVE PastOf(known'[p], source'[p], ghost'.first[p], recon'.got[p], snap'[p])
    <3>1. recon'.got[p].session <= snap[p].session
      BY <2>1, <2>2, <1>O, <1>T DEF PastOf
    <3> QED BY <3>1, <2>1, <1>O DEF PastOf
  <2> QED BY <2>3, <1>F
<1>2. ASSUME NEW p \in Plugin, Reconcile(p) PROVE Past'
  <2>1. Observed(p, recon.got[p]) /\ snap' = snap
    BY <1>2 DEF Reconcile
  <2>2. ghost'.first = FirstKnown(known')
    <3> DEFINE f == FirstKnown(known')
    <3>1. ghost' = [ghost EXCEPT !.first = f]
      BY <1>2 DEF Reconcile
    <3> HIDE DEF f
    <3>2. ghost'.first = f
      BY <3>1, <1>T DEF Ghosts
    <3> QED BY <3>2 DEF f
  <2>3. \A q \in Plugin : recon'.got[q] = recon.got[q] \/ recon'.got[q] = Zero
    <3>1. recon' = [recon EXCEPT !.left = @ \ {p}, !.got[p] = Zero]
      BY <1>2 DEF Reconcile
    <3> QED BY <3>1, <1>T
  <2>4. recon.got[p].session <= snap[p].session
    BY <1>P DEF PastOf
  <2> QED BY <2>1, <2>2, <2>3, <2>4, <1>T, <1>O
<1>3. ASSUME NEW s \in Sub, Deliver(s) PROVE Past'
  <2> DEFINE e == Head(sub[s].pending)
             n == IF e.kind = "log" THEN 1 + e.dropped ELSE 0
             f == FirstKnown(known')
  <2>1. sub[s].pending # <<>> /\ UNCHANGED <<snap, recon>> /\ ghost' = [ghost EXCEPT !.owed[s][e.plugin] = @ - n, !.first = f]
        /\ (UNCHANGED <<known, source>> \/ Observed(e.plugin, e.snap))
    BY <1>3 DEF Deliver
  <2>2. ghost'.first = f
    <3> HIDE DEF f, n, e
    <3> QED BY <2>1, <1>T DEF Ghosts
  <2>3. e.plugin \in Plugin /\ e.snap \in Snapshots /\ e.snap.session <= snap[e.plugin].session
    <3>1. sub[s].pending \in Seq(Events) /\ AllOld(sub[s].pending)
      BY DEF Types, Subscribers, Reports
    <3>2. e \in Events /\ Old(e)
      BY <2>1, <3>1, AllOldTail
    <3> QED BY <3>2 DEF Old, Events
  <2> HIDE DEF e
  <2>4. CASE UNCHANGED <<known, source>>
    <3>1. \A p \in Plugin : f[p] = ghost.first[p]
      BY <2>4, <1>P DEF FirstKnown, PastOf
    <3>2. \A p \in Plugin : PastOf(known'[p], source'[p], ghost'.first[p], recon'.got[p], snap'[p])
      <4> HIDE DEF f
      <4> QED BY <2>1, <2>2, <2>4, <3>1, <1>P
    <3> QED BY <3>2, <1>F
  <2>5. CASE Observed(e.plugin, e.snap)
    BY <2>1, <2>2, <2>3, <2>5, <1>O
  <2> QED BY <2>1, <2>4, <2>5
<1>4. ASSUME NEW p \in Plugin, Submit(p) \/ SubmitLate(p) PROVE Past'
  <2>1. UNCHANGED <<known, snap, recon, ghost>> /\ source'[p] \in {snap[p].session, Late} /\ \A q \in Plugin : q # p => source'[q] = source[q]
    BY <1>4, <1>T DEF Submit, SubmitLate
  <2>2. PastOf(known[p], source'[p], ghost.first[p], recon.got[p], snap[p])
    BY <2>1, <1>P, <1>T DEF PastOf
  <2>3. \A q \in Plugin : PastOf(known'[q], source'[q], ghost'.first[q], recon'.got[q], snap'[q])
    BY <2>1, <2>2, <1>P
  <2> QED BY <2>3, <1>F
<1>5. ASSUME ReconcileReads PROVE Past'
  <2>1. UNCHANGED <<known, source, snap, ghost>> /\ recon'.got = snap
    BY <1>5 DEF ReconcileReads
  <2>2. \A q \in Plugin : PastOf(known'[q], source'[q], ghost'.first[q], recon'.got[q], snap'[q])
    BY <2>1, <1>P, <1>T DEF PastOf
  <2> QED BY <2>2, <1>F
<1>6. ASSUME NEW e \in Events, ghost' = Refusal(e) PROVE ghost'.first = ghost.first
  BY <1>6, Announcing
<1>7. ASSUME NEW p \in Plugin, Observe(p) \/ PublishIfStarted(p) \/ ReadSnapshot(p) \/ ReadList(p) PROVE Past'
  <2>1. ghost' = ghost \/ ghost' = Refusal(loop[p])
    BY <1>7 DEF Observe, PublishIfStarted, ReadSnapshot, ReadList
  <2>2. ghost'.first = ghost.first
    BY <2>1, <1>6 DEF Types
  <2> QED BY <1>7, <2>2, <1>U DEF Observe, PublishIfStarted, ReadSnapshot, ReadList
<1>8. ASSUME NEW p \in Plugin, Log(p) PROVE Past'
  <2> DEFINE o == [s \in Sub |-> IF sub[s].at = "on" THEN [ghost.owed[s] EXCEPT ![p] = @ + 1 - IF lost[p].session = snap[p].session THEN 0 ELSE lost[p].count] ELSE ghost.owed[s]]
  <2>1. ghost' = [ghost EXCEPT !.logs = @ + 1, !.owed = o]
    BY <1>8 DEF Log
  <2> HIDE DEF o
  <2>2. ghost'.first = ghost.first
    BY <2>1, <1>T DEF Ghosts
  <2> QED BY <1>8, <2>2, <1>U DEF Log
<1>9. ASSUME Announce PROVE Past'
  <2>1. ghost' = ghost \/ ghost' = Refusal(starter.next)
    BY <1>9 DEF Announce
  <2>2. ghost'.first = ghost.first
    BY <2>1, <1>6 DEF Types
  <2> QED BY <1>9, <2>2, <1>U DEF Announce
<1>10. ASSUME Started \/ Close \/ CloseEvents PROVE Past'
  BY <1>10, <1>U DEF Started, Close, CloseEvents
<1>11. ASSUME NEW s \in Sub, Subscribe(s) \/ Cancel(s) PROVE Past'
  BY <1>11, <1>U DEF Subscribe, Cancel
<1>12. ASSUME NEW quota, Dispatch(quota) PROVE Past'
  <2> DEFINE Out == UNION {PushedOut(sub[s], Head(hub.queue)) : s \in {s \in Sub : sub[s].at = "on"}}
  <2>1. ghost' = [ghost EXCEPT !.pushed = @ \cup Out]
    BY <1>12 DEF Dispatch
  <2> HIDE DEF Out
  <2>2. ghost'.first = ghost.first
    BY <2>1, <1>T DEF Ghosts
  <2> QED BY <1>12, <2>2, <1>U DEF Dispatch
<1>13. ASSUME HubStops PROVE Past'
  <2> DEFINE o == [s \in Sub |-> [p \in Plugin |-> 0]]
  <2>1. ghost' = [ghost EXCEPT !.owed = o]
    BY <1>13 DEF HubStops
  <2> HIDE DEF o
  <2>2. ghost'.first = ghost.first
    BY <2>1, <1>T DEF Ghosts
  <2> QED BY <1>13, <2>2, <1>U DEF HubStops
<1>14. ASSUME NEW s \in Sub, SelectSubscribe(s) \/ SelectRemove(s) PROVE Past'
  <2> DEFINE o == [p \in Plugin |-> OnTheWay(p)]
             z == [p \in Plugin |-> 0]
  <2>1. ghost' = [ghost EXCEPT !.owed[s] = o] \/ ghost' = [ghost EXCEPT !.owed[s] = z]
    BY <1>14 DEF SelectSubscribe, SelectRemove
  <2> HIDE DEF o, z
  <2>2. ghost'.first = ghost.first
    BY <2>1, <1>T DEF Ghosts
  <2> QED BY <1>14, <2>2, <1>U DEF SelectSubscribe, SelectRemove
<1> QED BY <1>1, <1>2, <1>3, <1>4, <1>5, <1>7, <1>8, <1>9, <1>10, <1>11, <1>12, <1>13, <1>14 DEF Next, HubStep, Drain, SelectPublish

\* What CoordinatorTold says of one plugin.
ToldOrComing(k, from, e, queue, pending, left, got, p) ==
    \/ Told(k, from, p)
    \/ Coming(e, queue, pending, p)
    \/ p \in left /\ got = snap[p]

LEMMA ToldFrom ==
    ASSUME UNCHANGED snap,
           Reconciled' => \A p \in Plugin \ (ghost'.refused \cup ghost'.pushed) :
              ToldOrComing(known'[p], source'[p], loop'[p], hub'.queue, sub'[Coordinator].pending, recon'.left, recon'.got[p], p)
    PROVE  CoordinatorTold'
BY DEF ToldOrComing, CoordinatorTold, Told, Coming, Current, Of, SomeCurrent, AllCurrent

\* An event that is published, or refused, seen from plugin q.
LEMMA Publishing ==
    ASSUME Types, NEW e \in Events, e.plugin \in Plugin, NEW q \in Plugin, q \notin Refusal(e).refused \cup Refusal(e).pushed, NEW pending
    PROVE  /\ Current(e, q) => SomeCurrent(Published(e).queue, q)
           /\ (Of(e, q) => e.snap = snap[q]) /\ (SomeCurrent(hub.queue, q) \/ (AllCurrent(hub.queue, q) /\ SomeCurrent(pending, q)))
                 => SomeCurrent(Published(e).queue, q) \/ (AllCurrent(Published(e).queue, q) /\ SomeCurrent(pending, q))
           /\ q \in ghost.refused \cup ghost.pushed => e.kind # "log" /\ e.plugin = q /\ e.snap = snap[q]
<1>T. hub.queue \in Seq(Events) /\ ghost \in Ghosts /\ ghost.refused \in SUBSET Plugin /\ ghost.pushed \in SUBSET Plugin
  BY DEF Types, Hubs, Ghosts
<1>1. Current(e, q) => Room
  <2>1. ASSUME Current(e, q), ~Room PROVE FALSE
    <3>1. e.kind # "log" /\ e.plugin = q
      BY <2>1 DEF Current, Of, States
    <3>2. q \in Refusal(e).refused
      BY <3>1, <2>1, <1>T DEF Refusal, Ghosts
    <3> QED BY <3>2
  <2> QED BY <2>1
<1>2. CASE Room
  <2>1. Published(e).queue = Append(hub.queue, e)
    BY <1>2, Announcing
  <2>2. Current(e, q) => SomeCurrent(Append(hub.queue, e), q)
    BY <1>T, SomeCurrentAppend DEF Current
  <2>3. (Of(e, q) => e.snap = snap[q]) /\ SomeCurrent(hub.queue, q) => SomeCurrent(Append(hub.queue, e), q)
    BY <1>T, SomeCurrentAppend
  <2>4. (Of(e, q) => e.snap = snap[q]) /\ AllCurrent(hub.queue, q) => AllCurrent(Append(hub.queue, e), q)
    BY <1>T, AllCurrentAppend
  <2>5. q \in ghost.refused \cup ghost.pushed => e.kind # "log" /\ e.plugin = q /\ e.snap = snap[q]
    <3>1. ASSUME ~(e.kind # "log" /\ e.plugin = q /\ e.snap = snap[q]), q \in ghost.refused \cup ghost.pushed PROVE FALSE
      <4>1. CASE e.kind = "log"
        <5>1. Refusal(e) = ghost
          BY <4>1 DEF Refusal
        <5> QED BY <5>1, <3>1
      <4>2. CASE e.kind # "log"
        <5> DEFINE told == IF Room /\ e.snap = snap[e.plugin] THEN {e.plugin} ELSE {}
        <5>1. q \notin told
          BY <3>1, <4>2
        <5>2. Refusal(e).refused = (ghost.refused \ told) \cup (IF Room THEN {} ELSE {e.plugin}) /\ Refusal(e).pushed = ghost.pushed \ told
          BY <4>2, <1>T DEF Refusal, Ghosts
        <5> HIDE DEF told
        <5> QED BY <5>1, <5>2, <3>1
      <4> QED BY <4>1, <4>2
    <3> QED BY <3>1
  <2> QED BY <2>1, <2>2, <2>3, <2>4, <2>5
<1>3. CASE ~Room
  <2>1. Published(e).queue = hub.queue
    BY <1>3, Announcing
  <2>2. q \notin ghost.refused \cup ghost.pushed
    <3>1. CASE e.kind = "log"
      BY <3>1 DEF Refusal
    <3>2. CASE e.kind # "log"
      <4>1. Refusal(e).refused = (ghost.refused \ {}) \cup {e.plugin} /\ Refusal(e).pushed = ghost.pushed \ {}
        BY <3>2, <1>3, <1>T DEF Refusal, Ghosts
      <4> QED BY <4>1
    <3> QED BY <3>1, <3>2
  <2> QED BY <2>1, <2>2, <1>1, <1>3
<1> QED BY <1>2, <1>3

LEMMA CoordinatorToldStep ==
    ASSUME Types, Types', Reports, Subscriptions, Past, CoordinatorTold, Next PROVE CoordinatorTold'
<1> DEFINE C == sub[Coordinator]
<1>T. /\ hub \in Hubs /\ hub.queue \in Seq(Events) /\ sub \in [Sub -> Subscribers] /\ loop \in [Plugin -> Events] /\ ghost \in Ghosts
      /\ \A s \in Sub : sub[s] \in Subscribers /\ sub[s].pending \in Seq(Events)
      /\ recon \in [at : {"none", "applying"}, left : SUBSET Plugin, got : [Plugin -> Snapshots]]
      /\ known \in [Plugin -> Nat] /\ source \in [Plugin -> Nat \cup {Late}] /\ ghost.refused \in SUBSET Plugin /\ ghost.pushed \in SUBSET Plugin
  BY DEF Types, Hubs, Subscribers, Ghosts
<1>C. Reconciled => \A p \in Plugin \ (ghost.refused \cup ghost.pushed) :
         ToldOrComing(known[p], source[p], loop[p], hub.queue, C.pending, recon.left, recon.got[p], p)
  BY DEF CoordinatorTold, ToldOrComing
\* Nothing that concerns the coordinator changes.
<1>U. ASSUME UNCHANGED <<snap, known, source, loop, recon>>, hub'.queue = hub.queue, ghost'.refused = ghost.refused, ghost'.pushed = ghost.pushed,
             Coordinator \in Sub => sub'[Coordinator].at = C.at /\ sub'[Coordinator].pending = C.pending, Reconciled' => life = "started"
      PROVE  CoordinatorTold'
  <2>1. Reconciled' => Reconciled
    BY <1>U DEF Reconciled
  <2>2. Reconciled' => sub'[Coordinator].pending = C.pending
    BY <1>U DEF Reconciled
  <2> HIDE DEF C
  <2> QED BY <2>1, <2>2, <1>U, <1>C, ToldFrom
<1>1. ASSUME NEW p \in Plugin, Change(p) PROVE CoordinatorTold'
  <2>1. /\ UNCHANGED <<life, known, source, recon, ghost, hub, sub>> /\ loop' = [loop EXCEPT ![p] = Event("state", p, snap'[p], 0)]
        /\ \A q \in Plugin : q # p => snap'[q] = snap[q]
    BY <1>1, ChangeIs
  <2>2. loop'[p] = Event("state", p, snap'[p], 0) /\ \A q \in Plugin : q # p => loop'[q] = loop[q]
    BY <2>1, <1>T
  <2>3. SUFFICES ASSUME Reconciled', NEW q \in Plugin \ (ghost'.refused \cup ghost'.pushed)
                 PROVE  (ToldOrComing(known[q], source[q], loop[q], hub.queue, C.pending, recon.left, recon.got[q], q))'
    BY DEF CoordinatorTold, ToldOrComing
  <2>4. CASE q = p
    BY <2>2, <2>4 DEF ToldOrComing, Coming, Current, Of, Event, States
  <2>5. CASE q # p
    <3>1. Reconciled /\ q \in Plugin \ (ghost.refused \cup ghost.pushed)
      BY <2>1, <2>3 DEF Reconciled
    <3>2. ToldOrComing(known[q], source[q], loop[q], hub.queue, C.pending, recon.left, recon.got[q], q)
      BY <3>1, <1>C
    <3>3. snap'[q] = snap[q] /\ loop'[q] = loop[q]
      BY <2>1, <2>2, <2>5
    <3> QED BY <3>2, <3>3, <2>1 DEF ToldOrComing, Told, Coming, Current, Of, SomeCurrent, AllCurrent
  <2> QED BY <2>4, <2>5
<1>2. ASSUME NEW p \in Plugin, Observe(p) PROVE CoordinatorTold'
  <2> DEFINE e == Event("status", p, IF life = "starting" THEN Zero ELSE snap[p], 0)
  <2>1. loop[p] = Idle /\ loop' = [loop EXCEPT ![p] = e] /\ UNCHANGED <<life, snap, known, source, recon, ghost, hub, sub>>
    BY <1>2 DEF Observe
  <2>2. life = "started" => Current(e, p)
    BY DEF Event, Current, Of, States
  <2> HIDE DEF e, C
  <2>3. \A q \in Plugin : loop'[q] = IF q = p THEN e ELSE loop[q]
    BY <2>1, <1>T
  <2>4. ASSUME Reconciled', NEW q \in Plugin \ (ghost'.refused \cup ghost'.pushed)
        PROVE  ToldOrComing(known'[q], source'[q], loop'[q], hub'.queue, sub'[Coordinator].pending, recon'.left, recon'.got[q], q)
    <3>1. Reconciled /\ life = "started"
      BY <2>1, <2>4 DEF Reconciled
    <3>2. CASE q = p
      BY <3>1, <3>2, <2>2, <2>3 DEF ToldOrComing, Coming
    <3>3. CASE q # p
      <4>1. ToldOrComing(known[q], source[q], loop[q], hub.queue, C.pending, recon.left, recon.got[q], q)
        BY <3>1, <2>1, <2>4, <1>C
      <4> QED BY <4>1, <3>3, <2>1, <2>3 DEF C
    <3> QED BY <3>2, <3>3
  <2> QED BY <2>1, <2>4, ToldFrom
<1>3. ASSUME NEW p \in Plugin, Log(p) PROVE CoordinatorTold'
  <2> DEFINE e == Event("log", p, Zero, IF lost[p].session = snap[p].session THEN lost[p].count ELSE 0)
             o == [s \in Sub |-> IF sub[s].at = "on" THEN [ghost.owed[s] EXCEPT ![p] = @ + 1 - IF lost[p].session = snap[p].session THEN 0 ELSE lost[p].count] ELSE ghost.owed[s]]
  <2>1. loop[p] = Idle /\ loop' = [loop EXCEPT ![p] = e] /\ UNCHANGED <<life, snap, known, source, recon, hub, sub>>
        /\ ghost' = [ghost EXCEPT !.logs = @ + 1, !.owed = o]
    BY <1>3 DEF Log
  <2>2. ~Of(e, p) /\ ~Of(Idle, p) /\ ~Current(Idle, p)
    BY DEF Event, Of, Current, States, Idle
  <2> HIDE DEF e, o, C
  <2>3. \A q \in Plugin : loop'[q] = IF q = p THEN e ELSE loop[q]
    BY <2>1, <1>T
  <2>4. ghost'.refused = ghost.refused /\ ghost'.pushed = ghost.pushed
    BY <2>1, <1>T DEF Ghosts
  <2>5. ASSUME Reconciled', NEW q \in Plugin \ (ghost'.refused \cup ghost'.pushed)
        PROVE  ToldOrComing(known'[q], source'[q], loop'[q], hub'.queue, sub'[Coordinator].pending, recon'.left, recon'.got[q], q)
    <3>1. Reconciled
      BY <2>1, <2>5 DEF Reconciled
    <3>2. ToldOrComing(known[q], source[q], loop[q], hub.queue, C.pending, recon.left, recon.got[q], q)
      BY <3>1, <2>4, <2>5, <1>C
    <3>3. Coming(loop[q], hub.queue, C.pending, q) => Coming(loop'[q], hub.queue, C.pending, q)
      <4>1. CASE q = p
        BY <4>1, <2>1, <2>2, <2>3 DEF Coming
      <4>2. CASE q # p
        BY <4>2, <2>3
      <4> QED BY <4>1, <4>2
    <3> QED BY <3>2, <3>3, <2>1 DEF C, ToldOrComing
  <2> QED BY <2>1, <2>5, ToldFrom
<1>4. ASSUME NEW p \in Plugin, PublishIfStarted(p) PROVE CoordinatorTold'
  <2> DEFINE e == loop[p]
  <2>1. e \in Events /\ e.plugin = p /\ e.kind \notin {"none", "discovered"}
    BY <1>4, <1>T DEF PublishIfStarted, Reports, Old
  <2>2. loop' = [loop EXCEPT ![p] = Idle] /\ UNCHANGED <<life, snap, known, source, recon, sub>>
        /\ hub' = (IF life = "started" THEN Published(e) ELSE hub) /\ ghost' = (IF life = "started" THEN Refusal(e) ELSE ghost)
    BY <1>4 DEF PublishIfStarted
  <2>3. \A q \in Plugin : loop'[q] = IF q = p THEN Idle ELSE loop[q]
    BY <2>2, <1>T
  <2>4. ASSUME NEW q PROVE ~Of(Idle, q)
    BY DEF Of, Idle, States
  <2>5. Current(e, p) <=> e.kind # "log" /\ e.snap = snap[p]
    BY <2>1 DEF Current, Of, States, Events, Kinds
  <2>6. \A q \in Plugin : q # p => ~Of(e, q) /\ ~Current(e, q)
    BY <2>1 DEF Of, Current
  <2> HIDE DEF C
  <2>7. ASSUME Reconciled', NEW q \in Plugin \ (ghost'.refused \cup ghost'.pushed)
        PROVE  ToldOrComing(known'[q], source'[q], loop'[q], hub'.queue, sub'[Coordinator].pending, recon'.left, recon'.got[q], q)
    <3>1. Reconciled /\ hub' = Published(e) /\ ghost' = Refusal(e)
      BY <2>2, <2>7 DEF Reconciled
    <3>2. /\ Current(e, q) => SomeCurrent(hub'.queue, q)
          /\ (Of(e, q) => e.snap = snap[q]) /\ (SomeCurrent(hub.queue, q) \/ (AllCurrent(hub.queue, q) /\ SomeCurrent(C.pending, q)))
                 => SomeCurrent(hub'.queue, q) \/ (AllCurrent(hub'.queue, q) /\ SomeCurrent(C.pending, q))
          /\ q \in ghost.refused \cup ghost.pushed => e.kind # "log" /\ e.plugin = q /\ e.snap = snap[q]
      <4> HIDE DEF e
      <4> QED BY <3>1, <2>1, <2>7, Publishing
    <3>3. CASE Current(e, p) /\ q = p
      BY <3>2, <3>3, <2>3, <2>4 DEF ToldOrComing, Coming
    <3>4. CASE ~(Current(e, p) /\ q = p)
      <4>1. ToldOrComing(known[q], source[q], loop[q], hub.queue, C.pending, recon.left, recon.got[q], q)
        BY <3>1, <3>2, <3>4, <2>1, <2>5, <2>7, <1>C
      <4>2. Coming(loop[q], hub.queue, C.pending, q) => Coming(loop'[q], hub'.queue, C.pending, q)
        <5>1. CASE q = p
          BY <5>1, <3>2, <3>4, <2>3, <2>4 DEF Coming
        <5>2. CASE q # p
          BY <5>2, <3>2, <2>3, <2>6 DEF Coming
        <5> QED BY <5>1, <5>2
      <4> HIDE DEF e
      <4> QED BY <4>1, <4>2, <2>2 DEF ToldOrComing, C
    <3> QED BY <3>3, <3>4
  <2> QED BY <2>2, <2>7, ToldFrom
\* Start is over once the list is reconciled.
<1>5. ASSUME (\E p \in Plugin : ReadSnapshot(p)) \/ Started \/ Announce PROVE CoordinatorTold'
  <2>1. ~StartIsOver
    BY <1>5 DEF ReadSnapshot, Started, Announce, StartIsOver
  <2>2. recon.at = "none" /\ recon' = recon
    BY <2>1, <1>5, <1>T DEF Subscriptions, ReadSnapshot, Started, Announce
  <2> QED BY <2>2 DEF CoordinatorTold, Reconciled
<1>6. ASSUME NEW p \in Plugin, ReadList(p) PROVE CoordinatorTold'
  BY <1>6, <1>U DEF ReadList, Reconciled
<1>7. ASSUME NEW p \in Plugin, Reconcile(p) PROVE CoordinatorTold'
  <2> DEFINE f == FirstKnown(known')
  <2>1. /\ UNCHANGED <<life, snap, loop, hub, sub>> /\ ghost' = [ghost EXCEPT !.first = f] /\ Observed(p, recon.got[p])
        /\ recon' = [recon EXCEPT !.left = @ \ {p}, !.got[p] = Zero] /\ p \in recon.left
    BY <1>7 DEF Reconcile
  <2> HIDE DEF f, C
  <2>2. recon.got[p] \in Snapshots /\ recon.got[p].session <= snap[p].session
    BY <1>T DEF Past
  <2>3. ghost'.refused = ghost.refused /\ ghost'.pushed = ghost.pushed
    BY <2>1, <1>T DEF Ghosts
  <2>4. recon'.at = recon.at /\ recon'.left = recon.left \ {p} /\ \A q \in Plugin : q # p => recon'.got[q] = recon.got[q]
    BY <2>1, <1>T
  <2>5. ASSUME Reconciled', NEW q \in Plugin \ (ghost'.refused \cup ghost'.pushed)
        PROVE  ToldOrComing(known'[q], source'[q], loop'[q], hub'.queue, sub'[Coordinator].pending, recon'.left, recon'.got[q], q)
    <3>1. ToldOrComing(known[q], source[q], loop[q], hub.queue, C.pending, recon.left, recon.got[q], q)
      BY <2>1, <2>3, <2>4, <2>5, <1>C DEF Reconciled
    <3>2. CASE q = p
      <4>1. Told(known[p], source[p], p) \/ recon.got[p] = snap[p] => Told(known'[p], source'[p], p)
        BY <2>1, <2>2, ObservedIs
      <4> QED BY <3>1, <3>2, <4>1, <2>1 DEF ToldOrComing, C
    <3>3. CASE q # p
      <4>1. known'[q] = known[q] /\ source'[q] = source[q]
        BY <3>3, <2>1, <2>2, ObservedIs
      <4> QED BY <3>1, <3>3, <4>1, <2>1, <2>4 DEF ToldOrComing, C
    <3> QED BY <3>2, <3>3
  <2> QED BY <2>1, <2>5, ToldFrom
<1>8. ASSUME NEW p \in Plugin, Submit(p) \/ SubmitLate(p) PROVE CoordinatorTold'
  <2>1. /\ UNCHANGED <<life, snap, loop, hub, sub, known, recon, ghost>> /\ \A q \in Plugin : q # p => source'[q] = source[q]
        /\ snap[p].up \/ source'[p] = Late
    BY <1>8, <1>T DEF Submit, SubmitLate
  <2> HIDE DEF C
  <2>2. ASSUME Reconciled', NEW q \in Plugin \ (ghost'.refused \cup ghost'.pushed)
        PROVE  ToldOrComing(known'[q], source'[q], loop'[q], hub'.queue, sub'[Coordinator].pending, recon'.left, recon'.got[q], q)
    <3>1. ToldOrComing(known[q], source[q], loop[q], hub.queue, C.pending, recon.left, recon.got[q], q)
      BY <2>1, <2>2, <1>C DEF Reconciled
    <3>2. Told(known[q], source[q], q) => Told(known[q], source'[q], q)
      BY <2>1 DEF Told
    <3> QED BY <3>1, <3>2, <2>1 DEF ToldOrComing, C
  <2> QED BY <2>1, <2>2, ToldFrom
<1>9. ASSUME Close \/ CloseEvents PROVE CoordinatorTold'
  BY <1>9 DEF Close, CloseEvents, CoordinatorTold, Reconciled
<1>10. ASSUME ReconcileReads PROVE CoordinatorTold'
  <2>1. UNCHANGED snap /\ recon' = [at |-> "applying", left |-> Plugin, got |-> snap]
    BY <1>10 DEF ReconcileReads
  <2> QED BY <2>1, ToldFrom DEF ToldOrComing
<1>11. ASSUME NEW s \in Sub, Subscribe(s) PROVE CoordinatorTold'
  <2>1. s # Coordinator
    BY <1>11 DEF Subscribe, Subscriptions
  <2>2. Coordinator \in Sub => sub'[Coordinator] = C
    BY <2>1, <1>11, <1>T DEF Subscribe
  <2>3. hub'.queue = hub.queue
    BY <1>11, <1>T DEF Subscribe, Run, Hubs
  <2> QED BY <1>11, <2>2, <2>3, <1>U DEF Subscribe, Reconciled
<1>12. ASSUME NEW s \in Sub, Cancel(s) PROVE CoordinatorTold'
  <2>1. \A t \in Sub : sub'[t].at = sub[t].at /\ sub'[t].pending = sub[t].pending
    BY <1>12, <1>T DEF Cancel, Subscribers
  <2> QED BY <1>12, <2>1, <1>U DEF Cancel, Reconciled
<1>13. ASSUME NEW s \in Sub, Deliver(s) PROVE CoordinatorTold'
  <2> DEFINE e == Head(sub[s].pending)
             n == IF e.kind = "log" THEN 1 + e.dropped ELSE 0
             f == FirstKnown(known')
  <2>1. sub[s].at = "on" /\ sub[s].pending # <<>> /\ hub' = Round(hub) /\ UNCHANGED <<life, snap, loop, recon>>
        /\ ghost' = [ghost EXCEPT !.owed[s][e.plugin] = @ - n, !.first = f]
        /\ (s = Follower => UNCHANGED <<known, source>>)
        /\ (s # Follower => IF e.kind = "log" THEN UNCHANGED <<known, source>> ELSE Observed(e.plugin, e.snap))
    BY <1>13 DEF Deliver
  <2>2. hub'.queue = hub.queue
    BY <2>1, <1>T DEF Round, Hubs
  <2>3. sub'[s].pending = Tail(sub[s].pending) /\ sub'[s].at = sub[s].at /\ \A t \in Sub : t # s => sub'[t] = sub[t]
    BY <1>13, <1>T DEF Deliver, Subscribers
  <2>4. e \in Events /\ e.plugin \in Plugin /\ e.snap \in Snapshots /\ e.snap.session <= snap[e.plugin].session
    <3>1. e \in Events /\ Old(e)
      BY <2>1, <1>T, AllOldTail DEF Reports
    <3> QED BY <3>1 DEF Old, Events
  <2>5. ASSUME NEW q \in Plugin
        PROVE  SomeCurrent(sub[s].pending, q) => SomeCurrent(Tail(sub[s].pending), q) \/ Current(e, q)
    BY <2>1, <1>T, CurrentTail
  <2> HIDE DEF e, n, f, C
  <2>6. ghost'.refused = ghost.refused /\ ghost'.pushed = ghost.pushed
    BY <2>1, <1>T DEF Ghosts
  <2>7. CASE s = Follower
    <3>1. Coordinator \in Sub => sub'[Coordinator] = C
      BY <2>3, <2>7 DEF Follower, Coordinator, C
    <3> QED BY <3>1, <2>1, <2>2, <2>6, <2>7, <1>U DEF C, Reconciled
  <2>8. CASE s # Follower
    <3>0. s = Coordinator /\ sub[s] = C
      BY <2>8, SubAssumption DEF Follower, Coordinator, C
    <3>1. ASSUME Reconciled', NEW q \in Plugin \ (ghost'.refused \cup ghost'.pushed)
          PROVE  ToldOrComing(known'[q], source'[q], loop'[q], hub'.queue, sub'[Coordinator].pending, recon'.left, recon'.got[q], q)
      <4>1. ToldOrComing(known[q], source[q], loop[q], hub.queue, C.pending, recon.left, recon.got[q], q)
        BY <2>1, <2>3, <2>6, <3>0, <3>1, <1>C DEF Reconciled
      <4>2. Told(known[q], source[q], q) \/ Current(e, q) => Told(known'[q], source'[q], q)
        <5>1. CASE e.kind = "log"
          BY <5>1, <2>1, <2>8 DEF Current, Of, States
        <5>2. CASE e.kind # "log" /\ e.plugin = q
          <6>1. Told(known[q], source[q], q) \/ e.snap = snap[q] => Told(known'[q], source'[q], q)
            BY <5>2, <2>1, <2>4, <2>8, ObservedIs
          <6> QED BY <6>1 DEF Current
        <5>3. CASE e.kind # "log" /\ e.plugin # q
          <6>1. known'[q] = known[q] /\ source'[q] = source[q]
            BY <5>3, <2>1, <2>4, <2>8, ObservedIs
          <6> QED BY <5>3, <6>1 DEF Current, Of
        <5> QED BY <5>1, <5>2, <5>3
      <4>3. Coming(loop[q], hub.queue, C.pending, q) => Coming(loop[q], hub.queue, Tail(C.pending), q) \/ Current(e, q)
        BY <2>5, <3>0 DEF Coming
      <4> QED BY <4>1, <4>2, <4>3, <2>1, <2>2, <2>3, <3>0 DEF ToldOrComing
    <3> QED BY <2>1, <3>1, ToldFrom
  <2> QED BY <2>7, <2>8
<1>14. ASSUME NEW quota, Dispatch(quota) PROVE CoordinatorTold'
  <2> DEFINE e == Head(hub.queue)
             Out == UNION {PushedOut(sub[s], e) : s \in {s \in Sub : sub[s].at = "on"}}
  <2>1. hub.queue # <<>> /\ sub' = Dispatched(e) /\ UNCHANGED <<life, snap, loop, known, source, recon>> /\ hub' = [hub EXCEPT !.queue = Tail(@), !.quota = quota]
        /\ ghost' = [ghost EXCEPT !.pushed = @ \cup Out]
    BY <1>14 DEF Dispatch
  <2>2. hub'.queue = Tail(hub.queue)
    BY <2>1, <1>T DEF Hubs
  <2>3. Event_(e)
    BY <2>1, <1>T, AllOldTail DEF Reports, Event_, Old
  <2>4. ASSUME NEW q
        PROVE  /\ AllCurrent(hub.queue, q) => (Of(e, q) => e.snap = snap[q]) /\ AllCurrent(Tail(hub.queue), q)
               /\ SomeCurrent(hub.queue, q) => SomeCurrent(Tail(hub.queue), q) \/ (Current(e, q) /\ AllCurrent(Tail(hub.queue), q))
    <3>1. AllCurrent(<<e>>, q) => (Of(e, q) => e.snap = snap[q])
      <4> HIDE DEF e
      <4>1. <<e>>[1] = e /\ 1 \in DOMAIN <<e>>
        OBVIOUS
      <4> QED BY <4>1 DEF AllCurrent
    <3> QED BY <3>1, <2>1, <1>T, CurrentTail
  <2>5. Coordinator \in Sub /\ C.at = "on" => PushedOut(C, e) \subseteq Out
    OBVIOUS
  <2>6. \A s \in Sub : sub'[s] = IF sub[s].at = "on" THEN Enqueue(sub[s], e) ELSE sub[s]
    BY <2>1 DEF Dispatched
  <2> HIDE DEF e, C, Out
  <2>7. ghost'.refused = ghost.refused /\ ghost'.pushed = ghost.pushed \cup Out
    BY <2>1, <1>T DEF Ghosts
  <2>8. ASSUME Reconciled', NEW q \in Plugin \ (ghost'.refused \cup ghost'.pushed)
        PROVE  ToldOrComing(known'[q], source'[q], loop'[q], hub'.queue, sub'[Coordinator].pending, recon'.left, recon'.got[q], q)
    <3>1. Coordinator \in Sub /\ C \in Subscribers /\ C.at = "on" /\ sub'[Coordinator] = Enqueue(C, e)
      <4>1. Coordinator \in Sub /\ sub'[Coordinator].at = "on"
        BY <2>8 DEF Reconciled
      <4> QED BY <4>1, <2>6, <1>T DEF C
    <3>2. ToldOrComing(known[q], source[q], loop[q], hub.queue, C.pending, recon.left, recon.got[q], q)
      BY <3>1, <2>1, <2>7, <2>8, <1>C DEF Reconciled, C
    <3>3. q \in Plugin \ PushedOut(C, e)
      BY <3>1, <2>5, <2>7, <2>8
    <3>4. /\ Current(e, q) => SomeCurrent(sub'[Coordinator].pending, q)
          /\ SomeCurrent(C.pending, q) /\ (Of(e, q) => e.snap = snap[q]) => SomeCurrent(sub'[Coordinator].pending, q)
      BY <3>1, <3>3, <2>3, EnqueueGiven DEF Given
    <3>5. Coming(loop[q], hub.queue, C.pending, q) => Coming(loop[q], hub'.queue, sub'[Coordinator].pending, q)
      BY <3>4, <2>2, <2>4 DEF Coming
    <3> QED BY <3>2, <3>5, <2>1 DEF ToldOrComing
  <2> QED BY <2>1, <2>8, ToldFrom
<1>15. ASSUME HubStops PROVE CoordinatorTold'
  <2>1. \A s \in Sub : sub'[s].at # "on"
    BY <1>15 DEF HubStops, NoSub
  <2> QED BY <2>1 DEF CoordinatorTold, Reconciled
<1>16. ASSUME NEW s \in Sub, SelectSubscribe(s) PROVE CoordinatorTold'
  <2> DEFINE f == [p \in Plugin |-> OnTheWay(p)]
  <2>1. s # Coordinator
    BY <1>16 DEF SelectSubscribe, Subscriptions
  <2>2. Coordinator \in Sub => sub'[Coordinator] = C
    BY <2>1, <1>16, <1>T DEF SelectSubscribe
  <2>3. hub'.queue = hub.queue
    BY <1>16, <1>T DEF SelectSubscribe, Round, Hubs
  <2>4. ghost' = [ghost EXCEPT !.owed[s] = f] /\ UNCHANGED <<life, snap, known, source, loop, recon>>
    BY <1>16 DEF SelectSubscribe
  <2> HIDE DEF f, C
  <2>5. ghost'.refused = ghost.refused /\ ghost'.pushed = ghost.pushed
    BY <2>4, <1>T DEF Ghosts
  <2> QED BY <2>2, <2>3, <2>4, <2>5, <1>U DEF Reconciled, C
<1>17. ASSUME NEW s \in Sub, SelectRemove(s) PROVE CoordinatorTold'
  <2> DEFINE f == [p \in Plugin |-> 0]
  <2>1. hub'.queue = hub.queue
    BY <1>17, <1>T DEF SelectRemove, Round, Hubs
  <2>2. ghost' = [ghost EXCEPT !.owed[s] = f] /\ UNCHANGED <<life, snap, known, source, loop, recon>> /\ sub' = [sub EXCEPT ![s] = [NoSub EXCEPT !.at = "closed"]]
    BY <1>17 DEF SelectRemove
  <2>3. sub'[s].at = "closed" /\ \A t \in Sub : t # s => sub'[t] = sub[t]
    BY <2>2, <1>T DEF NoSub
  <2> HIDE DEF f, C
  <2>4. ghost'.refused = ghost.refused /\ ghost'.pushed = ghost.pushed
    BY <2>2, <1>T DEF Ghosts
  <2>5. CASE s = Coordinator
    BY <2>3, <2>5 DEF CoordinatorTold, Reconciled
  <2>6. CASE s # Coordinator
    BY <2>1, <2>2, <2>3, <2>4, <2>6, <1>U DEF Reconciled, C
  <2> QED BY <2>5, <2>6
<1> QED BY <1>1, <1>2, <1>3, <1>4, <1>5, <1>6, <1>7, <1>8, <1>9, <1>10, <1>11, <1>12, <1>13, <1>14, <1>15, <1>16, <1>17 DEF Next, HubStep, Drain, SelectPublish

-----------------------------------------------------------------------------
(* The theorems. *)

LEMMA EventsInit ==
    ASSUME Init PROVE EventsInv
<1> DEFINE zeros == [p \in Plugin |-> 0]
           at(s, who) == IF s # who THEN "closed" ELSE IF s = Coordinator THEN "on" ELSE "none"
<1>0. /\ Idle \in Events /\ Zero \in Snapshots /\ Idle.kind = "none" /\ Zero.session = 0
      /\ NoSub \in Subscribers /\ NoSub.pending = <<>> /\ NoSub.order = <<>> /\ NoSub.dropped = zeros
  BY Constants_
<1>1. PICK who \in Sub : sub = [s \in Sub |-> [NoSub EXCEPT !.at = at(s, who)]]
  BY DEF Init
<1>2. ASSUME NEW s \in Sub
      PROVE  /\ sub[s] \in Subscribers /\ sub[s].at = at(s, who) /\ sub[s].pending = <<>> /\ sub[s].order = <<>> /\ sub[s].dropped = zeros
  <2>1. sub[s] = [NoSub EXCEPT !.at = at(s, who)]
    BY <1>1
  <2>2. at(s, who) \in {"none", "asked", "on", "closed"}
    OBVIOUS
  <2> HIDE DEF at, zeros
  <2>3. sub[s] \in Subscribers
    BY <2>1, <2>2, SubscribersClosed, <1>0
  <2>4. sub[s].at = at(s, who) /\ sub[s].pending = NoSub.pending /\ sub[s].order = NoSub.order /\ sub[s].dropped = NoSub.dropped
    BY <2>1, <1>0 DEF Subscribers
  <2> QED BY <2>3, <2>4, <1>0
<1>3. sub \in [Sub -> Subscribers]
  BY <1>1, <1>2
<1>4. ghost.who \in Sub /\ ghost = [refused |-> {}, pushed |-> {}, who |-> ghost.who, logs |-> 0, first |-> known, owed |-> [s \in Sub |-> zeros]]
  <2>1. sub[who].at # "closed"
    BY <1>2
  <2>2. (CHOOSE s \in Sub : sub[s].at # "closed") \in Sub
    BY <2>1
  <2> QED BY <2>2 DEF Init
<1>5. /\ life = "starting" /\ starter = [left |-> Plugin, next |-> Idle] /\ snap = [p \in Plugin |-> Zero] /\ loop = [p \in Plugin |-> Idle]
      /\ lost = [p \in Plugin |-> [count |-> 0, session |-> 0]]
      /\ hub.done = FALSE /\ hub.queue = <<>>
      /\ list = [reading |-> {}, got |-> snap, shown |-> snap] /\ known = zeros /\ source = zeros
      /\ recon = [at |-> "none", left |-> {}, got |-> snap]
  BY DEF Init
<1>6. hub \in Hubs
  <2>1. ASSUME NEW a \in {"run", "off"}, NEW es \in Seq(Events) PROVE [at |-> a, done |-> FALSE, quota |-> 0, queue |-> es] \in Hubs
    BY DEF Hubs
  <2>2. \E a \in {"run", "off"} : hub = [at |-> a, done |-> FALSE, quota |-> 0, queue |-> <<>>]
    BY DEF Init
  <2> QED BY <2>1, <2>2, NoEvents
<1>7. zeros \in [Plugin -> Nat] /\ zeros \in [Plugin -> Int] /\ \A p \in Plugin : zeros[p] = 0
  OBVIOUS
<1> HIDE DEF at, zeros
<1>8. snap \in [Plugin -> Snapshots] /\ loop \in [Plugin -> Events] /\ lost \in [Plugin -> [count : Nat, session : Nat]]
  BY <1>0, <1>5
<1>9. ghost \in Ghosts
  <2> DEFINE o == [s \in Sub |-> zeros]
  <2>1. o \in [Sub -> [Plugin -> Int]]
    BY <1>7
  <2> HIDE DEF o
  <2> QED BY <1>4, <1>5, <1>7, <2>1 DEF Ghosts, o
<1>10. Types
  <2>1. starter \in [left : SUBSET Plugin, next : Events]
    BY <1>0, <1>5
  <2>2. list \in [reading : SUBSET Plugin, got : [Plugin -> Snapshots], shown : [Plugin -> Snapshots]]
    BY <1>5, <1>8
  <2>3. recon \in [at : {"none", "applying"}, left : SUBSET Plugin, got : [Plugin -> Snapshots]]
    BY <1>5, <1>8
  <2>4. known \in [Plugin -> Nat] /\ source \in [Plugin -> Nat \cup {Late}]
    BY <1>5, <1>7
  <2>5. life \in {"starting", "started", "closing"}
    BY <1>5
  <2> QED BY <1>3, <1>6, <1>8, <1>9, <2>1, <2>2, <2>3, <2>4, <2>5 DEF Types
<1>11. Reports
  BY <1>2, <1>5 DEF Reports, AllOld
<1>12. Subscriptions
  <2>1. Coordinator \in Sub => sub[Coordinator].at \in {"on", "closed"}
    BY <1>2 DEF at
  <2> QED BY <1>2, <1>5, <2>1 DEF Subscriptions, zeros
<1>13. LogsCounted
  <2>1. ASSUME NEW s \in Sub, NEW p \in Plugin PROVE ghost.owed[s][p] = OnTheWay(p) + Held(s, p)
    <3>1. ghost.owed[s][p] = 0
      BY <1>4, <1>7
    <3>2. hub.queue = <<>> /\ sub[s].pending = <<>> /\ sub[s].dropped[p] = 0 /\ lost[p].count = 0 /\ loop[p] = Idle
      BY <1>2, <1>5, <1>7
    <3>3. Weight(<<>>, p) = 0
      BY WeightNone
    <3>4. Weight(<<Idle>>, p) = 0
      BY <1>0, WeightOne DEF Unit
    <3> QED BY <3>1, <3>2, <3>3, <3>4 DEF OnTheWay, Held
  <2>2. \A p \in Plugin : lost[p].count = 0
    BY <1>5
  <2> QED BY <2>1, <2>2 DEF LogsCounted, LogsAccounted
<1>14. ListKept
  BY <1>5 DEF ListKept, AtRest
<1>15. Past
  BY <1>0, <1>4, <1>5, <1>7 DEF Past
<1>16. CoordinatorTold
  BY <1>5 DEF CoordinatorTold, Reconciled
<1> QED BY <1>10, <1>11, <1>12, <1>13, <1>14, <1>15, <1>16 DEF EventsInv

LEMMA EventsUnchanged ==
    ASSUME EventsInv, UNCHANGED vars PROVE EventsInv'
<1> USE DEF vars
<1>1. Types'
  BY DEF EventsInv, Types
<1>2. Reports'
  BY DEF EventsInv, Reports, Old, AllOld
<1>3. Subscriptions'
  BY DEF EventsInv, Subscriptions, StartIsOver
<1>4. LogsCounted'
  BY DEF EventsInv, LogsCounted, LogsAccounted, OnTheWay, Held, Weight, Entries
<1>5. ListKept'
  BY DEF EventsInv, ListKept, AtRest, ListRight, Quiet, News
<1>6. Past'
  BY DEF EventsInv, Past
<1>7. CoordinatorTold'
  BY DEF EventsInv, CoordinatorTold, Reconciled, Told, Coming, SomeCurrent, AllCurrent, Current, Of
<1> QED BY <1>1, <1>2, <1>3, <1>4, <1>5, <1>6, <1>7 DEF EventsInv

LEMMA EventsStep ==
    ASSUME EventsInv, [Next]_vars PROVE EventsInv'
<1>1. CASE Next
  <2> USE <1>1 DEF EventsInv
  <2>1. Types'
    BY TypesStep
  <2>2. Reports'
    BY ReportsStep
  <2>3. Subscriptions'
    BY SubscriptionsStep
  <2>4. LogsCounted'
    BY <2>1, LogsCountedStep
  <2>5. ListKept'
    BY <2>1, ListKeptStep
  <2>6. Past'
    BY <2>1, PastStep
  <2>7. CoordinatorTold'
    BY <2>1, CoordinatorToldStep
  <2> QED BY <2>1, <2>2, <2>3, <2>4, <2>5, <2>6, <2>7
<1>2. CASE UNCHANGED vars
  BY <1>2, EventsUnchanged
<1> QED BY <1>1, <1>2

\* What the hub, its subscribers and their ghosts are in every reachable state:
\* each event of the past, each log entry counted, the list right and the
\* coordinator told unless news is on its way (events.go, manager.go,
\* coordinator.go).
THEOREM EventsAreInvariant == Spec => []EventsInv
<1>1. Init => EventsInv
  BY EventsInit
<1>2. EventsInv /\ [Next]_vars => EventsInv'
  BY EventsStep
<1> QED BY <1>1, <1>2, PTL DEF Spec

\* Every log entry since a subscription is delivered, pending, or counted in a
\* dropped count that is still to be reported, for any number of plugins and
\* any capacity (events.go enqueue, manager.go PublishLog).
THEOREM LogsAlwaysAccounted == Spec => []LogsAccounted
<1>1. EventsInv => LogsAccounted
  BY DEF EventsInv, LogsCounted
<1> QED BY <1>1, EventsAreInvariant, PTL

LEMMA ListCaughtUp ==
    ASSUME EventsInv PROVE ListCatchesUp
<1> SUFFICES ASSUME Follower \in Sub, ghost.refused = {}, list.reading = {}, \A p \in Plugin : QuietFor(Follower, p)
             PROVE  list.shown = snap
  BY DEF ListCatchesUp
<1>0. /\ snap \in [Plugin -> Snapshots] /\ list.got \in [Plugin -> Snapshots] /\ list.shown \in [Plugin -> Snapshots]
      /\ starter.left \subseteq Plugin
  BY DEF EventsInv, Types
<1>1. CASE Plugin = {}
  <2>1. DOMAIN snap = {} /\ DOMAIN list.shown = {} /\ snap = [p \in Plugin |-> snap[p]] /\ list.shown = [p \in Plugin |-> list.shown[p]]
    BY <1>0, <1>1
  <2>2. [p \in Plugin |-> snap[p]] = [p \in Plugin |-> list.shown[p]]
    BY <1>1
  <2> QED BY <2>1, <2>2
<1>2. CASE Plugin # {}
  <2>1. PICK q \in Plugin : TRUE
    BY <1>2
  <2>2. life = "started" /\ sub[Follower].at = "on"
    BY <2>1 DEF QuietFor
  <2>3. starter.left = {}
    BY <1>0 DEF QuietFor
  <2>4. ASSUME NEW e \in {starter.next} \cup ToSet(hub.queue) \cup ToSet(sub[Follower].pending), e.plugin \in Plugin
        PROVE  ~News(e)
    BY <2>4 DEF QuietFor, Change_, News
  <2>5. ~News(starter.next)
    BY <2>4, Constants_ DEF EventsInv, Reports, Old, News
  <2>6. Quiet(hub.queue)
    BY <2>4 DEF EventsInv, Reports, AllOld, Old, Quiet, ToSet
  <2>7. Quiet(sub[Follower].pending)
    BY <2>4 DEF EventsInv, Reports, AllOld, Old, Quiet, ToSet
  <2>8. ASSUME NEW p \in Plugin PROVE ~News(loop[p])
    <3>1. CASE loop[p] = Idle
      BY <3>1, Constants_ DEF News
    <3>2. CASE loop[p].plugin = p
      BY <3>2 DEF QuietFor, Change_, News
    <3> QED BY <3>1, <3>2 DEF EventsInv, Reports
  <2>9. AtRest
    BY <2>2, <2>3, <2>5, <2>6, <2>7, <2>8 DEF AtRest
  <2>10. list.shown = list.got /\ \A p \in Plugin : list.got[p] = snap[p]
    BY <2>9 DEF EventsInv, ListKept, ListRight
  <2> QED BY <2>10, <1>0
<1> QED BY <1>1, <1>2

\* The plugin list that was offered last is the current one, unless news is on
\* its way or was refused (app.go SubscribePlugins, events.go enqueue).
THEOREM ListAlwaysCatchesUp == Spec => []ListCatchesUp
<1>1. EventsInv => ListCatchesUp
  BY ListCaughtUp
<1> QED BY <1>1, EventsAreInvariant, PTL

LEMMA SourceIsLive ==
    ASSUME EventsInv PROVE SourceOfLiveSession
<1> SUFFICES ASSUME Coordinator \in Sub, NEW p \in Plugin \ (ghost.refused \cup ghost.pushed),
                    QuietFor(Coordinator, p), recon.at = "applying", p \notin recon.left
             PROVE  source[p] \in {0, Late} \/ (snap[p].up /\ source[p] \in {snap[p].session} \cup 1 .. (ghost.first[p] - 1))
  BY DEF SourceOfLiveSession
<1>1. Reconciled
  BY DEF Reconciled, QuietFor
<1>2. ASSUME NEW e \in {loop[p]} \cup ToSet(hub.queue) \cup ToSet(sub[Coordinator].pending) PROVE ~Of(e, p)
  BY <1>2 DEF QuietFor, Of, Change_, States
<1>3. ~Coming(loop[p], hub.queue, sub[Coordinator].pending, p)
  <2>1. ~Current(loop[p], p)
    BY <1>2 DEF Current
  <2>2. ~SomeCurrent(hub.queue, p)
    BY <1>2 DEF SomeCurrent, Current, ToSet
  <2>3. ~SomeCurrent(sub[Coordinator].pending, p)
    BY <1>2 DEF SomeCurrent, Current, ToSet
  <2> QED BY <2>1, <2>2, <2>3 DEF Coming
<1>4. Told(known[p], source[p], p)
  BY <1>1, <1>3 DEF EventsInv, CoordinatorTold
<1> QED BY <1>4 DEF Told, EventsInv, Past

\* Once the coordinator has been told, the tracking service holds no source of
\* a lost or replaced session, but for a frame of after the loss and a session
\* older than the coordinator's first (coordinator.go observePlugin).
THEOREM SourceAlwaysOfLiveSession == Spec => []SourceOfLiveSession
<1>1. EventsInv => SourceOfLiveSession
  BY SourceIsLive
<1> QED BY <1>1, EventsAreInvariant, PTL

=============================================================================
