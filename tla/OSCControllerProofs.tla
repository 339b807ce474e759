-------------------------- MODULE OSCControllerProofs --------------------------
(***************************************************************************)
(* Proofs about OSCController and the sender it drives, for any services,  *)
(* configurations, connections, catalogs and capacities.                   *)
(***************************************************************************)
EXTENDS OSCController, FiniteSetTheorems, WellFoundedInduction, TLAPS

-----------------------------------------------------------------------------
(* Operators. *)

\* Sets of naturals have a least element.
LEMMA MinIsLeast ==
    ASSUME NEW S \in SUBSET Nat, S # {} PROVE Min(S) \in S /\ \A y \in S : Min(S) <= y
<1> DEFINE R == OpToRel(<, Nat)
<1>1. IsWellFoundedOn(R, Nat)
  BY NatLessThanWellFounded
<1>2. \A x, y \in S : <<y, x>> \in R <=> y < x
  BY DEF OpToRel
<1> HIDE DEF R
<1>3. PICK x \in S : \A y \in S : <<y, x>> \notin R
  BY <1>1, WFMin
<1>4. ASSUME NEW y \in S PROVE x <= y
  <2>1. ~ (y < x)
    BY <1>2, <1>3
  <2> QED BY <2>1
<1> QED BY <1>4 DEF Min

\* Bounded ones have a greatest: the least bound.
LEMMA MaxIsGreatest ==
    ASSUME NEW S \in SUBSET Nat, S # {}, NEW n \in Nat, \A y \in S : y <= n
    PROVE  Max(S) \in S /\ \A y \in S : y <= Max(S)
<1> DEFINE Bounds == {m \in Nat : \A y \in S : y <= m}
           m == Min(Bounds)
<1>1. m \in Bounds /\ \A k \in Bounds : m <= k
  <2>1. Bounds \in SUBSET Nat /\ Bounds # {}
    OBVIOUS
  <2> HIDE DEF Bounds
  <2> QED BY <2>1, MinIsLeast
<1>2. m \in Nat /\ \A y \in S : y <= m
  BY <1>1
<1>3. m \in S
  <2>1. SUFFICES ASSUME m \notin S PROVE FALSE
    OBVIOUS
  <2>2. \A y \in S : y < m
    BY <1>2, <2>1
  <2>3. m - 1 \in Nat /\ \A y \in S : y <= m - 1
    <3>1. PICK y \in S : TRUE
      OBVIOUS
    <3> HIDE DEF m
    <3> QED BY <3>1, <2>2, <1>2
  <2>4. m - 1 \in Bounds
    BY <2>3
  <2> HIDE DEF m, Bounds
  <2> QED BY <2>4, <1>1, <1>2
<1> HIDE DEF m
<1>4. \A y \in S : m >= y
  BY <1>2
<1> QED BY <1>3, <1>4 DEF Max

-----------------------------------------------------------------------------
(* Types. *)

Avatars == 0 .. conf.avatars

Phases == {"done", "discover", "ask", "told", "start", "loop", "query", "install"}

WorkerType == [at : Phases, service : Service \cup {None}, cancelled : BOOLEAN, force : BOOLEAN,
               fails : Nat, rev : Nat, got : Avatars]

DiscType == [at : {"select", "probe", "probed", "connect", "clear", "done"}, left : SUBSET Service,
             service : Service \cup {None}]

PassType == [at : {"idle", "sending"}, next : Nat \ {0}, source : Value \cup {Invalid, NoValue}, ok : BOOLEAN]

ConfTypes == conf \in Config /\ life \in {"running", "closing", "joining", "closed"}

\* A service is at hand from the probe that found it until it is connected to.
DiscTypes ==
    /\ seen \subseteq Service /\ disc \in DiscType
    /\ disc.at \in {"probed", "connect"} => disc.service \in Service

\* A request is forced until it is answered or fails.
WorkTypes ==
    /\ active \in Conn \cup {None} /\ conn \in [Conn -> WorkerType] /\ failed \in Seq(Conn)
    /\ refresh \in Seq(BOOLEAN) /\ timers \in Nat
    /\ \A c \in Conn : conn[c].force => conn[c].at \in {"query", "install"}

AvatarTypes ==
    /\ avatar \in [world : Avatars, wire : Seq(Avatars), id : Avatars \cup {None}, revision : Nat,
                   box : Avatars \cup {None}]
    /\ planner \in [at : {"idle", "plan"}, avatar : Avatars \cup {None}, value : Value \cup {Invalid}]
    /\ planner.at = "plan" => planner.avatar \in Avatars
    /\ ghost \in [missed : BOOLEAN, dropped : BOOLEAN]

SendTypes ==
    /\ target \in Address \cup {NoTarget} /\ catalog \in {0} \cup DOMAIN Catalog
    /\ source \in Value \cup {Invalid, NoValue} /\ pass \in PassType /\ DOMAIN shown = Address

Types == ConfTypes /\ DiscTypes /\ WorkTypes /\ AvatarTypes /\ SendTypes

\* There is room for a connection when discovery has found a service: the
\* worker of the last one has returned, also when Close dropped it.
FreeConn == disc.at \in {"probed", "connect"} => \A c \in Conn : conn[c].at = "done"

LEMMA WorkerIsTyped == ConfTypes => Worker \in WorkerType
  BY ConfigAssumption DEF ConfTypes, Worker, WorkerType, Phases, Avatars

LEMMA ConfKept ==
    ASSUME Next PROVE conf' = conf
  BY Zenon DEF Next, Discovery, RetryConnect, ProbeSetsTarget, SetActive, TakeFailure, ClearQueryRuntime, DiscoveryStops,
     Probe, RetryFires, SendLoop, Close, Shutdown, CloseClears, CloseEnds, Work, PathChanged, BrowserUpdate, Appear, Forget,
     SwitchAvatar, AcceptAvatarChange, PlannerTakes, InstallCatalog, Publish, SetFloat, ReadRevision, AskAvatar,
     DiscoverActiveAvatar, Start, TakeRefresh, Poll, RefreshFails, RefreshAnswered, RefreshCatalog, WorkerStops

LEMMA LifeTyped ==
    ASSUME ConfTypes, Next PROVE ConfTypes'
<1>1. conf' = conf
  BY ConfKept
<1>2. life' \in {life, "closing", "joining", "closed"}
  BY Zenon DEF Next, Discovery, RetryConnect, ProbeSetsTarget, SetActive, TakeFailure, ClearQueryRuntime, DiscoveryStops,
     Probe, RetryFires, SendLoop, Close, Shutdown, CloseClears, CloseEnds, Work, PathChanged, BrowserUpdate, Appear, Forget,
     SwitchAvatar, AcceptAvatarChange, PlannerTakes, InstallCatalog, Publish, SetFloat, ReadRevision, AskAvatar,
     DiscoverActiveAvatar, Start, TakeRefresh, Poll, RefreshFails, RefreshAnswered, RefreshCatalog, WorkerStops
<1> QED BY <1>1, <1>2 DEF ConfTypes

-----------------------------------------------------------------------------
(* What a worker's step makes of its connection. *)

Becomes(c, at, force, rev, got) ==
    /\ conn' \in [Conn -> WorkerType] /\ \A d \in Conn \ {c} : conn'[d] = conn[d]
    /\ conn'[c].at = at /\ conn'[c].force = force /\ conn'[c].rev = rev /\ conn'[c].got = got
    /\ at # "done" => conn'[c].cancelled = conn[c].cancelled

\* The record of one connection is replaced.
LEMMA WorkerBecomes ==
    ASSUME Types, NEW c \in Conn, NEW w \in WorkerType, conn' = [conn EXCEPT ![c] = w],
           w.at # "done" => w.cancelled = conn[c].cancelled
    PROVE  Becomes(c, w.at, w.force, w.rev, w.got)
  BY DEF Types, WorkTypes, Becomes

LEMMA WorkerSteps ==
    ASSUME Types, NEW c \in Conn
    PROVE  LET w == conn[c] IN
           /\ ReadRevision(c) => Becomes(c, "ask", FALSE, avatar.revision, w.got)
           /\ AskAvatar(c) => IF Answers(c) THEN Becomes(c, "told", FALSE, w.rev, avatar.world) ELSE Becomes(c, "start", FALSE, 0, w.got)
           /\ DiscoverActiveAvatar(c) => Becomes(c, "start", FALSE, 0, 0)
           /\ Start(c) => Becomes(c, "loop", FALSE, w.rev, w.got)
           /\ TakeRefresh(c) => Becomes(c, "query", Head(refresh), w.rev, w.got)
           /\ Poll(c) => Becomes(c, "query", FALSE, w.rev, w.got)
           /\ RefreshFails(c) => IF w.fails + 1 = MaxFailures THEN Becomes(c, "done", FALSE, 0, 0)
                                                              ELSE Becomes(c, "loop", FALSE, w.rev, w.got)
           /\ RefreshAnswered(c) => IF Query THEN Becomes(c, "install", w.force, w.rev, avatar.world)
                                             ELSE Becomes(c, "loop", FALSE, w.rev, 0)
           /\ RefreshCatalog(c) => Becomes(c, "loop", FALSE, w.rev, 0)
           /\ WorkerStops(c) => Becomes(c, "done", FALSE, 0, 0)
<1> DEFINE w == conn[c]
<1>1. /\ w \in WorkerType /\ (w.at \notin {"query", "install"} => w.force = FALSE)
      /\ conn \in [Conn -> WorkerType] /\ 0 \in Avatars /\ avatar.world \in Avatars /\ avatar.revision \in Nat
      /\ Worker \in WorkerType
  <2>1. w \in WorkerType /\ conn \in [Conn -> WorkerType] /\ w.force \in BOOLEAN
    BY DEF Types, WorkTypes, WorkerType
  <2>2. w.at \notin {"query", "install"} => ~w.force
    BY DEF Types, WorkTypes
  <2>3. 0 \in Avatars /\ avatar.world \in Avatars /\ avatar.revision \in Nat
    BY ConfigAssumption DEF Types, ConfTypes, AvatarTypes, Avatars
  <2> HIDE DEF w
  <2> QED BY <2>1, <2>2, <2>3, WorkerIsTyped DEF Types
<1>2. \A v \in WorkerType : /\ conn' = [conn EXCEPT ![c] = v]
                            /\ v.at # "done" => v.cancelled = w.cancelled
                            => Becomes(c, v.at, v.force, v.rev, v.got)
  BY WorkerBecomes
<1> HIDE DEF w
<1>0. w \in WorkerType /\ avatar.world \in Avatars
  BY <1>1
<1>3. ASSUME ReadRevision(c) PROVE Becomes(c, "ask", FALSE, avatar.revision, w.got)
  <2> DEFINE v == [w EXCEPT !.rev = avatar.revision, !.at = "ask"]
  <2>1. v \in WorkerType /\ v.at = "ask" /\ v.force = FALSE /\ v.rev = avatar.revision /\ v.got = w.got /\ v.cancelled = w.cancelled
    BY <1>1, <1>3 DEF WorkerType, ReadRevision, Phases, w
  <2>2. conn' = [conn EXCEPT ![c] = v]
    BY <1>3 DEF ReadRevision, w
  <2> HIDE DEF v
  <2> QED BY <1>2, <2>1, <2>2

<1>4. ASSUME AskAvatar(c)
      PROVE  IF Answers(c) THEN Becomes(c, "told", FALSE, w.rev, avatar.world) ELSE Becomes(c, "start", FALSE, 0, w.got)
  <2> DEFINE v == IF Answers(c) THEN [w EXCEPT !.at = "told", !.got = avatar.world] ELSE [w EXCEPT !.at = "start", !.rev = 0]
  <2>1. /\ v \in WorkerType /\ v.force = FALSE /\ v.cancelled = w.cancelled /\ v.at # "done"
        /\ Answers(c) => v.at = "told" /\ v.rev = w.rev /\ v.got = avatar.world
        /\ ~Answers(c) => v.at = "start" /\ v.rev = 0 /\ v.got = w.got
    BY <1>1, <1>4 DEF WorkerType, AskAvatar, Phases, w
  <2>2. conn' = [conn EXCEPT ![c] = v]
    BY <1>4 DEF AskAvatar, w
  <2> HIDE DEF v
  <2> QED BY <1>2, <2>1, <2>2
<1>5. ASSUME DiscoverActiveAvatar(c) PROVE Becomes(c, "start", FALSE, 0, 0)
  <2> DEFINE v == [w EXCEPT !.at = "start", !.rev = 0, !.got = 0]
  <2>1. v \in WorkerType /\ v.at = "start" /\ v.force = FALSE /\ v.rev = 0 /\ v.got = 0 /\ v.cancelled = w.cancelled
    BY <1>1, <1>5 DEF WorkerType, DiscoverActiveAvatar, Phases, w
  <2>2. conn' = [conn EXCEPT ![c] = v]
    BY <1>5 DEF DiscoverActiveAvatar, w
  <2> HIDE DEF v
  <2> QED BY <1>2, <2>1, <2>2
<1>6. ASSUME Start(c) PROVE Becomes(c, "loop", FALSE, w.rev, w.got)
  <2> DEFINE v == [w EXCEPT !.at = "loop"]
  <2>1. v \in WorkerType /\ v.at = "loop" /\ v.force = FALSE /\ v.rev = w.rev /\ v.got = w.got /\ v.cancelled = w.cancelled
    BY <1>1, <1>6 DEF WorkerType, Start, Phases, w
  <2>2. conn' = [conn EXCEPT ![c] = v]
    BY <1>6 DEF Start, w
  <2> HIDE DEF v
  <2> QED BY <1>2, <2>1, <2>2
<1>7. ASSUME TakeRefresh(c) PROVE Becomes(c, "query", Head(refresh), w.rev, w.got)
  <2> DEFINE v == [w EXCEPT !.at = "query", !.force = Head(refresh)]
  <2>1. Head(refresh) \in BOOLEAN
    BY <1>7 DEF TakeRefresh, Types, WorkTypes
  <2>2. v \in WorkerType /\ v.at = "query" /\ v.force = Head(refresh) /\ v.rev = w.rev /\ v.got = w.got /\ v.cancelled = w.cancelled
    BY <1>0, <2>1 DEF WorkerType, Phases
  <2>3. conn' = [conn EXCEPT ![c] = v]
    BY <1>7 DEF TakeRefresh, w
  <2> HIDE DEF v
  <2> QED BY <1>2, <2>2, <2>3
<1>8. ASSUME Poll(c) PROVE Becomes(c, "query", FALSE, w.rev, w.got)
  <2> DEFINE v == [w EXCEPT !.at = "query", !.force = FALSE]
  <2>1. v \in WorkerType /\ v.at = "query" /\ v.force = FALSE /\ v.rev = w.rev /\ v.got = w.got /\ v.cancelled = w.cancelled
    BY <1>0 DEF WorkerType, Phases
  <2>2. conn' = [conn EXCEPT ![c] = v]
    BY <1>8 DEF Poll, w
  <2> HIDE DEF v
  <2> QED BY <1>2, <2>1, <2>2
<1>9. ASSUME RefreshFails(c)
      PROVE  IF w.fails + 1 = MaxFailures THEN Becomes(c, "done", FALSE, 0, 0) ELSE Becomes(c, "loop", FALSE, w.rev, w.got)
  <2> DEFINE u == [w EXCEPT !.fails = w.fails + 1, !.force = FALSE]
             v == [u EXCEPT !.at = "loop"]
  <2>0. u \in WorkerType /\ u.force = FALSE /\ u.rev = w.rev /\ u.got = w.got /\ u.cancelled = w.cancelled
    <3>1. PICK n \in Nat : n = w.fails + 1
      BY <1>0 DEF WorkerType
    <3>2. u = [w EXCEPT !.fails = n, !.force = FALSE]
      BY <3>1
    <3> HIDE DEF u
    <3> QED BY <1>0, <3>2 DEF WorkerType
  <2>1. v \in WorkerType /\ v.at = "loop" /\ v.force = FALSE /\ v.rev = w.rev /\ v.got = w.got /\ v.cancelled = w.cancelled
    <3> HIDE DEF u
    <3> QED BY <2>0 DEF WorkerType, Phases
  <2>2. conn' = [conn EXCEPT ![c] = IF w.fails + 1 = MaxFailures THEN Worker ELSE v]
    BY <1>9 DEF RefreshFails, w
  <2>3. Worker.at = "done" /\ Worker.force = FALSE /\ Worker.rev = 0 /\ Worker.got = 0
    BY DEF Worker
  <2> HIDE DEF v
  <2> QED BY <1>1, <1>2, <2>1, <2>2, <2>3
<1>10. ASSUME RefreshAnswered(c) \/ RefreshCatalog(c)
       PROVE  IF Query /\ RefreshAnswered(c) THEN Becomes(c, "install", w.force, w.rev, avatar.world)
                                             ELSE Becomes(c, "loop", FALSE, w.rev, 0)
  <2> DEFINE v == [w EXCEPT !.at = "install", !.got = avatar.world]
             t == [w EXCEPT !.at = "loop", !.got = 0]
             u == [t EXCEPT !.fails = 0, !.force = FALSE]
  <2>1. v \in WorkerType /\ v.at = "install" /\ v.force = w.force /\ v.rev = w.rev /\ v.got = avatar.world /\ v.cancelled = w.cancelled
    BY <1>0 DEF WorkerType, Phases
  <2>2. u \in WorkerType /\ u.at = "loop" /\ u.force = FALSE /\ u.rev = w.rev /\ u.got = 0 /\ u.cancelled = w.cancelled
    <3>1. t \in WorkerType /\ t.at = "loop" /\ t.rev = w.rev /\ t.got = 0 /\ t.cancelled = w.cancelled
      BY <1>0, <1>1 DEF WorkerType, Phases
    <3> HIDE DEF t
    <3> QED BY <3>1 DEF WorkerType, Phases
  <2>3. conn' = [conn EXCEPT ![c] = IF Query /\ RefreshAnswered(c) THEN v ELSE u]
    <3>1. CASE RefreshAnswered(c)
      BY <3>1 DEF RefreshAnswered, Refreshed, w
    <3>2. CASE RefreshCatalog(c) /\ ~RefreshAnswered(c)
      BY <3>2 DEF RefreshCatalog, Refreshed, w
    <3> QED BY <1>10, <3>1, <3>2
  <2> HIDE DEF v, t, u
  <2> QED BY <1>2, <2>1, <2>2, <2>3
<1>11. ASSUME WorkerStops(c) PROVE Becomes(c, "done", FALSE, 0, 0)
  <2>1. conn' = [conn EXCEPT ![c] = Worker]
    BY <1>11 DEF WorkerStops
  <2>2. Worker.at = "done" /\ Worker.force = FALSE /\ Worker.rev = 0 /\ Worker.got = 0
    BY DEF Worker
  <2> QED BY <1>1, <1>2, <2>1, <2>2
<1>12. RefreshCatalog(c) => ~RefreshAnswered(c)
  BY DEF RefreshAnswered, RefreshCatalog
<1> QED BY <1>3, <1>4, <1>5, <1>6, <1>7, <1>8, <1>9, <1>10, <1>11, <1>12 DEF w

-----------------------------------------------------------------------------
(* What a step makes of discovery. *)

DiscIs(at, service) ==
    disc' \in DiscType /\ disc'.at = at /\ disc'.service = service

LEMMA DiscoverySteps ==
    ASSUME Types
    PROVE  /\ \A s \in Service :
                 /\ BrowserUpdate(s) \/ (RetryConnect /\ s \in seen) =>
                       /\ seen' = seen \cup {s} /\ disc.at = "select"
                       /\ disc' = disc \/ (active = None /\ DiscIs("probe", disc.service))
                 /\ Probe(s) => DiscIs("select", disc.service) \/ DiscIs("probe", disc.service)
                                \/ (Running /\ DiscIs("probed", s))
           /\ ProbeSetsTarget => DiscIs("connect", disc.service)
           /\ SetActive => DiscIs("select", None)
           /\ TakeFailure => DiscIs(IF Query THEN "clear" ELSE "select", disc.service)
           /\ ClearQueryRuntime => DiscIs("select", disc.service)
           /\ DiscoveryStops => DiscIs("done", disc.service)
<1>1. disc \in DiscType /\ seen \subseteq Service
  BY DEF Types, DiscTypes
<1>2. ASSUME NEW s \in Service, BrowserUpdate(s) \/ (RetryConnect /\ s \in seen)
      PROVE  /\ seen' = seen \cup {s} /\ disc.at = "select"
             /\ disc' = disc \/ (active = None /\ DiscIs("probe", disc.service))
  <2>1. /\ seen' = seen \cup {s} /\ disc.at = "select"
        /\ disc' = disc \/ (active = None /\ disc' = [disc EXCEPT !.at = "probe", !.left = Candidates])
    BY <1>2 DEF BrowserUpdate, RetryConnect, ConnectBest
  <2>2. Candidates \in SUBSET Service
    BY <1>1, <2>1 DEF Candidates
  <2>3. \A left \in SUBSET Service : disc' = [disc EXCEPT !.at = "probe", !.left = left] => DiscIs("probe", disc.service)
    BY <1>1 DEF DiscType, DiscIs
  <2> QED BY <2>1, <2>2, <2>3
<1>3. ASSUME NEW s \in Service, Probe(s)
      PROVE  \/ DiscIs("select", disc.service) \/ DiscIs("probe", disc.service)
             \/ (Running /\ DiscIs("probed", s))
  <2>1. CASE s \in alive /\ Running
    BY <2>1, <1>1, <1>3 DEF Probe, DiscType, DiscIs
  <2>2. CASE ~(s \in alive /\ Running)
    <3>1. PICK at \in {"select", "probe"} : disc' = [disc EXCEPT !.left = disc.left \ {s}, !.at = at]
      BY <2>2, <1>3 DEF Probe
    <3>2. disc.left \ {s} \in SUBSET Service
      BY <1>1 DEF DiscType
    <3> QED BY <1>1, <3>1, <3>2 DEF DiscType, DiscIs
  <2> QED BY <2>1, <2>2
<1>4. \A at \in {"select", "connect", "clear", "done"} : disc' = [disc EXCEPT !.at = at] => DiscIs(at, disc.service)
  BY <1>1 DEF DiscType, DiscIs
<1>5. SetActive => DiscIs("select", None)
  BY <1>1 DEF SetActive, DiscType, DiscIs
<1> QED BY <1>2, <1>3, <1>4, <1>5 DEF ProbeSetsTarget, TakeFailure, ClearQueryRuntime, DiscoveryStops

\* Discovery and its memory change in no other step.
LEMMA DiscFrame ==
    ASSUME ConfTypes, Next
    PROVE  \/ disc' = disc /\ (seen' = seen \/ \E s \in Service : seen' = seen \ {s})
           \/ \E s \in Service : BrowserUpdate(s) \/ (Probe(s) /\ seen' = seen)
           \/ RetryConnect /\ seen' = seen
           \/ (ProbeSetsTarget \/ SetActive \/ TakeFailure \/ ClearQueryRuntime \/ DiscoveryStops) /\ seen' = seen
<1>1. conf.services \subseteq Service
  BY ConfigAssumption DEF ConfTypes
<1>2. ASSUME NEW s \in conf.services, BrowserUpdate(s) \/ Appear(s) \/ Forget(s)
      PROVE  (disc' = disc /\ (seen' = seen \/ seen' = seen \ {s})) \/ BrowserUpdate(s)
  BY <1>2 DEF Appear, Forget
<1>3. ASSUME NEW c \in Conn, Work(c) \/ PathChanged(c) PROVE UNCHANGED <<disc, seen>>
  BY <1>3, Zenon DEF Work, PathChanged, ReadRevision, AskAvatar, DiscoverActiveAvatar, Start, TakeRefresh, Poll, RefreshFails,
     RefreshAnswered, RefreshCatalog, WorkerStops, discVars
<1>4. ASSUME Discovery
      PROVE  \/ (\E s \in Service : Probe(s)) /\ seen' = seen
             \/ RetryConnect /\ seen' = seen
             \/ (ProbeSetsTarget \/ SetActive \/ TakeFailure \/ ClearQueryRuntime \/ DiscoveryStops) /\ seen' = seen
  BY <1>4, Zenon DEF Discovery, RetryConnect, ProbeSetsTarget, SetActive, TakeFailure, ClearQueryRuntime, DiscoveryStops, Probe
<1>5. ASSUME \/ RetryFires \/ SendLoop \/ Close \/ Shutdown \/ SwitchAvatar \/ AcceptAvatarChange \/ PlannerTakes
             \/ InstallCatalog \/ \E v \in conf.values : Publish(v) \/ SetFloat(v)
      PROVE  UNCHANGED <<disc, seen>>
  BY <1>5, Zenon DEF RetryFires, SendLoop, Close, Shutdown, CloseClears, CloseEnds, SwitchAvatar, AcceptAvatarChange,
     PlannerTakes, InstallCatalog, Publish, SetFloat, discVars
<1> QED BY <1>1, <1>2, <1>3, <1>4, <1>5 DEF Next

LEMMA DiscTyped ==
    ASSUME Types, Next PROVE DiscTypes'
<1>1. CASE disc' = disc /\ (seen' = seen \/ \E s \in Service : seen' = seen \ {s})
  BY <1>1 DEF Types, DiscTypes
<1>2. CASE \E s \in Service : BrowserUpdate(s) \/ (Probe(s) /\ seen' = seen)
  BY <1>2, DiscoverySteps DEF Types, DiscTypes, DiscIs
<1>3. CASE RetryConnect /\ seen' = seen
  <2>1. PICK s \in Service : s \in seen
    BY <1>3 DEF Types, DiscTypes, RetryConnect
  <2> QED BY <1>3, <2>1, DiscoverySteps DEF Types, DiscTypes, DiscIs
<1>4. CASE (ProbeSetsTarget \/ SetActive \/ TakeFailure \/ ClearQueryRuntime \/ DiscoveryStops) /\ seen' = seen
  <2>1. ProbeSetsTarget => disc.service \in Service
    BY DEF Types, DiscTypes, ProbeSetsTarget
  <2> QED BY <1>4, <2>1, DiscoverySteps DEF Types, DiscTypes, DiscIs
<1> QED BY <1>1, <1>2, <1>3, <1>4, DiscFrame DEF Types

-----------------------------------------------------------------------------
(* What a step makes of connections. *)

\* Connections, the one in use and their failures change in no other step.
LEMMA ConnFrame ==
    ASSUME Next
    PROVE  \/ UNCHANGED <<conn, active, failed>>
           \/ \E c \in Conn : Work(c) /\ active' = active
           \/ SetActive \/ TakeFailure \/ CloseClears
<1>1. ASSUME NEW c \in Conn, Work(c) PROVE active' = active
  BY <1>1, Zenon DEF Work, ReadRevision, AskAvatar, DiscoverActiveAvatar, Start, TakeRefresh, Poll, RefreshFails,
     RefreshAnswered, RefreshCatalog, WorkerStops
<1>2. ASSUME NEW s \in conf.services, BrowserUpdate(s) \/ Appear(s) \/ Forget(s) PROVE UNCHANGED <<conn, active, failed>>
  BY <1>2, Zenon DEF BrowserUpdate, Appear, Forget, workVars
<1>3. ASSUME Discovery PROVE UNCHANGED <<conn, active, failed>> \/ SetActive \/ TakeFailure
  BY <1>3, Zenon DEF Discovery, RetryConnect, ProbeSetsTarget, ClearQueryRuntime, DiscoveryStops, Probe, workVars
<1>4. ASSUME \/ RetryFires \/ SendLoop \/ Close \/ CloseEnds \/ SwitchAvatar \/ AcceptAvatarChange \/ PlannerTakes
             \/ InstallCatalog \/ \E v \in conf.values : Publish(v) \/ SetFloat(v)
      PROVE  UNCHANGED <<conn, active, failed>>
  BY <1>4, Zenon DEF RetryFires, SendLoop, Close, CloseEnds, SwitchAvatar, AcceptAvatarChange,
     PlannerTakes, InstallCatalog, Publish, SetFloat, workVars
<1>5. ASSUME NEW c \in Conn, PathChanged(c) PROVE UNCHANGED <<conn, active, failed>>
  BY <1>5, Zenon DEF PathChanged
<1> QED BY <1>1, <1>2, <1>3, <1>4, <1>5, Zenon DEF Next, Shutdown

\* The failures that a worker's step leaves.
LEMMA FailedSteps ==
    ASSUME Types, NEW c \in Conn, Work(c)
    PROVE  \/ failed' = failed /\ (RefreshFails(c) /\ conn[c].fails + 1 = MaxFailures => Len(failed) >= FailCapacity)
           \/ RefreshFails(c) /\ conn[c].fails + 1 = MaxFailures /\ Len(failed) < FailCapacity /\ failed' = Append(failed, c)
<1>1. CASE RefreshFails(c)
  <2>1. Len(failed) \in Nat /\ FailCapacity \in Nat
    BY ServiceAssumption DEF Types, WorkTypes
  <2> QED BY <1>1, <2>1 DEF RefreshFails
<1>2. CASE ~RefreshFails(c)
  BY <1>2, Zenon DEF Work, ReadRevision, AskAvatar, DiscoverActiveAvatar, Start, TakeRefresh, Poll,
     RefreshAnswered, RefreshCatalog, WorkerStops
<1> QED BY <1>1, <1>2

\* A connection is made with a worker that is done.
LEMMA Connects ==
    ASSUME Types, FreeConn, SetActive
    PROVE  /\ active' \in Conn /\ conn' \in [Conn -> WorkerType] /\ failed' = failed
           /\ \A c \in Conn :
                 IF c = active' THEN conn'[c].at = "discover" /\ ~conn'[c].cancelled /\ ~conn'[c].force /\ conn'[c].rev = 0
                 ELSE conn'[c].at = "done" /\ conn'[c].force = conn[c].force /\ conn'[c].rev = conn[c].rev
<1> DEFINE c == CHOOSE d \in Conn : conn[d].at = "done"
           w == [Worker EXCEPT !.at = "discover", !.service = disc.service]
           rest(d) == [conn[d] EXCEPT !.cancelled = conn[d].cancelled \/ d = active]
<1>1. \A d \in Conn : conn[d].at = "done"
  BY DEF SetActive, FreeConn
<1>2. c \in Conn
  BY <1>1, ConnAssumption
<1>3. w \in WorkerType /\ w.at = "discover" /\ ~w.cancelled /\ ~w.force /\ w.rev = 0
  <2>1. disc.service \in Service \cup {None}
    BY DEF Types, DiscTypes, DiscType
  <2>2. Worker \in WorkerType
    BY WorkerIsTyped DEF Types
  <2> QED BY <2>1, <2>2 DEF Worker, WorkerType, Phases
<1>4. ASSUME NEW d \in Conn
      PROVE  rest(d) \in WorkerType /\ rest(d).at = "done" /\ rest(d).force = conn[d].force /\ rest(d).rev = conn[d].rev
  <2>1. conn[d] \in WorkerType
    BY DEF Types, WorkTypes
  <2>2. PICK b \in BOOLEAN : b = (conn[d].cancelled \/ d = active)
    OBVIOUS
  <2>3. rest(d) = [conn[d] EXCEPT !.cancelled = b]
    BY <2>2
  <2> HIDE DEF rest
  <2> QED BY <1>1, <2>1, <2>3 DEF WorkerType
<1>5. active' = c /\ conn' = [d \in Conn |-> IF d = c THEN w ELSE rest(d)] /\ failed' = failed
  BY DEF SetActive
<1> HIDE DEF c, w, rest
<1> QED BY <1>2, <1>3, <1>4, <1>5

\* Dropping the connection in use cancels its worker.
LEMMA Drops ==
    ASSUME Types, DropActive
    PROVE  /\ active' = None /\ conn' \in [Conn -> WorkerType]
           /\ \A c \in Conn : conn'[c].at = conn[c].at /\ conn'[c].force = conn[c].force /\ conn'[c].rev = conn[c].rev
                              /\ conn'[c].got = conn[c].got
<1>1. \A c \in Conn : conn[c] \in WorkerType
  BY DEF Types, WorkTypes
<1>2. ASSUME NEW c \in Conn
      PROVE  LET w == [conn[c] EXCEPT !.cancelled = conn[c].cancelled \/ c = active] IN
             w \in WorkerType /\ w.at = conn[c].at /\ w.force = conn[c].force /\ w.rev = conn[c].rev /\ w.got = conn[c].got
  <2>1. PICK b \in BOOLEAN : b = (conn[c].cancelled \/ c = active)
    OBVIOUS
  <2>2. [conn[c] EXCEPT !.cancelled = conn[c].cancelled \/ c = active] = [conn[c] EXCEPT !.cancelled = b]
    BY <2>1
  <2> QED BY <1>1, <2>2 DEF WorkerType
<1>3. conn' = [c \in Conn |-> [conn[c] EXCEPT !.cancelled = conn[c].cancelled \/ c = active]] /\ active' = None
  BY DEF DropActive
<1> QED BY <1>2, <1>3

LEMMA ConnTyped ==
    ASSUME Types, FreeConn, Next
    PROVE  /\ active' \in Conn \cup {None} /\ conn' \in [Conn -> WorkerType] /\ failed' \in Seq(Conn)
           /\ \A c \in Conn : conn'[c].force => conn'[c].at \in {"query", "install"}
<1>1. /\ active \in Conn \cup {None} /\ conn \in [Conn -> WorkerType] /\ failed \in Seq(Conn)
      /\ \A c \in Conn : conn[c].force => conn[c].at \in {"query", "install"}
  BY DEF Types, WorkTypes
<1>2. CASE UNCHANGED <<conn, active, failed>>
  BY <1>1, <1>2
<1>3. ASSUME NEW c \in Conn, Work(c), active' = active
      PROVE  active' \in Conn \cup {None} /\ conn' \in [Conn -> WorkerType] /\ failed' \in Seq(Conn)
             /\ \A d \in Conn : conn'[d].force => conn'[d].at \in {"query", "install"}
  <2>1. failed' \in Seq(Conn)
    BY <1>1, <1>3, FailedSteps
  <2>2. /\ conn' \in [Conn -> WorkerType] /\ \A d \in Conn \ {c} : conn'[d] = conn[d]
        /\ conn'[c].force => conn'[c].at \in {"query", "install"}
    BY <1>1, <1>3, WorkerSteps DEF Becomes, Work
  <2> QED BY <1>1, <1>3, <2>1, <2>2
<1>4. CASE SetActive
  <2>1. \A c \in Conn : ~conn[c].force
    BY <1>1, <1>4 DEF SetActive, FreeConn
  <2> QED BY <1>1, <1>4, <2>1, Connects
<1>5. CASE TakeFailure
  <2>1. failed' \in Seq(Conn)
    BY <1>1, <1>5 DEF TakeFailure
  <2> QED BY <1>1, <1>5, <2>1, Drops DEF TakeFailure
<1>6. CASE CloseClears
  BY <1>1, <1>6, Drops DEF CloseClears
<1> QED BY <1>2, <1>3, <1>4, <1>5, <1>6, ConnFrame

\* A request is dropped when the channel is full.
LEMMA Enqueues ==
    ASSUME Types, NEW force \in BOOLEAN, EnqueueRefresh(force)
    PROVE  /\ refresh' \in Seq(BOOLEAN) /\ ghost' \in [missed : BOOLEAN, dropped : BOOLEAN] /\ ghost'.missed = ghost.missed
           /\ ghost.dropped => ghost'.dropped
           /\ \A k \in DOMAIN refresh : k \in DOMAIN refresh' /\ refresh'[k] = refresh[k]
           /\ force /\ Query => ghost'.dropped \/ \E k \in DOMAIN refresh' : refresh'[k]
<1>1. refresh \in Seq(BOOLEAN) /\ ghost \in [missed : BOOLEAN, dropped : BOOLEAN]
  BY DEF Types, WorkTypes, AvatarTypes
<1>2. PICK b \in BOOLEAN : b = (ghost.dropped \/ (force /\ Full /\ Query))
  OBVIOUS
<1>3. ghost' = [ghost EXCEPT !.dropped = b]
  BY <1>2 DEF EnqueueRefresh
<1>4. ghost' \in [missed : BOOLEAN, dropped : BOOLEAN] /\ ghost'.missed = ghost.missed /\ ghost'.dropped = b
  BY <1>1, <1>3
<1>5. CASE Full
  BY <1>1, <1>2, <1>4, <1>5 DEF EnqueueRefresh
<1>6. CASE ~Full
  <2>1. refresh' = Append(refresh, force)
    BY <1>6 DEF EnqueueRefresh
  <2>2. refresh' \in Seq(BOOLEAN) /\ \A k \in DOMAIN refresh : k \in DOMAIN refresh' /\ refresh'[k] = refresh[k]
    BY <1>1, <2>1
  <2>3. Len(refresh) + 1 \in DOMAIN refresh' /\ refresh'[Len(refresh) + 1] = force
    BY <1>1, <2>1
  <2> QED BY <1>2, <1>4, <2>2, <2>3
<1> QED BY <1>5, <1>6

\* The requests and the retries change in these steps.
LEMMA RefreshFrame ==
    ASSUME Next
    PROVE  \/ refresh' = refresh /\ timers' = timers
           \/ RetryFires \/ AcceptAvatarChange
           \/ \E c \in Conn : PathChanged(c) \/ DiscoverActiveAvatar(c) \/ Start(c) \/ TakeRefresh(c)
<1>1. ASSUME NEW c \in Conn, Work(c)
      PROVE  (refresh' = refresh /\ timers' = timers) \/ DiscoverActiveAvatar(c) \/ Start(c) \/ TakeRefresh(c)
  BY <1>1, Zenon DEF Work, ReadRevision, AskAvatar, Poll, RefreshFails, RefreshAnswered, RefreshCatalog, WorkerStops
<1>2. ASSUME NEW s \in conf.services, BrowserUpdate(s) \/ Appear(s) \/ Forget(s) PROVE refresh' = refresh /\ timers' = timers
  BY <1>2, Zenon DEF BrowserUpdate, Appear, Forget, workVars
<1>3. ASSUME Discovery PROVE refresh' = refresh /\ timers' = timers
  BY <1>3, Zenon DEF Discovery, RetryConnect, ProbeSetsTarget, SetActive, TakeFailure, ClearQueryRuntime, DiscoveryStops, Probe, workVars
<1>4. ASSUME \/ SendLoop \/ Close \/ Shutdown \/ SwitchAvatar \/ PlannerTakes
             \/ InstallCatalog \/ \E v \in conf.values : Publish(v) \/ SetFloat(v)
      PROVE  refresh' = refresh /\ timers' = timers
  BY <1>4, Zenon DEF SendLoop, Close, Shutdown, CloseClears, CloseEnds, SwitchAvatar,
     PlannerTakes, InstallCatalog, Publish, SetFloat, workVars
<1> QED BY <1>1, <1>2, <1>3, <1>4, Zenon DEF Next

\* A change of avatar is published, and in query mode refreshes are requested.
LEMMA Published ==
    ASSUME Types, NEW a \in Avatars, NEW wire \in Seq(Avatars), NEW missed \in BOOLEAN, AvatarChanged(a, wire, missed)
    PROVE  /\ refresh' \in Seq(BOOLEAN) /\ timers' \in Nat /\ ghost' \in [missed : BOOLEAN, dropped : BOOLEAN]
           /\ avatar' \in [world : Avatars, wire : Seq(Avatars), id : Avatars \cup {None}, revision : Nat,
                           box : Avatars \cup {None}]
           /\ avatar'.world = avatar.world /\ avatar'.wire = wire /\ avatar'.id = a
           /\ avatar'.revision = avatar.revision + 1 /\ avatar'.box = (IF Query THEN None ELSE a)
           /\ ghost'.missed = missed
           /\ Query => ghost'.dropped \/ \E k \in DOMAIN refresh' : refresh'[k]
<1>1. /\ refresh \in Seq(BOOLEAN) /\ timers \in Nat /\ ghost \in [missed : BOOLEAN, dropped : BOOLEAN]
      /\ avatar \in [world : Avatars, wire : Seq(Avatars), id : Avatars \cup {None}, revision : Nat, box : Avatars \cup {None}]
  BY DEF Types, WorkTypes, AvatarTypes
<1>2. refresh' \in Seq(BOOLEAN) /\ (Query => Full \/ \E k \in DOMAIN refresh' : refresh'[k])
  <2>1. CASE Query /\ ~Full
    <3>1. refresh' = Append(refresh, TRUE)
      BY <2>1 DEF AvatarChanged
    <3>2. refresh' \in Seq(BOOLEAN) /\ Len(refresh) + 1 \in DOMAIN refresh' /\ refresh'[Len(refresh) + 1] = TRUE
      BY <1>1, <3>1
    <3> QED BY <3>2
  <2>2. CASE ~(Query /\ ~Full)
    BY <1>1, <2>2 DEF AvatarChanged
  <2> QED BY <2>1, <2>2
<1>3. timers' \in Nat
  BY <1>1, ServiceAssumption DEF AvatarChanged
<1>4. ghost' \in [missed : BOOLEAN, dropped : BOOLEAN] /\ ghost'.missed = missed /\ (Query /\ Full => ghost'.dropped)
  <2>1. PICK b \in BOOLEAN : b = (ghost.dropped \/ (Query /\ Full))
    OBVIOUS
  <2>2. ghost' = [missed |-> missed, dropped |-> b]
    BY <2>1 DEF AvatarChanged
  <2> QED BY <2>1, <2>2
<1>5. /\ avatar' \in [world : Avatars, wire : Seq(Avatars), id : Avatars \cup {None}, revision : Nat, box : Avatars \cup {None}]
      /\ avatar'.world = avatar.world /\ avatar'.wire = wire /\ avatar'.id = a
      /\ avatar'.revision = avatar.revision + 1 /\ avatar'.box = (IF Query THEN None ELSE a)
  <2>1. PICK n \in Nat, box \in Avatars \cup {None} : n = avatar.revision + 1 /\ box = (IF Query THEN None ELSE a)
    <3>1. avatar.revision \in Nat
      BY <1>1
    <3> QED BY <3>1
  <2>2. avatar' = [avatar EXCEPT !.revision = n, !.id = a, !.wire = wire, !.box = box]
    BY <2>1 DEF AvatarChanged
  <2> QED BY <1>1, <2>1, <2>2
<1> QED BY <1>2, <1>3, <1>4, <1>5

LEMMA AvatarFields ==
    ASSUME Types
    PROVE  /\ avatar \in [world : Avatars, wire : Seq(Avatars), id : Avatars \cup {None}, revision : Nat, box : Avatars \cup {None}]
           /\ avatar.world \in Avatars /\ avatar.wire \in Seq(Avatars) /\ avatar.revision \in Nat /\ 0 \in Avatars
           /\ avatar.id \in Avatars \cup {None} /\ avatar.box \in Avatars \cup {None}
           /\ Avatars \subseteq Nat /\ None \notin Avatars /\ ghost.missed \in BOOLEAN /\ ghost.dropped \in BOOLEAN
           /\ conf.avatars \in Nat
  BY ConfigAssumption, ConnAssumption DEF Types, ConfTypes, AvatarTypes, Avatars

\* A message is accepted.
LEMMA Accepts ==
    ASSUME Types, AcceptAvatarChange
    PROVE  /\ avatar.wire # <<>> /\ Head(avatar.wire) \in Avatars /\ Tail(avatar.wire) \in Seq(Avatars)
           /\ AvatarChanged(Head(avatar.wire), Tail(avatar.wire), ghost.missed)
           /\ ghost.missed \in BOOLEAN
  BY AvatarFields DEF AcceptAvatarChange

\* An answer is taken or ignored.
LEMMA Answered ==
    ASSUME Types, NEW c \in Conn, DiscoverActiveAvatar(c)
    PROVE  /\ conn[c].at = "told" /\ conn[c].got \in Avatars
           /\ \/ UNCHANGED <<avatar, refresh, timers, ghost>>
              \/ /\ avatar.revision = conn[c].rev /\ ~Cancelled(c)
                 /\ AvatarChanged(conn[c].got, avatar.wire, ghost.missed /\ (conn[c].got # avatar.world \/ avatar.wire # <<>>))
                 /\ (ghost.missed /\ (conn[c].got # avatar.world \/ avatar.wire # <<>>)) \in BOOLEAN
<1>1. conn[c].got \in Avatars
  BY DEF Types, WorkTypes, WorkerType
<1> QED BY <1>1 DEF DiscoverActiveAvatar

LEMMA RefreshTyped ==
    ASSUME Types, Next PROVE refresh' \in Seq(BOOLEAN) /\ timers' \in Nat
<1>1. refresh \in Seq(BOOLEAN) /\ timers \in Nat
  BY DEF Types, WorkTypes
<1>2. CASE RetryFires
  <2>1. timers' \in Nat
    BY <1>1, <1>2 DEF RetryFires
  <2> QED BY <1>1, <1>2, <2>1, Enqueues DEF RetryFires
<1>3. CASE AcceptAvatarChange
  BY <1>3, Accepts, Published
<1>4. ASSUME NEW c \in Conn, PathChanged(c) \/ DiscoverActiveAvatar(c) \/ Start(c) \/ TakeRefresh(c)
      PROVE  refresh' \in Seq(BOOLEAN) /\ timers' \in Nat
  <2>1. CASE PathChanged(c)
    BY <1>1, <2>1, Enqueues DEF PathChanged
  <2>2. CASE Start(c)
    BY <1>1, <2>2, Enqueues DEF Start
  <2>3. CASE TakeRefresh(c)
    BY <1>1, <2>3 DEF TakeRefresh
  <2>4. CASE DiscoverActiveAvatar(c)
    BY <1>1, <2>4, Answered, AvatarFields, Published
  <2> QED BY <1>4, <2>1, <2>2, <2>3, <2>4
<1> QED BY <1>1, <1>2, <1>3, <1>4, RefreshFrame

\* VRChat's avatar, what is known of it, and the coordinator change in these steps.
LEMMA AvatarFrame ==
    ASSUME Next
    PROVE  \/ UNCHANGED <<avatar, planner, ghost>>
           \/ RetryFires \/ AcceptAvatarChange \/ SwitchAvatar \/ PlannerTakes \/ InstallCatalog
           \/ \E v \in conf.values : SetFloat(v)
           \/ \E c \in Conn : \/ PathChanged(c) \/ DiscoverActiveAvatar(c) \/ Start(c)
                              \/ RefreshFails(c) \/ RefreshCatalog(c)
<1>1. ASSUME NEW c \in Conn, Work(c)
      PROVE  \/ UNCHANGED <<avatar, planner, ghost>>
             \/ DiscoverActiveAvatar(c) \/ Start(c) \/ RefreshFails(c) \/ RefreshCatalog(c)
  BY <1>1, Zenon DEF Work, ReadRevision, AskAvatar, TakeRefresh, Poll, RefreshAnswered, WorkerStops
<1>2. ASSUME NEW s \in conf.services, BrowserUpdate(s) \/ Appear(s) \/ Forget(s) PROVE UNCHANGED <<avatar, planner, ghost>>
  BY <1>2, Zenon DEF BrowserUpdate, Appear, Forget
<1>3. ASSUME Discovery PROVE UNCHANGED <<avatar, planner, ghost>>
  BY <1>3, Zenon DEF Discovery, RetryConnect, ProbeSetsTarget, SetActive, TakeFailure, ClearQueryRuntime, DiscoveryStops, Probe
<1>4. ASSUME SendLoop \/ Close \/ Shutdown \/ \E v \in conf.values : Publish(v) PROVE UNCHANGED <<avatar, planner, ghost>>
  BY <1>4, Zenon DEF SendLoop, Close, Shutdown, CloseClears, CloseEnds, Publish
<1> QED BY <1>1, <1>2, <1>3, <1>4, Zenon DEF Next

\* VRChat changes the avatar, and the message is sent or lost.
LEMMA Switches ==
    ASSUME Types, SwitchAvatar
    PROVE  /\ avatar' \in [world : Avatars, wire : Seq(Avatars), id : Avatars \cup {None}, revision : Nat, box : Avatars \cup {None}]
           /\ avatar'.world = avatar.world + 1
           /\ avatar'.id = avatar.id /\ avatar'.revision = avatar.revision /\ avatar'.box = avatar.box
           /\ ghost' \in [missed : BOOLEAN, dropped : BOOLEAN] /\ ghost'.dropped = ghost.dropped
           /\ ghost'.missed \/ avatar'.wire = Append(avatar.wire, avatar'.world)
           /\ planner' = planner
<1>1. PICK missed \in BOOLEAN :
         /\ avatar' = [avatar EXCEPT !.world = avatar.world + 1,
                                     !.wire = IF missed THEN avatar.wire ELSE Append(avatar.wire, avatar.world + 1)]
         /\ ghost' = [ghost EXCEPT !.missed = missed] /\ avatar.world < conf.avatars /\ planner' = planner
  BY DEF SwitchAvatar
<1>2. PICK a \in Avatars, wire \in Seq(Avatars) :
         a = avatar.world + 1 /\ wire = (IF missed THEN avatar.wire ELSE Append(avatar.wire, a))
  <2>1. avatar.world + 1 \in Avatars
    BY <1>1, AvatarFields DEF Avatars
  <2>2. Append(avatar.wire, avatar.world + 1) \in Seq(Avatars)
    BY <2>1, AvatarFields
  <2> QED BY <2>1, <2>2, AvatarFields
<1>3. avatar' = [avatar EXCEPT !.world = a, !.wire = wire]
  BY <1>1, <1>2
<1>4. /\ avatar' \in [world : Avatars, wire : Seq(Avatars), id : Avatars \cup {None}, revision : Nat, box : Avatars \cup {None}]
      /\ avatar'.world = a /\ avatar'.wire = wire
      /\ avatar'.id = avatar.id /\ avatar'.revision = avatar.revision /\ avatar'.box = avatar.box
  BY <1>3, AvatarFields
<1>5. ghost' \in [missed : BOOLEAN, dropped : BOOLEAN] /\ ghost'.dropped = ghost.dropped /\ ghost'.missed = missed
  BY <1>1 DEF Types, AvatarTypes
<1> QED BY <1>1, <1>2, <1>4, <1>5

PlannerType == [at : {"idle", "plan"}, avatar : Avatars \cup {None}, value : Value \cup {Invalid}]

\* The coordinator takes the change.
LEMMA Takes ==
    ASSUME Types, PlannerTakes
    PROVE  /\ avatar' \in [world : Avatars, wire : Seq(Avatars), id : Avatars \cup {None}, revision : Nat, box : Avatars \cup {None}]
           /\ avatar'.world = avatar.world /\ avatar'.wire = avatar.wire /\ avatar'.id = avatar.id
           /\ avatar'.revision = avatar.revision /\ avatar'.box = None
           /\ planner' \in PlannerType /\ planner'.at = "plan" /\ planner'.avatar = avatar.box /\ planner'.avatar \in Avatars
           /\ planner'.value = planner.value
           /\ ghost' = ghost /\ ~Query /\ avatar.box # None
<1>1. avatar.box \in Avatars /\ ghost' = ghost /\ ~Query /\ avatar.box # None
  BY AvatarFields DEF PlannerTakes
<1>2. planner' \in PlannerType /\ planner'.at = "plan" /\ planner'.avatar = avatar.box /\ planner'.value = planner.value
  BY <1>1 DEF Types, AvatarTypes, PlannerTakes, PlannerType
<1>3. /\ avatar' \in [world : Avatars, wire : Seq(Avatars), id : Avatars \cup {None}, revision : Nat, box : Avatars \cup {None}]
      /\ avatar'.world = avatar.world /\ avatar'.wire = avatar.wire /\ avatar'.id = avatar.id
      /\ avatar'.revision = avatar.revision /\ avatar'.box = None
  BY AvatarFields DEF PlannerTakes
<1> QED BY <1>1, <1>2, <1>3

\* The channel's state and what was dropped, in the steps of a worker.
LEMMA DroppedByWorker ==
    ASSUME Types, NEW c \in Conn
    PROVE  /\ RefreshFails(c) =>
                 /\ ghost' \in [missed : BOOLEAN, dropped : BOOLEAN] /\ ghost'.missed = ghost.missed
                 /\ ghost'.dropped = (ghost.dropped \/ (conn[c].force /\ Query))
           /\ RefreshCatalog(c) =>
                 /\ ghost' \in [missed : BOOLEAN, dropped : BOOLEAN] /\ ghost'.missed = ghost.missed
                 /\ ghost'.dropped = (ghost.dropped /\ ~conn[c].force)
<1>1. ghost \in [missed : BOOLEAN, dropped : BOOLEAN] /\ ghost.dropped \in BOOLEAN
  BY DEF Types, AvatarTypes
<1>2. \A b \in BOOLEAN : ghost' = [ghost EXCEPT !.dropped = b] =>
         ghost' \in [missed : BOOLEAN, dropped : BOOLEAN] /\ ghost'.missed = ghost.missed /\ ghost'.dropped = b
  BY <1>1
<1>3. PICK b \in BOOLEAN, d \in BOOLEAN :
         b = (ghost.dropped \/ (conn[c].force /\ Query)) /\ d = (ghost.dropped /\ ~conn[c].force)
  OBVIOUS
<1>4. RefreshFails(c) => ghost' = [ghost EXCEPT !.dropped = b]
  BY <1>3 DEF RefreshFails
<1>5. RefreshCatalog(c) => ghost' = [ghost EXCEPT !.dropped = d]
  BY <1>3 DEF RefreshCatalog
<1> QED BY <1>2, <1>3, <1>4, <1>5

LEMMA AvatarTyped ==
    ASSUME Types, Next
    PROVE  /\ avatar' \in [world : Avatars, wire : Seq(Avatars), id : Avatars \cup {None}, revision : Nat, box : Avatars \cup {None}]
           /\ planner' \in PlannerType /\ (planner'.at = "plan" => planner'.avatar \in Avatars)
           /\ ghost' \in [missed : BOOLEAN, dropped : BOOLEAN]
<1> DEFINE AvatarType == [world : Avatars, wire : Seq(Avatars), id : Avatars \cup {None}, revision : Nat, box : Avatars \cup {None}]
           GhostType == [missed : BOOLEAN, dropped : BOOLEAN]
<1>1. /\ avatar \in AvatarType /\ ghost \in GhostType
      /\ planner \in PlannerType /\ (planner.at = "plan" => planner.avatar \in Avatars)
  BY DEF Types, AvatarTypes, PlannerType
<1>2. CASE RetryFires
  <2>1. avatar' = avatar /\ planner' = planner /\ (ghost' = ghost \/ EnqueueRefresh(TRUE))
    BY <1>2, Zenon DEF RetryFires
  <2> QED BY <1>1, <2>1, Enqueues
<1>3. CASE AcceptAvatarChange
  <2>1. planner' = planner
    BY <1>3 DEF AcceptAvatarChange
  <2>2. avatar' \in AvatarType /\ ghost' \in GhostType
    BY <1>3, Accepts, Published
  <2> QED BY <1>1, <2>1, <2>2
<1>4. CASE SwitchAvatar
  BY <1>1, <1>4, Switches
<1>5. CASE PlannerTakes
  BY <1>1, <1>5, Takes
<1>6. CASE InstallCatalog
  <2>1. planner' \in PlannerType /\ planner'.at = "idle"
    BY <1>1, <1>6 DEF InstallCatalog, PlannerType
  <2> QED BY <1>1, <1>6, <2>1 DEF InstallCatalog
<1>7. ASSUME NEW v \in conf.values, SetFloat(v) PROVE avatar' \in AvatarType /\ planner' \in PlannerType
             /\ (planner'.at = "plan" => planner'.avatar \in Avatars) /\ ghost' \in GhostType
  <2>1. v \in Value \cup {Invalid}
    BY ConfigAssumption DEF Types, ConfTypes
  <2>2. planner' \in PlannerType /\ planner'.at = planner.at /\ planner'.avatar = planner.avatar
    BY <1>1, <1>7, <2>1 DEF SetFloat, PlannerType
  <2> QED BY <1>1, <1>7, <2>2 DEF SetFloat
<1>8. ASSUME NEW c \in Conn,
             \/ PathChanged(c) \/ DiscoverActiveAvatar(c) \/ Start(c) \/ RefreshFails(c) \/ RefreshCatalog(c)
      PROVE  avatar' \in AvatarType /\ planner' = planner /\ ghost' \in GhostType
  <2>1. CASE PathChanged(c) \/ Start(c)
    <3>1. avatar' = avatar /\ planner' = planner /\ \E b \in BOOLEAN : EnqueueRefresh(b)
      BY <2>1, Zenon DEF PathChanged, Start
    <3> QED BY <1>1, <3>1, Enqueues
  <2>2. CASE DiscoverActiveAvatar(c)
    <3>1. planner' = planner
      BY <2>2 DEF DiscoverActiveAvatar
    <3> QED BY <1>1, <2>2, <3>1, Answered, Published, AvatarFields
  <2>3. CASE RefreshFails(c)
    BY <1>1, <2>3, DroppedByWorker DEF RefreshFails
  <2>4. CASE RefreshCatalog(c)
    BY <1>1, <2>4, DroppedByWorker DEF RefreshCatalog
  <2> QED BY <1>8, <2>1, <2>2, <2>3, <2>4
<1>9. CASE UNCHANGED <<avatar, planner, ghost>>
  BY <1>1, <1>9
<1> QED BY <1>1, <1>2, <1>3, <1>4, <1>5, <1>6, <1>7, <1>8, <1>9, AvatarFrame

-----------------------------------------------------------------------------
(* What a step makes of the sender. *)

LEMMA SendFrame ==
    ASSUME Next
    PROVE  \/ UNCHANGED senderVars
           \/ ProbeSetsTarget \/ SetActive \/ TakeFailure \/ ClearQueryRuntime \/ SendLoop \/ CloseClears
           \/ SwitchAvatar \/ PlannerTakes \/ InstallCatalog
           \/ \E v \in conf.values : Publish(v) \/ SetFloat(v)
           \/ \E c \in Conn : RefreshCatalog(c)
<1>1. ASSUME NEW c \in Conn, Work(c) \/ PathChanged(c)
      PROVE  UNCHANGED senderVars \/ RefreshCatalog(c)
  BY <1>1, Zenon DEF Work, PathChanged, ReadRevision, AskAvatar, DiscoverActiveAvatar, Start, TakeRefresh, Poll, RefreshFails,
     RefreshAnswered, WorkerStops
<1>2. ASSUME NEW s \in conf.services, BrowserUpdate(s) \/ Appear(s) \/ Forget(s) PROVE UNCHANGED senderVars
  BY <1>2, Zenon DEF BrowserUpdate, Appear, Forget
<1>3. ASSUME Discovery PROVE UNCHANGED senderVars \/ ProbeSetsTarget \/ SetActive \/ TakeFailure \/ ClearQueryRuntime
  BY <1>3, Zenon DEF Discovery, RetryConnect, DiscoveryStops, Probe
<1>4. ASSUME RetryFires \/ Close \/ CloseEnds \/ AcceptAvatarChange PROVE UNCHANGED senderVars
  BY <1>4, Zenon DEF RetryFires, Close, CloseEnds, AcceptAvatarChange
<1> QED BY <1>1, <1>2, <1>3, <1>4, Zenon DEF Next, Shutdown

\* A datagram is a part of what is due: none that is due is left out before its last.
LEMMA DatagramIsPrefix ==
    ASSUME Types, catalog # 0, pass.at = "sending", Due # {}
    PROVE  /\ Datagram \subseteq Due /\ Due \subseteq 1 .. Len(Output)
           /\ Max(Datagram) \in Datagram /\ \A i \in Datagram : i <= Max(Datagram)
           /\ \A i \in Due : i <= Max(Datagram) => i \in Datagram
<1> DEFINE n == Len(Output)
           first == Min(Due)
           bundled == {i \in Due : \A j \in Due : j <= i => ~Output[j].large}
           upto(i) == {j \in bundled : j <= i}
           fits == {i \in bundled : Cardinality(upto(i)) <= BundleSize}
<1>1. n \in Nat /\ Due \subseteq 1 .. n /\ BundleSize \in Nat \ {0}
  <2>1. catalog \in DOMAIN Catalog
    BY DEF Types, SendTypes
  <2>2. n \in Nat
    BY <2>1, CatalogAssumption DEF Output
  <2>3. pass.next \in Nat \ {0}
    BY DEF Types, SendTypes, PassType
  <2> QED BY <2>2, <2>3, CatalogAssumption DEF Due
<1>2. Datagram = IF Output[first].large THEN {first} ELSE fits
  BY DEF Datagram
<1> HIDE DEF n
<1>3. first \in Due /\ \A i \in Due : first <= i
  <2>1. Due \in SUBSET Nat
    BY <1>1
  <2> HIDE DEF first
  <2> QED BY <2>1, MinIsLeast DEF first
<1> HIDE DEF first
<1>4. \A i \in Due : i \in Nat
  BY <1>1
<1>5. /\ Datagram \subseteq Due /\ first \in Datagram
      /\ \A i \in Datagram, j \in Due : j <= i => j \in Datagram
  <2>1. CASE Output[first].large
    BY <1>2, <1>3, <1>4, <2>1
  <2>2. CASE ~Output[first].large
    <3>1. first \in bundled
      BY <1>3, <1>4, <2>2
    <3>2. IsFiniteSet(bundled)
      <4>1. IsFiniteSet(1 .. n)
        BY <1>1, FS_Interval
      <4> QED BY <4>1, <1>1, FS_Subset
    <3>3. \A i \in bundled, j \in Due : j <= i => j \in bundled
      BY <1>4
    <3>4. bundled \subseteq Due
      OBVIOUS
    <3> HIDE DEF bundled
    <3>5. \A i \in bundled : IsFiniteSet(upto(i))
      BY <3>2, FS_Subset
    <3>6. \A i, j \in bundled : j <= i => Cardinality(upto(j)) <= Cardinality(upto(i))
      <4>1. \A i, j \in bundled : j <= i => upto(j) \in SUBSET upto(i)
        BY <1>4, <3>4
      <4> HIDE DEF upto
      <4> QED BY <4>1, <3>5, FS_Subset
    <3>7. \A i \in bundled : Cardinality(upto(i)) \in Nat
      <4> HIDE DEF upto
      <4> QED BY <3>5, FS_CardinalityType
    <3>8. Cardinality(upto(first)) = 1
      <4>1. upto(first) = {first}
        BY <1>3, <1>4, <3>1, <3>4
      <4> QED BY <4>1, FS_Singleton
    <3> HIDE DEF upto
    <3>9. first \in fits
      BY <1>1, <3>1, <3>8
    <3>10. \A i \in fits, j \in Due : j <= i => j \in fits
      BY <1>1, <3>3, <3>6, <3>7
    <3> QED BY <1>2, <2>2, <3>4, <3>9, <3>10
  <2> QED BY <2>1, <2>2
<1>6. Max(Datagram) \in Datagram /\ \A i \in Datagram : i <= Max(Datagram)
  <2>1. Datagram \in SUBSET Nat /\ Datagram # {} /\ n \in Nat /\ \A i \in Datagram : i <= n
    BY <1>1, <1>5
  <2> QED BY <2>1, MaxIsGreatest
<1> QED BY <1>1, <1>5, <1>6 DEF n

\* A step of the send loop.
LEMMA SendLoopSteps ==
    ASSUME SendLoop
    PROVE  /\ UNCHANGED <<target, catalog, source, conf, life, discVars, workVars, avatar, planner, ghost>>
           /\ \/ BeginPass /\ UNCHANGED <<cache, shown>>
              \/ SendDatagram
              \/ pass.at = "sending" /\ pass' = IdlePass /\ UNCHANGED <<cache, shown>>
  BY Zenon DEF SendLoop, BeginPass, SendDatagram, SendFails, EndPass

LEMMA IdleIsTyped == IdlePass \in PassType /\ IdlePass.at = "idle"
  BY DEF IdlePass, PassType

\* A datagram moves the pass behind what it holds.
LEMMA SendsDatagram ==
    ASSUME Types, catalog # 0, SendDatagram
    PROVE  /\ pass.at = "sending" /\ pass' \in PassType /\ pass'.at = "sending" /\ pass'.next = 1 + Max(Datagram)
           /\ pass'.source = pass.source /\ pass'.ok = pass.ok
           /\ Datagram \subseteq Due /\ Due \subseteq 1 .. Len(Output)
           /\ \A i \in Due : i < pass'.next => i \in Datagram
           /\ Commit(Datagram) /\ target # NoTarget
           /\ DOMAIN shown' = DOMAIN shown
           /\ \A a \in Address \ {target} : shown'[a] = shown[a]
           /\ shown'[target] = [i \in Index |-> IF i \in Datagram THEN EvaluateOutput(i, pass.source) ELSE shown[target][i]]
<1>1. pass.at = "sending" /\ Due # {} /\ target # NoTarget /\ Commit(Datagram) /\ pass' = [pass EXCEPT !.next = 1 + Max(Datagram)]
      /\ shown' = [shown EXCEPT ![target] =
                      [i \in Index |-> IF i \in Datagram THEN EvaluateOutput(i, pass.source) ELSE shown[target][i]]]
  BY DEF SendDatagram
<1>2. /\ Datagram \subseteq Due /\ Due \subseteq 1 .. Len(Output)
      /\ Max(Datagram) \in Datagram /\ \A i \in Due : i <= Max(Datagram) => i \in Datagram
  BY <1>1, DatagramIsPrefix
<1>3. Len(Output) \in Nat
  BY CatalogAssumption DEF Output, Types, SendTypes
<1>4. PICK m \in Nat \ {0} : m = Max(Datagram)
  <2>1. Max(Datagram) \in 1 .. Len(Output)
    BY <1>2, Zenon
  <2>2. \A k \in 1 .. Len(Output) : k \in Nat \ {0}
    BY <1>3
  <2> QED BY <2>1, <2>2
<1>5. pass' \in PassType /\ pass'.at = "sending" /\ pass'.next = 1 + m /\ pass'.source = pass.source /\ pass'.ok = pass.ok
  BY <1>1, <1>4 DEF Types, SendTypes, PassType
<1>6. \A i \in Due : i < pass'.next => i \in Datagram
  BY <1>2, <1>3, <1>4, <1>5
<1>7. /\ DOMAIN shown' = DOMAIN shown /\ \A a \in Address \ {target} : shown'[a] = shown[a]
      /\ shown'[target] = [i \in Index |-> IF i \in Datagram THEN EvaluateOutput(i, pass.source) ELSE shown[target][i]]
  <2> DEFINE f == [i \in Index |-> IF i \in Datagram THEN EvaluateOutput(i, pass.source) ELSE shown[target][i]]
  <2>1. shown' = [shown EXCEPT ![target] = f] /\ target \in Address /\ DOMAIN shown = Address
    BY <1>1 DEF Types, SendTypes
  <2> HIDE DEF f
  <2>2. shown'[target] = f /\ DOMAIN shown' = DOMAIN shown /\ \A a \in Address \ {target} : shown'[a] = shown[a]
    BY <2>1
  <2> QED BY <2>2 DEF f
<1> QED BY <1>1, <1>2, <1>4, <1>5, <1>6, <1>7

\* While a pass sends, there is a catalog and a source, and they are the runtime's.
SendingInv == pass.at = "sending" => catalog # 0 /\ source # NoValue /\ pass.source = source

LEMMA HashIsCatalog ==
    ASSUME ConfTypes, NEW a \in Avatars PROVE Hash(a) \in DOMAIN Catalog /\ Hash(a) # 0
  BY ConfigAssumption, CatalogAssumption DEF ConfTypes, Avatars, Hash

LEMMA SendTyped ==
    ASSUME Types, SendingInv, Next PROVE SendTypes' /\ SendingInv'
<1> USE DEF SendTypes, SendingInv
<1>1. SendTypes /\ (pass.at = "idle" \/ pass.at = "sending") /\ SendingInv
  BY DEF Types, PassType
<1>2. CASE UNCHANGED senderVars
  BY <1>1, <1>2 DEF senderVars
<1>3. CASE ProbeSetsTarget
  <2>1. disc.service \in Address
    BY <1>3, ServiceAssumption DEF ProbeSetsTarget, Types, DiscTypes
  <2>2. target' \in Address \cup {NoTarget} /\ UNCHANGED <<catalog, source, pass, shown>>
    BY <1>1, <1>3, <2>1 DEF ProbeSetsTarget, SetTarget
  <2> QED BY <1>1, <2>2
<1>4. CASE SetActive
  BY <1>1, <1>4 DEF SetActive
<1>5. ASSUME TakeFailure \/ CloseClears
      PROVE  target' \in Address \cup {NoTarget} /\ shown' = shown /\ pass' = pass
             /\ ((catalog' = catalog /\ source' = source) \/ Clear)
  BY <1>1, <1>5 DEF TakeFailure, CloseClears, DropActive, SetTarget, Clear
<1>6. ASSUME Clear PROVE /\ pass.at = "idle" /\ pass' = pass /\ catalog' = 0 /\ source' = NoValue /\ shown' = shown
  BY <1>6 DEF Clear, Unlocked
<1>7. CASE SendLoop
  <2>1. CASE BeginPass /\ UNCHANGED <<cache, shown>>
    BY <1>1, <2>1, IdleIsTyped DEF BeginPass, PassType
  <2>2. CASE SendDatagram
    <3>1. pass.at = "sending" /\ pass' \in PassType /\ pass'.source = pass.source /\ DOMAIN shown' = DOMAIN shown
      BY <1>1, <2>2, SendsDatagram DEF SendDatagram
    <3> QED BY <1>1, <1>7, <3>1, SendLoopSteps
  <2>3. CASE pass.at = "sending" /\ pass' = IdlePass /\ UNCHANGED <<cache, shown>>
    BY <1>1, <1>7, <2>3, IdleIsTyped, SendLoopSteps
  <2> QED BY <1>7, <2>1, <2>2, <2>3, SendLoopSteps
<1>8. CASE SwitchAvatar
  <2>1. DOMAIN shown' = Address /\ UNCHANGED <<target, catalog, source, pass>>
    BY <1>8 DEF SwitchAvatar
  <2> QED BY <1>1, <2>1
<1>9. ASSUME NEW hash \in DOMAIN Catalog, NEW from \in Value \cup {Invalid, NoValue}, Install(hash, from), target' = target
      PROVE  SendTypes' /\ SendingInv'
  BY <1>1, <1>9 DEF Install, Unlocked
<1>10. CASE InstallCatalog
  <2>1. Hash(planner.avatar) \in DOMAIN Catalog
    BY <1>10, HashIsCatalog DEF InstallCatalog, Types, AvatarTypes
  <2>2. Install(Hash(planner.avatar), NoValue) /\ target' = target
    BY <1>10 DEF InstallCatalog
  <2> QED BY <1>9, <2>1, <2>2
<1>11. ASSUME NEW c \in Conn, RefreshCatalog(c) PROVE SendTypes' /\ SendingInv'
  <2>1. CASE catalog # Hash(conn[c].got)
    <3>1. Hash(conn[c].got) \in DOMAIN Catalog /\ planner.value \in Value \cup {Invalid}
      BY HashIsCatalog DEF Types, WorkTypes, WorkerType, AvatarTypes
    <3>2. Install(Hash(conn[c].got), planner.value) /\ target' = target
      BY <1>11, <2>1 DEF RefreshCatalog
    <3> QED BY <1>9, <3>1, <3>2
  <2>2. CASE catalog = Hash(conn[c].got)
    <3>1. UNCHANGED <<target, catalog, source, pass, shown>>
      BY <1>11, <2>2 DEF RefreshCatalog
    <3> QED BY <1>1, <3>1
  <2> QED BY <2>1, <2>2
<1>12. ASSUME NEW v \in conf.values, Publish(v) \/ SetFloat(v) PROVE SendTypes' /\ SendingInv'
  <2>1. v \in Value \cup {Invalid} /\ v # NoValue
    BY ConfigAssumption, CatalogAssumption DEF Types, ConfTypes
  <2>2. CASE Publish(v)
    BY <1>1, <2>1, <2>2 DEF Publish, Unlocked
  <2>3. CASE SetFloat(v)
    <3>1. CASE pass.at = "sending"
      <4>1. pass' = [pass EXCEPT !.source = v, !.ok = FALSE] /\ source' = v
        BY <1>1, <2>3, <3>1 DEF SetFloat
      <4>2. pass' \in PassType /\ pass'.source = v
        BY <1>1, <2>1, <4>1 DEF PassType
      <4> QED BY <1>1, <2>1, <2>3, <3>1, <4>1, <4>2 DEF SetFloat
    <3>2. CASE pass.at # "sending"
      BY <1>1, <2>1, <2>3, <3>2 DEF SetFloat
    <3> QED BY <3>1, <3>2
  <2> QED BY <1>12, <2>2, <2>3
<1>13. CASE ClearQueryRuntime \/ PlannerTakes
  <2>1. Clear /\ target' = target
    BY <1>13 DEF ClearQueryRuntime, PlannerTakes
  <2> QED BY <1>1, <1>6, <2>1
<1>14. CASE TakeFailure \/ CloseClears
  BY <1>1, <1>5, <1>6, <1>14
<1> QED BY <1>2, <1>3, <1>4, <1>7, <1>8, <1>10, <1>11, <1>12, <1>13, <1>14, SendFrame

-----------------------------------------------------------------------------
(* One worker at a time. *)

\* While the controller runs, only the connection in use has a worker, it is not
\* cancelled, and no connection is in use while discovery looks for one.
WorkerInv ==
    Running =>
       /\ \A c \in Conn : conn[c].at # "done" => c = active /\ ~conn[c].cancelled
       /\ \A k \in DOMAIN failed : k = 1 /\ failed[k] = active /\ conn[active].at = "done"
       /\ active # None /\ conn[active].at = "done" => failed # <<>>
       /\ disc.at \in {"probe", "probed", "connect", "clear"} => active = None

LEMMA RunningBefore ==
    ASSUME Next, Running' PROVE Running
  BY Zenon DEF Next, Discovery, RetryConnect, ProbeSetsTarget, SetActive, TakeFailure, ClearQueryRuntime, DiscoveryStops,
     Probe, RetryFires, SendLoop, Close, Shutdown, CloseClears, CloseEnds, Work, PathChanged, BrowserUpdate, Appear, Forget,
     SwitchAvatar, AcceptAvatarChange, PlannerTakes, InstallCatalog, Publish, SetFloat, ReadRevision, AskAvatar,
     DiscoverActiveAvatar, Start, TakeRefresh, Poll, RefreshFails, RefreshAnswered, RefreshCatalog, WorkerStops, Running

\* A worker changes nothing of discovery, and it goes on unless it stops or fails.
LEMMA WorkerGoesOn ==
    ASSUME Types, NEW c \in Conn, Work(c)
    PROVE  /\ conn[c].at # "done" /\ \A d \in Conn \ {c} : conn'[d] = conn[d]
           /\ disc' = disc
           /\ \/ conn'[c].at # "done" /\ conn'[c].cancelled = conn[c].cancelled
              \/ RefreshFails(c) /\ conn[c].fails + 1 = MaxFailures
              \/ WorkerStops(c)
<1>1. conn[c].at # "done" /\ disc' = disc
  BY Zenon DEF Work, ReadRevision, AskAvatar, DiscoverActiveAvatar, Start, TakeRefresh, Poll, RefreshFails,
     RefreshAnswered, RefreshCatalog, WorkerStops, discVars
<1>2. ASSUME NEW at \in Phases, NEW force, NEW rev, NEW got, Becomes(c, at, force, rev, got)
      PROVE  /\ \A d \in Conn \ {c} : conn'[d] = conn[d]
             /\ at # "done" => conn'[c].at # "done" /\ conn'[c].cancelled = conn[c].cancelled
  BY <1>2 DEF Becomes
<1> QED BY <1>1, <1>2, WorkerSteps DEF Work, Phases

LEMMA WorkerKept ==
    ASSUME Types, FreeConn, WorkerInv, Next PROVE FreeConn' /\ WorkerInv'
<1>1. /\ disc.at = "connect" => \A c \in Conn : conn[c].at = "done"
      /\ Running' => Running
      /\ failed \in Seq(Conn) /\ active \in Conn \cup {None} /\ None \notin Conn
  BY RunningBefore, ConnAssumption DEF FreeConn, Types, WorkTypes
<1>2. ASSUME UNCHANGED <<conn, active, failed>>
      PROVE  FreeConn' /\ WorkerInv'
  <2>1. CASE disc' = disc
    BY <1>1, <1>2, <2>1 DEF FreeConn, WorkerInv
  <2>2. CASE \E s \in Service : BrowserUpdate(s) \/ (RetryConnect /\ s \in seen)
    BY <1>1, <1>2, <2>2, DiscoverySteps DEF FreeConn, WorkerInv, DiscIs
  <2>3. ASSUME NEW s \in Service, Probe(s) PROVE FreeConn' /\ WorkerInv'
    <3>1. disc.at = "probe" /\ (DiscIs("select", disc.service) \/ DiscIs("probe", disc.service) \/ (Running /\ DiscIs("probed", s)))
      BY <2>3, DiscoverySteps DEF Probe
    <3> QED BY <1>1, <1>2, <3>1 DEF FreeConn, WorkerInv, DiscIs
  <2>4. CASE ProbeSetsTarget
    BY <1>1, <1>2, <2>4, DiscoverySteps DEF FreeConn, WorkerInv, DiscIs, ProbeSetsTarget
  <2>5. CASE ClearQueryRuntime \/ DiscoveryStops
    BY <1>1, <1>2, <2>5, DiscoverySteps DEF FreeConn, WorkerInv, DiscIs
  <2>6. RetryConnect => \E s \in Service : s \in seen
    BY DEF RetryConnect, Types, DiscTypes
  <2>8. SetActive => FALSE
    <3>1. SUFFICES ASSUME SetActive PROVE FALSE
      OBVIOUS
    <3>2. conn'[active'].at = "discover" /\ active' \in Conn /\ conn[active'].at = "done"
      BY <3>1, Connects DEF SetActive, FreeConn
    <3> QED BY <1>2, <3>2
  <2>9. TakeFailure => FALSE
    BY <1>1, <1>2 DEF TakeFailure
  <2> QED BY <2>1, <2>2, <2>3, <2>4, <2>5, <2>6, <2>8, <2>9, DiscFrame DEF Types
<1>3. ASSUME NEW c \in Conn, Work(c), active' = active PROVE FreeConn' /\ WorkerInv'
  <2>1. FreeConn'
    BY <1>3, WorkerGoesOn DEF FreeConn
  <2>2. ASSUME Running' PROVE WorkerInv'
    <3>1. /\ Running /\ c = active /\ ~conn[c].cancelled /\ disc' = disc
          /\ \A k \in DOMAIN failed : FALSE
      BY <1>1, <1>3, <2>2, WorkerGoesOn DEF WorkerInv
    <3>2. failed = <<>>
      <4>1. failed # <<>> => 1 \in DOMAIN failed
        BY <1>1
      <4> QED BY <3>1, <4>1
    <3>3. Len(failed) < FailCapacity
      BY <3>2, ServiceAssumption
    <3>4. CASE RefreshFails(c) /\ conn[c].fails + 1 = MaxFailures
      <4>1. failed' = <<c>>
        BY <1>3, <3>2, <3>3, <3>4, FailedSteps, ServiceAssumption
      <4>2. conn'[c].at = "done" /\ \A d \in Conn \ {c} : conn'[d] = conn[d]
        BY <3>4, WorkerSteps DEF Becomes
      <4> QED BY <1>1, <1>3, <3>1, <4>1, <4>2 DEF WorkerInv
    <3>5. CASE ~(RefreshFails(c) /\ conn[c].fails + 1 = MaxFailures)
      <4>1. failed' = failed
        BY <1>3, <3>5, FailedSteps
      <4>2. ~WorkerStops(c)
        BY <3>1 DEF WorkerStops, Cancelled
      <4>3. conn'[c].at # "done" /\ ~conn'[c].cancelled /\ \A d \in Conn \ {c} : conn'[d] = conn[d]
        BY <1>3, <3>1, <3>5, <4>2, WorkerGoesOn
      <4> QED BY <1>1, <1>3, <3>1, <3>2, <4>1, <4>3 DEF WorkerInv
    <3> QED BY <3>4, <3>5
  <2> QED BY <2>1, <2>2 DEF WorkerInv
<1>4. CASE SetActive
  <2>1. DiscIs("select", None) /\ disc.at = "connect"
    BY <1>4, DiscoverySteps DEF SetActive
  <2>2. Running' => failed = <<>>
    BY <1>1, <2>1 DEF WorkerInv
  <2> QED BY <1>1, <1>4, <2>1, <2>2, Connects DEF FreeConn, WorkerInv, DiscIs
<1>5. CASE TakeFailure
  <2>1. /\ DiscIs(IF Query THEN "clear" ELSE "select", disc.service) /\ failed # <<>> /\ failed' = Tail(failed) /\ active' = None
        /\ \A c \in Conn : conn'[c].at = conn[c].at
    BY <1>5, DiscoverySteps, Drops DEF TakeFailure
  <2>2. Running' => failed' = <<>> /\ \A c \in Conn : conn[c].at = "done"
    <3>1. 1 \in DOMAIN failed /\ (Len(failed) > 1 => 2 \in DOMAIN failed)
      BY <1>1, <2>1
    <3>2. Running' => Len(failed) = 1 /\ conn[active].at = "done"
      <4>1. Running => 2 \notin DOMAIN failed /\ conn[active].at = "done"
        BY <3>1 DEF WorkerInv
      <4>2. failed # <<>> /\ Len(failed) \in Nat /\ (failed # <<>> => Len(failed) > 0)
        BY <1>1, <2>1
      <4>3. Running => ~(Len(failed) > 1)
        BY <3>1, <4>1
      <4>4. Len(failed) > 1 \/ Len(failed) = 1
        BY <4>2
      <4> QED BY <1>1, <4>1, <4>3, <4>4, Zenon
    <3> QED BY <1>1, <2>1, <3>1, <3>2 DEF WorkerInv
  <2> QED BY <1>1, <2>1, <2>2 DEF FreeConn, WorkerInv, DiscIs
<1>6. CASE CloseClears
  <2>1. disc' = disc /\ ~Running'
    BY <1>6 DEF CloseClears, discVars, Running
  <2> QED BY <1>6, <2>1, Drops DEF FreeConn, WorkerInv, CloseClears
<1> QED BY <1>2, <1>3, <1>4, <1>5, <1>6, ConnFrame

-----------------------------------------------------------------------------
(* The avatar that is known. *)

\* The last message on its way names VRChat's avatar, or the controller knows it,
\* unless one was missed.  The coordinator has it, or will take it.  An answer
\* that is not older than the last message is right, or a message follows it.
AvatarInv ==
    /\ ~ghost.missed => IF avatar.wire = <<>> THEN avatar.id \in {None, avatar.world}
                                              ELSE avatar.wire[Len(avatar.wire)] = avatar.world
    /\ ~Query => IF avatar.box = None THEN planner.avatar = avatar.id ELSE avatar.box = avatar.id
    /\ \A c \in Conn :
          /\ conn[c].rev <= avatar.revision
          /\ conn[c].at = "told" /\ conn[c].rev = avatar.revision /\ ~ghost.missed =>
                conn[c].got = avatar.world \/ avatar.wire # <<>>

\* What can become of a connection as far as answers are concerned.
LEMMA AnswersKept ==
    ASSUME Types, FreeConn, Next, NEW c \in Conn
    PROVE  \/ conn'[c].at = conn[c].at /\ conn'[c].rev = conn[c].rev /\ conn'[c].got = conn[c].got
           \/ conn'[c].at # "told" /\ conn'[c].rev \in {0, conn[c].rev, avatar.revision}
           \/ AskAvatar(c) /\ conn'[c].rev = conn[c].rev /\ conn'[c].got = avatar.world
<1>1. CASE UNCHANGED <<conn, active, failed>>
  BY <1>1
<1>2. ASSUME NEW d \in Conn, Work(d)
      PROVE  \/ conn'[c].at = conn[c].at /\ conn'[c].rev = conn[c].rev /\ conn'[c].got = conn[c].got
             \/ conn'[c].at # "told" /\ conn'[c].rev \in {0, conn[c].rev, avatar.revision}
             \/ AskAvatar(c) /\ conn'[c].rev = conn[c].rev /\ conn'[c].got = avatar.world
  <2>1. CASE c # d
    <3>1. conn'[c] = conn[c]
      BY <1>2, <2>1, WorkerGoesOn
    <3> QED BY <3>1
  <2>2. CASE c = d
    BY <1>2, <2>2, WorkerSteps DEF Becomes, Work
  <2> QED BY <2>1, <2>2
<1>3. CASE SetActive
  BY <1>3, Connects
<1>4. CASE TakeFailure \/ CloseClears
  BY <1>4, Drops DEF TakeFailure, CloseClears
<1> QED BY <1>1, <1>2, <1>3, <1>4, ConnFrame

\* Steps that change no avatar and no message.
LEMMA AvatarSame ==
    ASSUME Types, FreeConn, AvatarInv, Next, conf' = conf, UNCHANGED avatar, planner'.avatar = planner.avatar,
           ghost'.missed = ghost.missed
    PROVE  AvatarInv'
<1>1. \A c \in Conn : conn[c].rev \in Nat
  BY DEF Types, WorkTypes, WorkerType
<1>2. avatar.revision \in Nat /\ (Query' <=> Query)
  BY AvatarFields DEF Query
<1>3. ASSUME NEW c \in Conn
      PROVE  /\ conn'[c].rev <= avatar.revision
             /\ conn'[c].at = "told" /\ conn'[c].rev = avatar.revision /\ ~ghost.missed =>
                   conn'[c].got = avatar.world \/ avatar.wire # <<>>
  BY <1>1, <1>2, AnswersKept DEF AvatarInv
<1> QED BY <1>2, <1>3 DEF AvatarInv

\* Steps that leave connections as they are.
LEMMA ConnSame ==
    ASSUME Next, AcceptAvatarChange \/ SwitchAvatar \/ PlannerTakes \/ InstallCatalog \/ (\E v \in conf.values : SetFloat(v))
    PROVE  conn' = conn
  BY Zenon DEF AcceptAvatarChange, SwitchAvatar, PlannerTakes, InstallCatalog, SetFloat, workVars

\* Taking the first element leaves the last one.
LEMMA LastOfTail ==
    ASSUME NEW S, NEW s \in Seq(S), s # <<>>
    PROVE  IF Tail(s) = <<>> THEN Head(s) = s[Len(s)] ELSE Tail(s)[Len(Tail(s))] = s[Len(s)]
<1>1. Len(s) \in Nat \ {0} /\ Tail(s) \in Seq(S) /\ Len(Tail(s)) = Len(s) - 1 /\ Head(s) = s[1]
  OBVIOUS
<1>2. \A i \in 1 .. Len(s) - 1 : Tail(s)[i] = s[i + 1]
  OBVIOUS
<1>3. CASE Len(s) = 1
  <2>1. Len(Tail(s)) = 0
    BY <1>1, <1>3
  <2>2. Tail(s) = <<>>
    <3>1. \A t \in Seq(S) : Len(t) = 0 => t = <<>>
      OBVIOUS
    <3> QED BY <1>1, <2>1, <3>1
  <2> QED BY <1>1, <1>3, <2>2
<1>4. CASE Len(s) # 1
  <2>1. PICK n \in Nat \ {0} : n = Len(s) - 1
    <3>1. \A k \in Nat \ {0} : k # 1 => k - 1 \in Nat \ {0}
      OBVIOUS
    <3> QED BY <1>1, <1>4, <3>1, Zenon
  <2>2. Tail(s)[n] = s[Len(s)]
    BY <1>1, <1>2, <2>1
  <2>3. Tail(s) # <<>>
    BY <1>1, <2>1
  <2> QED BY <1>1, <2>1, <2>2, <2>3
<1> QED BY <1>3, <1>4

LEMMA AvatarKept ==
    ASSUME Types, FreeConn, AvatarInv, Next PROVE AvatarInv'
<1>1. /\ conf' = conf /\ (Query' <=> Query) /\ avatar.revision \in Nat /\ avatar.world \in Nat /\ avatar.wire \in Seq(Avatars)
      /\ \A c \in Conn : conn[c].rev \in Nat
  <2>1. conf' = conf
    BY ConfKept
  <2> QED BY <2>1, AvatarFields DEF Query, Types, WorkTypes, WorkerType
<1>2. CASE RetryFires \/ (\E c \in Conn : PathChanged(c) \/ Start(c)) \/ UNCHANGED <<avatar, planner, ghost>>
  <2>1. avatar' = avatar /\ planner' = planner /\ (ghost' = ghost \/ \E b \in BOOLEAN : EnqueueRefresh(b))
    BY <1>2, Zenon DEF RetryFires, PathChanged, Start
  <2>2. ghost'.missed = ghost.missed
    BY <2>1, Enqueues
  <2> QED BY <1>1, <2>1, <2>2, AvatarSame
<1>3. ASSUME NEW c \in Conn, RefreshFails(c) \/ RefreshCatalog(c) PROVE AvatarInv'
  <2>1. avatar' = avatar /\ planner' = planner
    BY <1>3, Zenon DEF RefreshFails, RefreshCatalog
  <2>2. ghost'.missed = ghost.missed
    BY <1>3, DroppedByWorker
  <2> QED BY <1>1, <2>1, <2>2, AvatarSame
<1>4. CASE InstallCatalog \/ \E v \in conf.values : SetFloat(v)
  <2>1. avatar' = avatar /\ ghost' = ghost /\ planner'.avatar = planner.avatar
    BY <1>4 DEF InstallCatalog, SetFloat, Types, AvatarTypes
  <2> QED BY <1>1, <2>1, AvatarSame
<1>5. CASE PlannerTakes
  <2>1. conn' = conn
    BY <1>5, ConnSame
  <2> QED BY <1>1, <1>5, <2>1, Takes DEF AvatarInv
<1>6. CASE AcceptAvatarChange
  <2>1. conn' = conn
    BY <1>6, ConnSame
  <2>2. /\ avatar.wire # <<>> /\ avatar'.world = avatar.world /\ avatar'.wire = Tail(avatar.wire) /\ avatar'.id = Head(avatar.wire)
        /\ avatar'.revision = avatar.revision + 1 /\ avatar'.box = (IF Query THEN None ELSE Head(avatar.wire))
        /\ ghost'.missed = ghost.missed /\ Head(avatar.wire) # None
    <3>1. Head(avatar.wire) # None
      BY <1>6, Accepts, AvatarFields
    <3> QED BY <1>6, <3>1, Accepts, Published
  <2>3. IF Tail(avatar.wire) = <<>> THEN Head(avatar.wire) = avatar.wire[Len(avatar.wire)]
        ELSE Tail(avatar.wire)[Len(Tail(avatar.wire))] = avatar.wire[Len(avatar.wire)]
    BY <1>1, <2>2, LastOfTail
  <2> QED BY <1>1, <2>1, <2>2, <2>3 DEF AvatarInv
<1>7. CASE SwitchAvatar
  <2>1. conn' = conn
    BY <1>7, ConnSame
  <2>2. ~ghost'.missed => avatar'.wire # <<>> /\ avatar'.wire[Len(avatar'.wire)] = avatar'.world
    BY <1>1, <1>7, Switches
  <2> QED BY <1>1, <1>7, <2>1, <2>2, Switches DEF AvatarInv
<1>8. ASSUME NEW c \in Conn, DiscoverActiveAvatar(c) PROVE AvatarInv'
  <2>1. planner' = planner
    BY <1>8 DEF DiscoverActiveAvatar
  <2>2. CASE UNCHANGED <<avatar, refresh, timers, ghost>>
    BY <1>1, <2>1, <2>2, AvatarSame
  <2>3. CASE /\ avatar.revision = conn[c].rev
             /\ AvatarChanged(conn[c].got, avatar.wire, ghost.missed /\ (conn[c].got # avatar.world \/ avatar.wire # <<>>))
    <3>1. /\ avatar'.world = avatar.world /\ avatar'.wire = avatar.wire /\ avatar'.id = conn[c].got
          /\ avatar'.revision = avatar.revision + 1 /\ avatar'.box = (IF Query THEN None ELSE conn[c].got)
          /\ ghost'.missed = (ghost.missed /\ (conn[c].got # avatar.world \/ avatar.wire # <<>>)) /\ conn[c].got # None
          /\ conn[c].at = "told"
      BY <1>8, <2>3, Answered, AvatarFields, Published
    <3>2. /\ Becomes(c, "start", FALSE, 0, 0)
      BY <1>8, WorkerSteps
    <3>3. \A d \in Conn : conn'[d].rev < avatar'.revision
      BY <1>1, <3>1, <3>2 DEF Becomes, AvatarInv
    <3>4. ~ghost'.missed => IF avatar.wire = <<>> THEN conn[c].got = avatar.world
                            ELSE avatar.wire[Len(avatar.wire)] = avatar.world
      BY <2>3, <3>1 DEF AvatarInv
    <3>5. \A d \in Conn : conn'[d].rev <= avatar'.revision /\ conn'[d].rev # avatar'.revision
      <4>1. \A d \in Conn : conn'[d].rev \in Nat
        BY <3>2 DEF Becomes, WorkerType
      <4> QED BY <1>1, <3>1, <3>3, <4>1
    <3> QED BY <1>1, <2>1, <3>1, <3>4, <3>5 DEF AvatarInv
  <2> QED BY <1>8, <2>2, <2>3, Answered
<1> QED BY <1>2, <1>3, <1>4, <1>5, <1>6, <1>7, <1>8, AvatarFrame

-----------------------------------------------------------------------------
(* Outputs. *)

\* A finite set of naturals has a bound.
LEMMA FiniteIsBounded ==
    ASSUME NEW S \in SUBSET Nat, IsFiniteSet(S) PROVE \E n \in Nat : \A y \in S : y <= n
<1> DEFINE Bounded(X) == \E n \in Nat : \A y \in X : y <= n
           T == {X \in SUBSET S : ~Bounded(X)}
           R == StrictSubsetOrdering(S)
<1>1. SUFFICES ASSUME S \in T PROVE FALSE
  OBVIOUS
<1>2. IsWellFoundedOn(R, SUBSET S)
  BY FS_StrictSubsetOrderingWellFounded, FS_FiniteSubsetsOfFinite, Zenon
<1>3. T \subseteq SUBSET S
  OBVIOUS
<1>4. PICK X \in T : \A Y \in T : <<Y, X>> \notin R
  <2> HIDE DEF T, R
  <2> QED BY <1>1, <1>2, <1>3, WFMin, Zenon
<1>5. X # {}
  <2>1. Bounded({})
    OBVIOUS
  <2> QED BY <1>4, <2>1
<1>6. PICK x \in X : TRUE
  BY <1>5
<1>7. X \ {x} \in SUBSET S /\ X \in SUBSET S /\ x \in Nat /\ S \subseteq Nat
  BY <1>4, <1>6
<1>8. <<X \ {x}, X>> \in R
  <2> HIDE DEF T, Bounded
  <2> QED BY <1>6, <1>7 DEF StrictSubsetOrdering
<1>9. Bounded(X \ {x})
  <2>1. X \ {x} \notin T
    BY <1>4, <1>8
  <2> HIDE DEF Bounded
  <2> QED BY <1>7, <2>1
<1>10. PICK n \in Nat : \A y \in X \ {x} : y <= n
  BY <1>9
<1>11. \E m \in Nat : n <= m /\ x <= m
  BY <1>7
<1>12. Bounded(X)
  <2>1. PICK m \in Nat : n <= m /\ x <= m
    BY <1>11
  <2>2. \A y \in X : y <= m
    BY <1>7, <1>10, <2>1
  <2> QED BY <2>2
<1> QED BY <1>4, <1>12

\* The cache has a place for each output of the catalog.
LEMMA IndexCovers ==
    ASSUME Types, catalog # 0
    PROVE  DOMAIN Output = 1 .. Len(Output) /\ Len(Output) \in Nat /\ 1 .. Len(Output) \subseteq Index
<1> DEFINE S == {Len(Catalog[h]) : h \in DOMAIN Catalog}
<1>1. catalog \in DOMAIN Catalog
  BY DEF Types, SendTypes
<1>2. \A h \in DOMAIN Catalog : Len(Catalog[h]) \in Nat /\ DOMAIN Catalog[h] = 1 .. Len(Catalog[h])
  BY CatalogAssumption
<1>3. S \in SUBSET Nat /\ S # {} /\ Len(Output) \in S
  BY <1>1, <1>2 DEF Output
<1>4. IsFiniteSet(S)
  <2> DEFINE f == [h \in DOMAIN Catalog |-> Len(Catalog[h])]
  <2>1. f \in Surjection(DOMAIN Catalog, S)
    BY DEF Surjection
  <2> HIDE DEF f, S
  <2>2. IsFiniteSet(DOMAIN Catalog)
    BY CatalogAssumption
  <2> QED BY <2>1, <2>2, FS_Surjection
<1> HIDE DEF S
<1>5. PICK n \in Nat : \A y \in S : y <= n
  BY <1>3, <1>4, FiniteIsBounded
<1>6. Len(Output) <= Max(S) /\ Max(S) \in Nat
  BY <1>3, <1>5, MaxIsGreatest
<1>7. Index = 1 .. Max(S)
  BY DEF Index, S
<1> QED BY <1>1, <1>2, <1>3, <1>6, <1>7 DEF Output

\* What an output is sent is a number, equal to itself.
LEMMA OutputIsNumber ==
    ASSUME Types, catalog # 0, NEW i \in 1 .. Len(Output), NEW v \in Value
    PROVE  EvaluateOutput(i, v) # NoValue /\ ScalarEqual(i, EvaluateOutput(i, v), EvaluateOutput(i, v))
<1>1. Output[i].op \in {"float", "negative", "bit"} /\ Output[i].weight \in Nat /\ (Output[i].op = "bit" => Output[i].weight > 0)
  <2>1. catalog \in DOMAIN Catalog
    BY DEF Types, SendTypes
  <2>2. i \in DOMAIN Output /\ Output \in Seq([op : {"float", "negative", "bit"}, weight : Nat, large : BOOLEAN])
    BY <2>1, CatalogAssumption DEF Output
  <2>3. Output[i] \in [op : {"float", "negative", "bit"}, weight : Nat, large : BOOLEAN]
    <3>1. \A S, s, k : s \in Seq(S) /\ k \in DOMAIN s => s[k] \in S
      OBVIOUS
    <3> QED BY <2>2, <3>1, Zenon
  <2> QED BY <2>1, <2>2, <2>3, CatalogAssumption DEF Output
<1>2. v \in Int /\ Limit \in Nat \ {0} /\ QuantizeMax \in Nat /\ Epsilon \in Nat
  BY CatalogAssumption
<1>3. Clamp(v) \in Int
  BY <1>2 DEF Clamp, Least
<1>4. Quantized(Clamp(v)) \in Int
  <2>1. PICK a \in Nat : a = Abs(Clamp(v))
    BY <1>3 DEF Abs
  <2>2. a * (QuantizeMax + 1) \in Int
    BY <1>2
  <2>3. (a * (QuantizeMax + 1)) \div Limit \in Int
    BY <1>2, <2>2
  <2> QED BY <1>2, <2>1, <2>3 DEF Quantized, Least
<1>5. EvaluateOutput(i, v) \in Int
  <2>1. CASE Output[i].op = "float"
    BY <1>3, <2>1 DEF EvaluateOutput
  <2>2. CASE Output[i].op = "negative"
    BY <2>2 DEF EvaluateOutput
  <2>3. CASE Output[i].op = "bit"
    <3>1. \A q \in Int, w \in Nat : w > 0 => (q \div w) % 2 \in Int
      OBVIOUS
    <3>2. EvaluateOutput(i, v) = (Quantized(Clamp(v)) \div Output[i].weight) % 2
      BY <2>3 DEF EvaluateOutput
    <3> QED BY <1>1, <1>4, <2>3, <3>1, <3>2
  <2> QED BY <1>1, <2>1, <2>2, <2>3
<1>6. \A x \in Int : ScalarEqual(i, x, x)
  BY <1>2 DEF ScalarEqual, Abs
<1> QED BY <1>5, <1>6, CatalogAssumption

-----------------------------------------------------------------------------
(* Delivery. *)

\* What lies behind a pass needs not be sent, while the source keeps its value.
ProgressInv ==
    pass.at = "sending" /\ pass.ok /\ pass.source # Invalid =>
       \A i \in 1 .. Len(Output) : i < pass.next => ~Changed(i, pass.source)

\* Without a connection there is no catalog in query mode and nothing counts as
\* sent, nor is there one while the coordinator makes a new plan.
ClearedInv ==
    /\ planner.at = "plan" => ~Query /\ catalog = 0
    /\ \A c \in Conn : conn[c].at = "install" => Query
    /\ Query /\ Running /\ active = None /\ disc.at # "clear" => catalog = 0 /\ cache = Nothing

\* What counts as sent was sent to the target in use.
Consistent == \A i \in Index : cache[i] # NoValue => shown[target][i] = cache[i]

\* If it was not, since the avatar has changed, the sender still has to be told.
\* Between the choice of a target and the connection the target is not in use.
SentInv == Running /\ target # NoTarget /\ disc.at # "connect" => Consistent \/ ChangePending

LEMMA ProgressKept ==
    ASSUME Types, SendingInv, ProgressInv, Next PROVE ProgressInv'
<1> USE DEF ProgressInv
<1>1. pass.at \in {"idle", "sending"}
  BY DEF Types, SendTypes, PassType
<1>2. ASSUME UNCHANGED <<catalog, cache, pass>> PROVE ProgressInv'
  BY <1>2 DEF Output, Changed, ScalarEqual, EvaluateOutput
<1>3. ASSUME pass.at = "idle", pass' = pass PROVE ProgressInv'
  BY <1>3
<1>4. CASE UNCHANGED senderVars
  BY <1>2, <1>4 DEF senderVars
<1>5. CASE ProbeSetsTarget \/ SwitchAvatar
  BY <1>2, <1>5 DEF ProbeSetsTarget, SwitchAvatar
<1>6. CASE SetActive
  <2>1. catalog' = catalog /\ pass' = pass /\ (cache' = cache \/ pass.at = "idle")
    BY <1>6 DEF SetActive, Unlocked
  <2> QED BY <1>2, <1>3, <2>1
<1>7. ASSUME Clear PROVE ProgressInv'
  BY <1>3, <1>7 DEF Clear, Unlocked
<1>8. ASSUME NEW hash, NEW from, Install(hash, from) PROVE ProgressInv'
  BY <1>3, <1>8 DEF Install, Unlocked
<1>9. CASE TakeFailure \/ ClearQueryRuntime \/ CloseClears \/ PlannerTakes
  <2>1. Clear \/ UNCHANGED <<catalog, cache, pass>>
    BY <1>9 DEF TakeFailure, ClearQueryRuntime, CloseClears, PlannerTakes
  <2> QED BY <1>2, <1>7, <2>1
<1>10. CASE InstallCatalog
  BY <1>8, <1>10 DEF InstallCatalog
<1>11. ASSUME NEW c \in Conn, RefreshCatalog(c) PROVE ProgressInv'
  <2>1. \/ Install(Hash(conn[c].got), planner.value)
        \/ pass' = pass /\ catalog' = catalog /\ (cache' = cache \/ pass.at = "idle")
    BY <1>11 DEF RefreshCatalog, Unlocked
  <2> QED BY <1>2, <1>3, <1>8, <2>1
<1>12. ASSUME NEW v \in conf.values, Publish(v) \/ SetFloat(v) PROVE ProgressInv'
  <2>1. CASE UNCHANGED <<catalog, cache, pass>>
    BY <1>2, <2>1
  <2>2. CASE SetFloat(v) /\ pass.at = "sending"
    <3>1. pass' = [pass EXCEPT !.source = v, !.ok = FALSE]
      BY <2>2 DEF SetFloat
    <3>2. ~pass'.ok
      BY <3>1 DEF Types, SendTypes, PassType
    <3> QED BY <3>2
  <2> QED BY <1>12, <2>1, <2>2 DEF Publish, SetFloat
<1>13. CASE SendLoop
  <2>1. CASE BeginPass
    <3>1. pass'.next = 1
      BY <2>1 DEF BeginPass, IdlePass
    <3> QED BY <3>1
  <2>2. CASE pass' = IdlePass
    BY <2>2, IdleIsTyped
  <2>3. CASE SendDatagram
    <3>1. catalog # 0 /\ pass.at = "sending" /\ catalog' = catalog
      BY <2>3 DEF SendDatagram, SendingInv
    <3> DEFINE src == pass.source
    <3>2. pass'.source = src /\ pass'.ok = pass.ok
      BY <2>3, <3>1, SendsDatagram
    <3>3. /\ Len(Output)' = Len(Output)
          /\ \A i, v : Changed(i, v)' <=> cache'[i] = NoValue \/ ~ScalarEqual(i, cache'[i], EvaluateOutput(i, v))
      BY <3>1 DEF Output, Changed, ScalarEqual, EvaluateOutput
    <3>4. SUFFICES ASSUME src # Invalid, pass.ok, NEW i \in 1 .. Len(Output), i < pass'.next
                   PROVE  cache'[i] # NoValue /\ ScalarEqual(i, cache'[i], EvaluateOutput(i, src))
      BY <3>2, <3>3
    <3>5. src \in Value /\ i \in Index /\ pass.next \in Nat /\ Len(Output) \in Nat
      <4>1. src \in Value
        BY <3>1, <3>4 DEF SendingInv, Types, SendTypes
      <4> QED BY <3>1, <3>4, <4>1, IndexCovers DEF Types, SendTypes, PassType
    <3>6. CASE i \in Datagram
      <4>1. cache'[i] = EvaluateOutput(i, src)
        BY <2>3, <3>1, <3>5, <3>6, SendsDatagram DEF Commit
      <4> QED BY <3>1, <3>4, <3>5, <4>1, OutputIsNumber
    <3>7. CASE i \notin Datagram
      <4>1. cache'[i] = cache[i]
        BY <2>3, <3>1, <3>5, <3>7, SendsDatagram DEF Commit
      <4>2. i \notin Due
        BY <2>3, <3>1, <3>4, <3>7, SendsDatagram
      <4>3. ~Changed(i, src)
        <5>1. i < pass.next \/ i \in pass.next .. Len(Output)
          BY <3>4, <3>5
        <5> QED BY <3>1, <3>4, <4>2, <5>1 DEF Due
      <4> QED BY <4>1, <4>3 DEF Changed
    <3> QED BY <3>6, <3>7
  <2> QED BY <1>13, <2>1, <2>2, <2>3, SendLoopSteps
<1> QED BY <1>4, <1>5, <1>6, <1>9, <1>10, <1>11, <1>12, <1>13, SendFrame

\* The catalog and the cache change in these steps.
LEMMA CacheFrame ==
    ASSUME Next
    PROVE  \/ catalog' = catalog /\ cache' = cache
           \/ catalog' \in {0, catalog} /\ cache' = Nothing
           \/ InstallCatalog \/ SendDatagram
           \/ \E c \in Conn : RefreshCatalog(c)
<1>1. CASE ProbeSetsTarget \/ SwitchAvatar \/ UNCHANGED senderVars \/ \E v \in conf.values : Publish(v) \/ SetFloat(v)
  BY <1>1, Zenon DEF ProbeSetsTarget, SwitchAvatar, senderVars, Publish, SetFloat
<1>2. CASE SetActive
  BY <1>2 DEF SetActive, ResetChangeDetection
<1>3. CASE TakeFailure \/ ClearQueryRuntime \/ CloseClears \/ PlannerTakes
  BY <1>3 DEF TakeFailure, ClearQueryRuntime, CloseClears, PlannerTakes, Clear, ResetChangeDetection
<1>4. CASE SendLoop
  BY <1>4, SendLoopSteps DEF BeginPass
<1> QED BY <1>1, <1>2, <1>3, <1>4, SendFrame

LEMMA Installs ==
    ASSUME Types, ClearedInv, InstallCatalog
    PROVE  planner.at = "plan" /\ planner'.at = "idle" /\ cache' = Nothing /\ ~Query
<1>1. planner.at = "plan" /\ planner.avatar \in Avatars /\ ~Query /\ catalog = 0
  BY DEF InstallCatalog, Types, AvatarTypes, ClearedInv
<1>2. Hash(planner.avatar) # 0
  BY <1>1, HashIsCatalog DEF Types
<1> QED BY <1>1, <1>2 DEF InstallCatalog, Install, Types, AvatarTypes

LEMMA ClearedKept ==
    ASSUME Types, FreeConn, WorkerInv, SendingInv, ClearedInv, Next PROVE ClearedInv'
<1>1. /\ conf' = conf /\ (Query' <=> Query) /\ (Running' => Running) /\ None \notin Conn
  <2>1. conf' = conf
    BY ConfKept
  <2> QED BY <2>1, RunningBefore, ConnAssumption DEF Query
<1>2. \A c \in Conn : conn'[c].at = "install" => Query
  <2>1. ASSUME NEW d \in Conn, Work(d), NEW c \in Conn, conn'[c].at = "install" PROVE Query
    <3>1. CASE c = d
      BY <2>1, <3>1, WorkerSteps DEF Becomes, Work
    <3>2. CASE c # d
      BY <2>1, <3>2, WorkerGoesOn DEF ClearedInv
    <3> QED BY <3>1, <3>2
  <2>2. CASE SetActive
    BY <2>2, Connects
  <2>3. CASE TakeFailure \/ CloseClears
    BY <2>3, Drops DEF TakeFailure, CloseClears, ClearedInv
  <2>4. CASE UNCHANGED <<conn, active, failed>>
    BY <2>4 DEF ClearedInv
  <2> QED BY <2>1, <2>2, <2>3, <2>4, ConnFrame
<1>3. ASSUME NEW c \in Conn, RefreshCatalog(c) PROVE Query /\ (Running => active # None) /\ planner' = planner /\ active' = active
  BY <1>1, <1>3 DEF RefreshCatalog, ClearedInv, WorkerInv
<1>4. planner'.at = "plan" => ~Query /\ catalog' = 0
  <2>1. CASE PlannerTakes
    BY <2>1 DEF PlannerTakes, Clear
  <2>2. CASE InstallCatalog
    BY <2>2, Installs
  <2>3. ASSUME ~PlannerTakes, ~InstallCatalog PROVE planner'.at = planner.at
    <3>1. \A v : SetFloat(v) => planner'.at = planner.at
      BY DEF SetFloat, Types, AvatarTypes
    <3>2. planner' = planner \/ \E v : SetFloat(v)
      BY <2>3, AvatarFrame, Zenon DEF RetryFires, AcceptAvatarChange, SwitchAvatar, PathChanged, DiscoverActiveAvatar, Start,
         RefreshFails, RefreshCatalog
    <3> QED BY <3>1, <3>2
  <2>4. CASE planner'.at = planner.at /\ planner.at = "plan" /\ ~InstallCatalog
    <3>1. ~SendDatagram
      BY <2>4 DEF SendDatagram, SendingInv, ClearedInv
    <3>2. \A c \in Conn : ~RefreshCatalog(c)
      BY <1>3, <2>4 DEF ClearedInv
    <3> QED BY <2>4, <3>1, <3>2, CacheFrame DEF ClearedInv
  <2> QED BY <2>1, <2>2, <2>3, <2>4
<1>5. ASSUME Query, Running', active' = None, disc'.at # "clear" PROVE catalog' = 0 /\ cache' = Nothing
  <2>1. CASE active = None /\ disc.at # "clear"
    <3>1. catalog = 0 /\ cache = Nothing
      BY <1>1, <1>5, <2>1 DEF ClearedInv
    <3>2. ~SendDatagram /\ ~InstallCatalog /\ \A c \in Conn : ~RefreshCatalog(c)
      BY <1>1, <1>3, <1>5, <2>1, <3>1, Installs DEF SendDatagram, SendingInv
    <3> QED BY <3>1, <3>2, CacheFrame
  <2>2. CASE disc.at = "clear"
    <3>1. disc' # disc
      BY <1>5, <2>2
    <3>2. ClearQueryRuntime
      BY <2>2, <3>1, DiscFrame DEF BrowserUpdate, Probe, RetryConnect, ProbeSetsTarget, SetActive, TakeFailure, DiscoveryStops, Types
    <3> QED BY <3>2 DEF ClearQueryRuntime, Clear, ResetChangeDetection
  <2>3. CASE active # None /\ disc.at # "clear"
    <3>1. TakeFailure
      <4>1. ~SetActive
        BY <1>5, ConnAssumption, Connects
      <4>2. ~CloseClears
        BY <1>5 DEF CloseClears, Running
      <4> QED BY <1>5, <2>3, <4>1, <4>2, ConnFrame
    <3>2. disc'.at = "clear"
      BY <1>5, <3>1, DiscoverySteps DEF DiscIs
    <3> QED BY <1>5, <3>2
  <2> QED BY <2>1, <2>2, <2>3
<1> QED BY <1>1, <1>2, <1>4, <1>5 DEF ClearedInv

\* Each element of a sequence is its first, or in its tail.
LEMMA InTail ==
    ASSUME NEW S, NEW s \in Seq(S), NEW k \in DOMAIN s
    PROVE  (k = 1 /\ Head(s) = s[k]) \/ (k - 1 \in DOMAIN Tail(s) /\ Tail(s)[k - 1] = s[k])
<1>1. k \in 1 .. Len(s) /\ Len(s) \in Nat /\ Head(s) = s[1]
  OBVIOUS
<1>2. s # <<>>
  BY <1>1
<1>3. Len(Tail(s)) = Len(s) - 1 /\ DOMAIN Tail(s) = 1 .. Len(s) - 1
  BY <1>1, <1>2
<1>4. \A i \in 1 .. Len(s) - 1 : Tail(s)[i] = s[i + 1]
  BY <1>1, <1>2
<1>5. CASE k # 1
  <2>1. PICK j \in 1 .. Len(s) - 1 : j = k - 1 /\ k = j + 1
    BY <1>1, <1>5
  <2> QED BY <1>3, <1>4, <2>1
<1> QED BY <1>1, <1>5

\* A change that is pending stays so until nothing counts as sent.
LEMMA PendingKept ==
    ASSUME Types, FreeConn, WorkerInv, ClearedInv, Next, Running', ChangePending PROVE ChangePending' \/ cache' = Nothing
<1> DEFINE Told == avatar.wire # <<>> \/ ghost.missed \/ avatar.id # avatar.world
           Forced == \E k \in DOMAIN refresh : refresh[k]
           Asking == \E c \in Conn : conn[c].at \in {"told", "start"} \/ conn[c].force
           Planning == avatar.box # None \/ planner.at # "idle"
<1>1. /\ ChangePending <=> Told \/ IF Query THEN ghost.dropped \/ timers > 0 \/ Forced \/ Asking ELSE Planning
      /\ ChangePending' <=> Told' \/ IF Query THEN ghost'.dropped \/ timers' > 0 \/ Forced' \/ Asking' ELSE Planning'
  <2>1. conf' = conf
    BY ConfKept
  <2>2. Query' <=> Query
    BY <2>1 DEF Query
  <2> QED BY <2>2 DEF ChangePending
<1>2. ASSUME UNCHANGED avatar, ghost'.missed = ghost.missed PROVE Told' <=> Told
  BY <1>2
<1>3. ASSUME UNCHANGED <<avatar, planner>> PROVE Planning' <=> Planning
  BY <1>3
<1>4. ASSUME UNCHANGED refresh PROVE Forced' <=> Forced
  BY <1>4
<1>5. ASSUME NEW c \in Conn, \A d \in Conn \ {c} : conn'[d] = conn[d],
             conn[c].at \in {"told", "start"} \/ conn[c].force => conn'[c].at \in {"told", "start"} \/ conn'[c].force
      PROVE  Asking => Asking'
  <2>1. SUFFICES ASSUME NEW d \in Conn, conn[d].at \in {"told", "start"} \/ conn[d].force PROVE Asking'
    OBVIOUS
  <2>2. conn'[d].at \in {"told", "start"} \/ conn'[d].force
    BY <1>5, <2>1
  <2> QED BY <2>2
<1>6. ASSUME \A c \in Conn : conn'[c].at = conn[c].at /\ conn'[c].force = conn[c].force PROVE Asking => Asking'
  BY <1>6
<1> HIDE DEF Told, Forced, Asking, Planning
<1>7. Running
  BY RunningBefore
<1>8. ASSUME UNCHANGED <<avatar, planner, ghost, refresh, timers>>, Asking => Asking' PROVE ChangePending'
  BY <1>1, <1>2, <1>3, <1>4, <1>8
<1>9. CASE RetryFires
  <2>1. EnqueueRefresh(TRUE) /\ UNCHANGED <<avatar, planner>>
    BY <1>7, <1>9 DEF RetryFires
  <2>2. ghost'.missed = ghost.missed /\ (Query => ghost'.dropped \/ Forced')
    BY <2>1, Enqueues DEF Forced
  <2> QED BY <1>1, <1>2, <1>3, <2>1, <2>2
<1>10. CASE AcceptAvatarChange
  <2>1. (Query => ghost'.dropped \/ Forced') /\ avatar'.box = (IF Query THEN None ELSE Head(avatar.wire)) /\ Head(avatar.wire) # None
    <3>1. Head(avatar.wire) # None
      BY <1>10, Accepts, AvatarFields
    <3> QED BY <1>10, <3>1, Accepts, Published DEF Forced
  <2> QED BY <1>1, <2>1 DEF Planning
<1>11. CASE SwitchAvatar
  <2>1. ghost'.missed \/ avatar'.wire # <<>>
    BY <1>11, Switches, AvatarFields
  <2> QED BY <1>1, <2>1 DEF Told
<1>12. CASE PlannerTakes
  BY <1>12 DEF PlannerTakes, Clear, ResetChangeDetection
<1>13. CASE InstallCatalog
  BY <1>13, Installs
<1>14. ASSUME NEW v \in conf.values, SetFloat(v) PROVE ChangePending'
  <2>1. avatar' = avatar /\ ghost' = ghost /\ UNCHANGED <<refresh, timers, conn>> /\ planner'.at = planner.at
    BY <1>14 DEF SetFloat, workVars, Types, AvatarTypes
  <2>2. (Planning' <=> Planning) /\ (Asking' <=> Asking)
    BY <2>1 DEF Planning, Asking
  <2> QED BY <1>1, <1>2, <1>4, <2>1, <2>2
<1>15. ASSUME NEW c \in Conn, Work(c) \/ PathChanged(c) PROVE ChangePending' \/ cache' = Nothing
  <2>1. conn \in [Conn -> WorkerType] /\ (conn[c].force => conn[c].at \in {"query", "install"})
    BY DEF Types, WorkTypes
  <2>2. CASE PathChanged(c)
    <3>1. EnqueueRefresh(FALSE) /\ UNCHANGED <<avatar, planner, timers, conn>>
      BY <2>2 DEF PathChanged
    <3>2. ghost'.missed = ghost.missed /\ (ghost.dropped => ghost'.dropped) /\ (Forced => Forced')
      BY <3>1, Enqueues DEF Forced
    <3>3. Asking' <=> Asking
      BY <3>1 DEF Asking
    <3> QED BY <1>1, <1>2, <1>3, <3>1, <3>2, <3>3
  <2>3. CASE ReadRevision(c)
    <3>1. Becomes(c, "ask", FALSE, avatar.revision, conn[c].got) /\ conn[c].at = "discover"
      BY <2>3, WorkerSteps DEF ReadRevision
    <3>2. Asking => Asking'
      BY <1>5, <2>1, <3>1 DEF Becomes
    <3> QED BY <1>8, <2>3, <3>2 DEF ReadRevision
  <2>4. CASE AskAvatar(c)
    <3>1. conn[c].at = "ask" /\ \E rev, got : Becomes(c, "told", FALSE, rev, got) \/ Becomes(c, "start", FALSE, rev, got)
      BY <2>4, WorkerSteps DEF AskAvatar
    <3>2. Asking => Asking'
      BY <1>5, <2>1, <3>1 DEF Becomes
    <3> QED BY <1>8, <2>4, <3>2 DEF AskAvatar
  <2>5. CASE DiscoverActiveAvatar(c)
    <3>1. Becomes(c, "start", FALSE, 0, 0)
      BY <2>5, WorkerSteps
    <3>2. Asking'
      BY <3>1 DEF Becomes, Asking
    <3>3. CASE UNCHANGED <<avatar, refresh, timers, ghost>>
      <4>1. planner' = planner
        BY <2>5 DEF DiscoverActiveAvatar
      <4> QED BY <1>8, <3>2, <3>3, <4>1
    <3>4. CASE AvatarChanged(conn[c].got, avatar.wire, ghost.missed /\ (conn[c].got # avatar.world \/ avatar.wire # <<>>))
      <4>1. avatar'.box = (IF Query THEN None ELSE conn[c].got) /\ conn[c].got # None
        BY <2>5, <3>4, Answered, Published, AvatarFields
      <4> QED BY <1>1, <3>2, <4>1 DEF Planning
    <3> QED BY <2>5, <3>3, <3>4, Answered
  <2>6. CASE Start(c)
    <3>1. EnqueueRefresh(TRUE) /\ UNCHANGED <<avatar, planner>>
      BY <2>6 DEF Start
    <3>2. ghost'.missed = ghost.missed /\ (Query => ghost'.dropped \/ Forced')
      BY <3>1, Enqueues DEF Forced
    <3> QED BY <1>1, <1>2, <1>3, <3>1, <3>2
  <2>7. CASE TakeRefresh(c)
    <3>1. Becomes(c, "query", Head(refresh), conn[c].rev, conn[c].got) /\ conn[c].at = "loop"
          /\ UNCHANGED <<avatar, planner, ghost, timers>> /\ refresh # <<>> /\ refresh' = Tail(refresh)
      BY <2>7, WorkerSteps DEF TakeRefresh
    <3>2. Asking => Asking'
      BY <1>5, <2>1, <3>1 DEF Becomes
    <3>3. Forced => Forced' \/ Asking'
      <4>1. SUFFICES ASSUME NEW k \in DOMAIN refresh, refresh[k] PROVE Forced' \/ Asking'
        BY DEF Forced
      <4>2. refresh \in Seq(BOOLEAN)
        BY DEF Types, WorkTypes
      <4>3. CASE Head(refresh) = refresh[k]
        BY <3>1, <4>1, <4>3, Zenon DEF Becomes, Asking
      <4>4. CASE k - 1 \in DOMAIN Tail(refresh) /\ Tail(refresh)[k - 1] = refresh[k]
        BY <3>1, <4>1, <4>4, Zenon DEF Forced
      <4> QED BY <4>2, <4>3, <4>4, InTail, Zenon
    <3> QED BY <1>1, <1>2, <1>3, <3>1, <3>2, <3>3
  <2>8. CASE Poll(c)
    <3>1. Becomes(c, "query", FALSE, conn[c].rev, conn[c].got) /\ conn[c].at = "loop"
      BY <2>8, WorkerSteps DEF Poll
    <3>2. Asking => Asking'
      BY <1>5, <2>1, <3>1 DEF Becomes
    <3> QED BY <1>8, <2>8, <3>2 DEF Poll
  <2>9. CASE RefreshFails(c)
    <3>1. /\ conn[c].at = "query" /\ \A d \in Conn \ {c} : conn'[d] = conn[d]
          /\ UNCHANGED <<avatar, planner, refresh, timers>>
      <4>1. Work(c)
        BY <2>9 DEF Work
      <4> QED BY <2>9, <4>1, WorkerGoesOn DEF RefreshFails
    <3>2. ghost'.missed = ghost.missed /\ ghost'.dropped = (ghost.dropped \/ (conn[c].force /\ Query))
      BY <2>9, DroppedByWorker
    <3>3. Asking => Asking' \/ conn[c].force
      BY <1>5, <3>1
    <3> QED BY <1>1, <1>2, <1>3, <1>4, <3>1, <3>2, <3>3
  <2>10. CASE RefreshAnswered(c)
    <3>1. conn[c].at = "query" /\ UNCHANGED <<avatar, planner, ghost, refresh, timers>>
      BY <2>10 DEF RefreshAnswered
    <3>2. Query => (Asking => Asking')
      <4>1. SUFFICES ASSUME Query PROVE Asking => Asking'
        OBVIOUS
      <4>2. Becomes(c, "install", conn[c].force, conn[c].rev, avatar.world)
        BY <2>10, <4>1, WorkerSteps
      <4> QED BY <1>5, <3>1, <4>2 DEF Becomes
    <3> QED BY <1>1, <1>2, <1>3, <1>4, <3>1, <3>2
  <2>11. CASE RefreshCatalog(c) /\ cache' # Nothing
    <3>1. conn[c].at = "install" /\ ~conn[c].force /\ UNCHANGED <<avatar, planner, refresh, timers>>
      BY <2>11 DEF RefreshCatalog, Install, ResetChangeDetection
    <3>2. ghost'.missed = ghost.missed /\ (ghost.dropped => ghost'.dropped)
      BY <2>11, <3>1, DroppedByWorker
    <3>3. Becomes(c, "loop", FALSE, conn[c].rev, 0)
      BY <2>11, WorkerSteps
    <3>4. Asking => Asking'
      BY <1>5, <3>1, <3>3 DEF Becomes
    <3> QED BY <1>1, <1>2, <1>3, <1>4, <3>1, <3>2, <3>4
  <2>12. CASE WorkerStops(c)
    <3>1. Becomes(c, "done", FALSE, 0, 0) /\ conn[c].at = "loop"
      BY <2>12, WorkerSteps DEF WorkerStops
    <3>2. Asking => Asking'
      BY <1>5, <2>1, <3>1 DEF Becomes
    <3> QED BY <1>8, <2>12, <3>2 DEF WorkerStops
  <2> QED BY <1>15, <2>2, <2>3, <2>4, <2>5, <2>6, <2>7, <2>8, <2>9, <2>10, <2>11, <2>12 DEF Work
<1>16. CASE SetActive
  <2>1. UNCHANGED <<avatar, planner, ghost, refresh, timers>>
    BY <1>16 DEF SetActive
  <2>2. \A c \in Conn : conn[c].at = "done" /\ ~conn[c].force
    BY <1>16 DEF SetActive, FreeConn, Types, WorkTypes
  <2>3. ~Asking
    BY <2>2 DEF Asking
  <2> QED BY <1>8, <2>1, <2>3
<1>17. CASE TakeFailure
  <2>1. UNCHANGED <<avatar, planner, ghost, refresh, timers>>
    BY <1>17 DEF TakeFailure
  <2>2. Asking => Asking'
    BY <1>6, <1>17, Drops DEF TakeFailure
  <2> QED BY <1>8, <2>1, <2>2
<1>18. CASE CloseClears
  BY <1>18 DEF CloseClears, Running
<1>19. CASE UNCHANGED <<conn, refresh, timers, avatar, planner, ghost>>
  <2>1. Asking' <=> Asking
    BY <1>19 DEF Asking
  <2> QED BY <1>8, <1>19, <2>1
<1> QED BY <1>9, <1>10, <1>11, <1>12, <1>13, <1>14, <1>15, <1>16, <1>17, <1>18, <1>19, AvatarFrame, RefreshFrame, ConnFrame DEF Work

\* What was sent stays with the target, unless the avatar changes.
LEMMA SentKept ==
    ASSUME Types, FreeConn, WorkerInv, SendingInv, ClearedInv, SentInv, Next PROVE SentInv'
<1> USE DEF Consistent
<1>1. SUFFICES ASSUME Running', target' # NoTarget, disc'.at # "connect" PROVE Consistent' \/ ChangePending'
  BY DEF SentInv
<1>2. Running /\ (Query' <=> Query)
  BY <1>1, RunningBefore, ConfKept DEF Query
<1>3. ASSUME cache' = Nothing PROVE Consistent'
  BY <1>3 DEF Nothing
<1>4. CASE ProbeSetsTarget
  <2>1. DiscIs("connect", disc.service)
    BY <1>4, DiscoverySteps
  <2> QED BY <1>1, <2>1 DEF DiscIs
<1>5. CASE SetActive
  <2>1. Query => cache = Nothing
    BY <1>2, <1>5 DEF SetActive, WorkerInv, ClearedInv
  <2>2. cache' = Nothing
    BY <1>5, <2>1 DEF SetActive, ResetChangeDetection
  <2> QED BY <1>3, <2>2
<1>6. CASE disc.at = "connect" /\ ~SetActive
  <2>1. disc' # disc
    BY <1>1, <1>6
  <2> QED BY <1>6, <2>1, DiscFrame DEF BrowserUpdate, Probe, RetryConnect, ProbeSetsTarget, TakeFailure, ClearQueryRuntime,
          DiscoveryStops, Types
<1>7. CASE CloseClears
  BY <1>1, <1>7 DEF CloseClears, Running
<1>8. CASE disc.at # "connect" /\ ~ProbeSetsTarget /\ ~SetActive /\ ~CloseClears
  <2>1. target' = target
    <3>1. ASSUME TakeFailure PROVE target' = target
      BY <1>1, <3>1 DEF TakeFailure, DropActive, SetTarget
    <3> QED BY <1>8, <3>1, SendFrame, SendLoopSteps DEF senderVars, ClearQueryRuntime, SwitchAvatar, PlannerTakes,
            InstallCatalog, Publish, SetFloat, RefreshCatalog
  <2>2. CASE ChangePending
    BY <1>1, <1>3, <2>2, PendingKept
  <2>3. CASE Consistent /\ ~ChangePending
    <3>1. ASSUME cache' = cache, shown' = shown PROVE Consistent'
      BY <2>1, <2>3, <3>1
    <3>2. CASE UNCHANGED senderVars \/ \E v \in conf.values : Publish(v) \/ SetFloat(v)
      BY <3>1, <3>2 DEF senderVars, Publish, SetFloat
    <3>3. CASE TakeFailure
      BY <3>1, <3>3 DEF TakeFailure
    <3>4. CASE ClearQueryRuntime \/ PlannerTakes
      BY <1>3, <3>4 DEF ClearQueryRuntime, PlannerTakes, Clear, ResetChangeDetection
    <3>5. CASE InstallCatalog
      BY <1>3, <3>5, Installs
    <3>6. CASE SwitchAvatar
      <4>1. ghost'.missed \/ avatar'.wire # <<>>
        BY <3>6, Switches, AvatarFields
      <4> QED BY <4>1 DEF ChangePending
    <3>7. ASSUME NEW c \in Conn, RefreshCatalog(c) PROVE Consistent'
      <4>1. shown' = shown /\ (cache' = cache \/ cache' = Nothing)
        BY <3>7 DEF RefreshCatalog, Install, ResetChangeDetection
      <4> QED BY <1>3, <3>1, <4>1
    <3>8. CASE SendLoop
      <4>1. CASE UNCHANGED <<cache, shown>>
        BY <3>1, <4>1
      <4>2. CASE SendDatagram
        <5>1. catalog # 0
          BY <4>2 DEF SendDatagram, SendingInv
        <5>2. SUFFICES ASSUME NEW i \in Index, cache'[i] # NoValue PROVE shown'[target][i] = cache'[i]
          BY <2>1
        <5>3. /\ cache'[i] = IF i \in Datagram THEN EvaluateOutput(i, pass.source) ELSE cache[i]
              /\ shown'[target][i] = IF i \in Datagram THEN EvaluateOutput(i, pass.source) ELSE shown[target][i]
          BY <4>2, <5>1, SendsDatagram DEF Commit
        <5> QED BY <2>3, <5>2, <5>3
      <4> QED BY <3>8, <4>1, <4>2, SendLoopSteps
    <3> QED BY <1>8, <3>2, <3>3, <3>4, <3>5, <3>6, <3>7, <3>8, SendFrame
  <2> QED BY <1>1, <1>2, <1>8, <2>1, <2>2, <2>3 DEF SentInv
<1> QED BY <1>4, <1>5, <1>6, <1>7, <1>8

-----------------------------------------------------------------------------
(* The inductive invariant. *)

OSCInv ==
    /\ Types /\ FreeConn /\ WorkerInv /\ AvatarInv
    /\ SendingInv /\ ProgressInv /\ ClearedInv /\ SentInv

LEMMA OSCInit == Init => OSCInv
<1> SUFFICES ASSUME Init PROVE OSCInv
  OBVIOUS
<1>1. ConfTypes /\ 0 \in Avatars
  BY ConfigAssumption DEF Init, ConfTypes, Avatars
<1>2. conn \in [Conn -> WorkerType] /\ \A c \in Conn : conn[c] = Worker
  BY <1>1, WorkerIsTyped DEF Init
<1>3. Worker.at = "done" /\ ~Worker.force /\ Worker.rev = 0
  BY DEF Worker
<1>4. disc \in DiscType /\ disc.at = "select" /\ seen = {}
  BY DEF Init, DiscType
<1>5. active = None /\ failed = <<>> /\ refresh = <<>> /\ timers = 0
  BY DEF Init
<1>6. /\ avatar \in [world : Avatars, wire : Seq(Avatars), id : Avatars \cup {None}, revision : Nat, box : Avatars \cup {None}]
      /\ avatar.wire = <<>> /\ avatar.id = None /\ avatar.revision = 0 /\ avatar.box = None
      /\ planner \in PlannerType /\ planner.at = "idle" /\ planner.avatar = None
      /\ ghost \in [missed : BOOLEAN, dropped : BOOLEAN]
  BY <1>1 DEF Init, PlannerType
<1>7. catalog = 0 /\ source = NoValue /\ cache = Nothing /\ pass = IdlePass /\ DOMAIN shown = Address
  BY DEF Init, SenderInit
<1>8. target \in Address \cup {NoTarget}
  <2>1. conf \in Config /\ (conf.target = "auto" \/ target = conf.target) /\ (conf.target # "auto" \/ target = NoTarget)
    BY DEF Init, AutoTarget
  <2>2. conf.target = "auto" \/ conf.target \in Address
    BY <2>1, ConfigAssumption
  <2> QED BY <2>1, <2>2
<1>9. Types
  BY <1>1, <1>2, <1>3, <1>4, <1>5, <1>6, <1>7, <1>8, IdleIsTyped
     DEF Types, DiscTypes, WorkTypes, AvatarTypes, SendTypes, PlannerType
<1>10. FreeConn /\ WorkerInv
  BY <1>2, <1>3, <1>4, <1>5 DEF FreeConn, WorkerInv
<1>11. AvatarInv
  BY <1>2, <1>3, <1>6 DEF AvatarInv
<1>12. SendingInv /\ ProgressInv /\ ClearedInv
  BY <1>2, <1>3, <1>6, <1>7, IdleIsTyped DEF SendingInv, ProgressInv, ClearedInv
<1>13. SentInv
  BY <1>7 DEF SentInv, Consistent, Nothing
<1> QED BY <1>9, <1>10, <1>11, <1>12, <1>13 DEF OSCInv

LEMMA OSCStep == OSCInv /\ [Next]_vars => OSCInv'
<1> SUFFICES ASSUME OSCInv, [Next]_vars PROVE OSCInv'
  OBVIOUS
<1>1. CASE Next
  <2>1. ConfTypes' /\ DiscTypes' /\ SendTypes' /\ SendingInv' /\ ConfTypes
    BY <1>1, LifeTyped, DiscTyped, SendTyped DEF OSCInv, Types
  <2>2. Avatars' = Avatars /\ WorkerType' = WorkerType
    BY <1>1, ConfKept DEF Avatars, WorkerType
  <2>3. WorkTypes'
    BY <1>1, <2>2, ConnTyped, RefreshTyped DEF OSCInv, WorkTypes
  <2>4. AvatarTypes'
    BY <1>1, <2>2, AvatarTyped DEF OSCInv, AvatarTypes, PlannerType
  <2> QED BY <1>1, <2>1, <2>3, <2>4, WorkerKept, AvatarKept, ProgressKept, ClearedKept, SentKept DEF OSCInv, Types
<1>2. CASE UNCHANGED vars
  <2>1. /\ UNCHANGED <<target, catalog, source, cache, pass, shown, conf, life, alive, seen, disc>>
        /\ UNCHANGED <<active, conn, failed, refresh, timers, avatar, planner, ghost>>
    BY <1>2, Zenon DEF vars, senderVars, discVars, workVars
  <2>2. Types' /\ FreeConn' /\ WorkerInv' /\ AvatarInv' /\ SendingInv'
    BY <2>1 DEF OSCInv, Types, ConfTypes, DiscTypes, WorkTypes, AvatarTypes, SendTypes, Avatars, WorkerType,
       FreeConn, WorkerInv, Running, AvatarInv, Query, SendingInv
  <2>3. ProgressInv'
    BY <2>1 DEF OSCInv, ProgressInv, Output, Changed, ScalarEqual, EvaluateOutput
  <2>4. ClearedInv' /\ SentInv'
    BY <2>1 DEF OSCInv, ClearedInv, SentInv, Consistent, ChangePending, Query, Running
  <2> QED BY <2>2, <2>3, <2>4 DEF OSCInv
<1> QED BY <1>1, <1>2

\* Every state of the controller and its sender is typed, and in it the parts of
\* the inductive invariant hold: they relate discovery, the one worker, the
\* messages about the avatar, the pass and the cache (controller.go, sender.go).
THEOREM OSCInvariant == Spec => []OSCInv
  BY OSCInit, OSCStep, PTL DEF Spec

\* There is one worker at a time, and a failure that waits is that of the
\* connection in use: discovery never drops a connection because an earlier one
\* failed, and no failure is lost in a full channel (runActiveVRChat, runDiscovery).
THEOREM FailuresAreOfActive == Spec => []FailureOfActive
<1>1. OSCInv => FailureOfActive
  BY DEF OSCInv, WorkerInv, FailureOfActive
<1> QED BY <1>1, OSCInvariant, PTL

\* When no message is on its way, the avatar the controller knows is VRChat's, and
\* the coordinator has it: an answer to a question never overrides a newer
\* message (discoverActiveAvatar, publishAvatarChangeLocked).
THEOREM AvatarIsRight == Spec => []AvatarSettles
<1>1. OSCInv => AvatarSettles
  BY DEF OSCInv, AvatarInv, AvatarSettles
<1> QED BY <1>1, OSCInvariant, PTL

-----------------------------------------------------------------------------
(* What a pass delivers. *)

LEMMA PassEnds ==
    ASSUME OSCInv PROVE PassEndsDelivered
<1> SUFFICES ASSUME pass.at = "sending", Due = {}, pass.ok, target # NoTarget, source # Invalid, Running, disc.at # "connect",
                    ~ChangePending, NEW i \in DOMAIN Output
             PROVE  shown[target][i] # NoValue /\ ScalarEqual(i, shown[target][i], EvaluateOutput(i, source))
  BY DEF PassEndsDelivered
<1>1. Types /\ catalog # 0 /\ pass.source = source
  BY DEF OSCInv, SendingInv
<1>2. i \in 1 .. Len(Output) /\ Len(Output) \in Nat /\ i \in Index /\ pass.next \in Nat
  BY <1>1, IndexCovers DEF Types, SendTypes, PassType
<1>3. ~Changed(i, source)
  <2>1. CASE i < pass.next
    BY <1>1, <1>2, <2>1 DEF OSCInv, ProgressInv
  <2>2. CASE ~(i < pass.next)
    <3>1. i \in pass.next .. Len(Output)
      BY <1>2, <2>2
    <3> QED BY <1>1, <3>1 DEF Due
  <2> QED BY <2>1, <2>2
<1>4. cache[i] # NoValue /\ shown[target][i] = cache[i]
  BY <1>2, <1>3 DEF OSCInv, SentInv, Consistent, Changed
<1> QED BY <1>3, <1>4 DEF Changed

LEMMA SendsOnlyRuntime ==
    ASSUME OSCInv, [Next]_vars PROVE SendsOfRuntime
<1>1. CASE pass.at = "sending"
  BY <1>1 DEF OSCInv, SendingInv, SendsOfRuntime
<1>2. CASE pass.at # "sending"
  BY <1>2 DEF SendsOfRuntime
<1> QED BY <1>1, <1>2

\* A pass that ends well leaves the receiver with every value of the source, up to
\* epsilon, although only changes are sent, and nothing is sent of a catalog or
\* a source that was cleared or replaced (sender.go, runtime.go, setActive,
\* refreshCatalog).
THEOREM PassesDeliver == Spec => PassDelivers
<1>1. OSCInv /\ [Next]_vars => [PassEndsDelivered /\ SendsOfRuntime]_vars
  BY PassEnds, SendsOnlyRuntime
<1> QED BY <1>1, OSCInvariant, PTL DEF Spec, PassDelivers

=============================================================================
