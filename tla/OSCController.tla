---------------------------- MODULE OSCController ----------------------------
\* The OSC controller: discovery of VRChat's OSCQuery service, the worker of the
\* connection, the avatar that messages and queries report, and shutdown, with
\* the send loop of OSCSender.
\*
\* A service stands for its address too.  Names, URLs, host information and the
\* text of errors are left out; a query succeeds while its service is alive.
EXTENDS OSCSender

CONSTANTS
    Service,          \* the VRChat services there can be
    Config,           \* configurations: [catalog, target, preferred], with the services,
                      \* values, changes of avatar and first catalog there are under each,
                      \* and whether it is closed
    Conn,             \* connections, each used again once its worker is done
    FailCapacity,     \* of failedCh
    MaxFailures,      \* consecutive failures that end a connection, 3 in the code
    RefreshCapacity,  \* of refreshCh
    Retries,          \* refreshes that are repeated after a change of avatar
    None

ASSUME ServiceAssumption == Service \subseteq Address /\ {FailCapacity, RefreshCapacity} \subseteq Nat \ {0} /\ Retries \in Nat

ASSUME ConnAssumption == Conn # {} /\ None \notin Conn /\ None \notin Nat

\* The catalogs of all avatars there are under a configuration are at hand.
ASSUME ConfigAssumption ==
    \A c \in Config :
       /\ c.services \subseteq Service /\ c.values \subseteq Value \cup {Invalid} /\ c.avatars \in Nat
       /\ c.target = "auto" \/ c.target \in Address
       /\ \A a \in 0 .. c.avatars : c.hash + a \div 2 \in DOMAIN Catalog

VARIABLES
    conf,     \* the configuration
    life,     \* running, closing, joining, closed
    alive,    \* the services that answer
    seen,     \* services announced within the last five minutes
    disc,     \* the discovery goroutine
    active,   \* the connection in use
    conn,     \* the workers of connections
    failed,   \* failedCh
    refresh,  \* refreshCh: whether each request is forced
    timers,   \* retries that have not fired
    avatar,   \* VRChat's avatar, messages on their way, what the controller knows
    planner,  \* the coordinator, which follows the avatar in external mode
    ghost     \* a change of avatar was missed; a forced refresh was dropped or failed

discVars == <<alive, seen, disc>>
workVars == <<active, conn, failed, refresh, timers>>
vars == <<senderVars, conf, life, discVars, workVars, avatar, planner, ghost>>

Query == conf.catalog = "query"
AutoTarget == conf.target = "auto"
Running == life = "running"

Worker == [at |-> "done", service |-> None, cancelled |-> FALSE, force |-> FALSE, fails |-> 0, rev |-> 0, got |-> 0]

Init ==
    /\ conf \in Config
    /\ SenderInit
    /\ target = IF AutoTarget THEN NoTarget ELSE conf.target
    /\ life = "running"
    /\ alive = conf.services /\ seen = {}
    /\ disc = [at |-> "select", left |-> {}, service |-> None]
    /\ active = None
    /\ conn = [c \in Conn |-> Worker]
    /\ failed = <<>> /\ refresh = <<>> /\ timers = 0
    /\ avatar = [world |-> 0, wire |-> <<>>, id |-> None, revision |-> 0, box |-> None]
    /\ planner = [at |-> "idle", avatar |-> None, value |-> Invalid]
    /\ ghost = [missed |-> FALSE, dropped |-> FALSE]

\* The hash of an avatar's catalog: two in a row expose the same addresses.
Hash(a) == conf.hash + a \div 2

(***************************************************************************)
(* Requests for a refresh.                                                 *)
(***************************************************************************)

Full == Len(refresh) >= RefreshCapacity

EnqueueRefresh(force) ==
    /\ refresh' = IF Full THEN refresh ELSE Append(refresh, force)
    /\ ghost' = [ghost EXCEPT !.dropped = @ \/ (force /\ Full /\ Query)]

\* publishAvatarChangeLocked, and in query mode the refreshes that follow.
AvatarChanged(a, wire, missed) ==
    /\ avatar' = [avatar EXCEPT !.revision = @ + 1, !.id = a, !.wire = wire, !.box = IF Query THEN None ELSE a]
    /\ refresh' = IF Query /\ ~Full THEN Append(refresh, TRUE) ELSE refresh
    /\ timers' = IF Query THEN timers + Retries ELSE timers
    /\ ghost' = [missed |-> missed, dropped |-> ghost.dropped \/ (Query /\ Full)]

RetryFires ==
    /\ timers > 0
    /\ timers' = timers - 1
    /\ IF Running THEN EnqueueRefresh(TRUE) ELSE UNCHANGED <<refresh, ghost>>
    /\ UNCHANGED <<senderVars, conf, life, discVars, active, conn, failed, avatar, planner>>

(***************************************************************************)
(* Discovery.                                                              *)
(***************************************************************************)

Candidates == IF conf.preferred = None THEN seen' ELSE seen' \cap {conf.preferred}

ConnectBest ==
    disc' = IF Candidates = {} THEN disc ELSE [disc EXCEPT !.at = "probe", !.left = Candidates]

BrowserUpdate(s) ==
    /\ disc.at = "select" /\ s \in alive \ seen
    /\ seen' = seen \cup {s}
    /\ IF active = None THEN ConnectBest ELSE UNCHANGED disc
    /\ UNCHANGED <<senderVars, conf, life, alive, workVars, avatar, planner, ghost>>

\* Faulty variant: only an announcement starts an attempt to connect.
NoRetry == FALSE /\ UNCHANGED vars

RetryConnect ==
    /\ disc.at = "select" /\ active = None /\ seen # {}
    /\ UNCHANGED seen
    /\ ConnectBest
    /\ UNCHANGED <<senderVars, conf, life, alive, workVars, avatar, planner, ghost>>

\* HostInfo and Node answer, or the next candidate is tried.
Probe(s) ==
    /\ disc.at = "probe" /\ s \in disc.left
    /\ disc' = IF s \in alive /\ Running THEN [at |-> "probed", left |-> {}, service |-> s]
               ELSE [disc EXCEPT !.left = @ \ {s}, !.at = IF disc.left = {s} THEN "select" ELSE @]
    /\ UNCHANGED <<senderVars, conf, life, alive, seen, workVars, avatar, planner, ghost>>

ProbeSetsTarget ==
    /\ disc.at = "probed"
    /\ SetTarget(IF AutoTarget THEN disc.service ELSE target)
    /\ disc' = [disc EXCEPT !.at = "connect"]
    /\ UNCHANGED <<catalog, source, cache, pass, shown, conf, life, alive, seen, workVars, avatar, planner, ghost>>

\* Faulty variant: the values of the last connection count as sent.
SetActiveKeepsCache ==
    /\ disc.at = "connect"
    /\ LET c == CHOOSE d \in Conn : conn[d].at = "done" IN
          /\ active' = c
          /\ conn' = [conn EXCEPT ![c] = [Worker EXCEPT !.at = "discover", !.service = disc.service]]
    /\ disc' = [disc EXCEPT !.at = "select", !.service = None]
    /\ UNCHANGED <<target, catalog, source, cache, pass, shown, conf, life, alive, seen, failed, refresh, timers, avatar, planner, ghost>>

SetActive ==
    /\ disc.at = "connect"
    /\ IF Query THEN UNCHANGED cache ELSE Unlocked /\ ResetChangeDetection
    /\ LET c == CHOOSE d \in Conn : conn[d].at = "done" IN
          /\ active' = c
          /\ conn' = [d \in Conn |-> IF d = c THEN [Worker EXCEPT !.at = "discover", !.service = disc.service]
                                     ELSE [conn[d] EXCEPT !.cancelled = @ \/ d = active]]
    /\ disc' = [disc EXCEPT !.at = "select", !.service = None]
    /\ UNCHANGED <<target, catalog, source, pass, shown, conf, life, alive, seen, failed, refresh, timers, avatar, planner, ghost>>

\* The first half of clearActive; in query mode the runtime is cleared next.
DropActive ==
    /\ active' = None
    /\ conn' = [c \in Conn |-> [conn[c] EXCEPT !.cancelled = @ \/ c = active]]
    /\ SetTarget(IF AutoTarget THEN NoTarget ELSE target)

TakeFailure ==
    /\ disc.at = "select" /\ failed # <<>>
    /\ failed' = Tail(failed)
    /\ DropActive
    /\ disc' = [disc EXCEPT !.at = IF Query THEN "clear" ELSE "select"]
    /\ UNCHANGED <<catalog, source, cache, pass, shown, conf, life, alive, seen, refresh, timers, avatar, planner, ghost>>

ClearQueryRuntime ==
    /\ disc.at = "clear"
    /\ Clear
    /\ disc' = [disc EXCEPT !.at = "select"]
    /\ UNCHANGED <<target, conf, life, alive, seen, workVars, avatar, planner, ghost>>

DiscoveryStops ==
    /\ disc.at = "select" /\ ~Running
    /\ disc' = [disc EXCEPT !.at = "done"]
    /\ UNCHANGED <<senderVars, conf, life, alive, seen, workVars, avatar, planner, ghost>>

(***************************************************************************)
(* The worker of a connection.                                             *)
(***************************************************************************)

Cancelled(c) == conn[c].cancelled \/ ~Running
Answers(c) == conn[c].service \in alive /\ ~Cancelled(c)

ReadRevision(c) ==
    /\ conn[c].at = "discover"
    /\ conn' = [conn EXCEPT ![c].rev = avatar.revision, ![c].at = "ask"]
    /\ UNCHANGED <<senderVars, conf, life, discVars, active, failed, refresh, timers, avatar, planner, ghost>>

AskAvatar(c) ==
    /\ conn[c].at = "ask"
    /\ conn' = [conn EXCEPT ![c] = IF Answers(c) THEN [@ EXCEPT !.at = "told", !.got = avatar.world]
                                              ELSE [@ EXCEPT !.at = "start", !.rev = 0]]
    /\ UNCHANGED <<senderVars, conf, life, discVars, active, failed, refresh, timers, avatar, planner, ghost>>

\* Faulty variant: the answer is taken whatever came in since the question.
DiscoverUnfenced(c) ==
    /\ conn[c].at = "told"
    /\ IF ~Cancelled(c) /\ avatar.id # conn[c].got
       THEN AvatarChanged(conn[c].got, avatar.wire, ghost.missed)
       ELSE UNCHANGED <<avatar, refresh, timers, ghost>>
    /\ conn' = [conn EXCEPT ![c].at = "start", ![c].rev = 0, ![c].got = 0]
    /\ UNCHANGED <<senderVars, conf, life, discVars, active, failed, planner>>

\* A message that came in since the question was asked is newer than the answer.
DiscoverActiveAvatar(c) ==
    /\ conn[c].at = "told"
    /\ IF ~Cancelled(c) /\ avatar.revision = conn[c].rev /\ avatar.id # conn[c].got
       THEN AvatarChanged(conn[c].got, avatar.wire, ghost.missed /\ (conn[c].got # avatar.world \/ avatar.wire # <<>>))
       ELSE UNCHANGED <<avatar, refresh, timers, ghost>>
    /\ conn' = [conn EXCEPT ![c].at = "start", ![c].rev = 0, ![c].got = 0]
    /\ UNCHANGED <<senderVars, conf, life, discVars, active, failed, planner>>

Start(c) ==
    /\ conn[c].at = "start"
    /\ EnqueueRefresh(TRUE)
    /\ conn' = [conn EXCEPT ![c].at = "loop"]
    /\ UNCHANGED <<senderVars, conf, life, discVars, active, failed, timers, avatar, planner>>

\* WatchChanges reports a change of the service's paths.
PathChanged(c) ==
    /\ conn[c].at \in {"loop", "query", "install"} /\ ~Cancelled(c)
    /\ Len(refresh) < RefreshCapacity
    /\ EnqueueRefresh(FALSE)
    /\ UNCHANGED <<senderVars, conf, life, discVars, active, conn, failed, timers, avatar, planner>>

TakeRefresh(c) ==
    /\ conn[c].at = "loop" /\ refresh # <<>>
    /\ refresh' = Tail(refresh)
    /\ conn' = [conn EXCEPT ![c].at = "query", ![c].force = Head(refresh)]
    /\ UNCHANGED <<senderVars, conf, life, discVars, active, failed, timers, avatar, planner, ghost>>

Poll(c) ==
    /\ conn[c].at = "loop"
    /\ conn' = [conn EXCEPT ![c].at = "query", ![c].force = FALSE]
    /\ UNCHANGED <<senderVars, conf, life, discVars, active, failed, refresh, timers, avatar, planner, ghost>>

Refreshed(c) == [conn EXCEPT ![c].at = "loop", ![c].got = 0, ![c].fails = 0, ![c].force = FALSE]

\* Faulty variant: the worker goes on after it has reported its failures.
RefreshFailsOn(c) ==
    /\ conn[c].at = "query" /\ ~Answers(c)
    /\ LET last == conn[c].fails + 1 = MaxFailures IN
       /\ conn' = [conn EXCEPT ![c] = [@ EXCEPT !.fails = IF last THEN 0 ELSE conn[c].fails + 1, !.force = FALSE, !.at = "loop"]]
       /\ failed' = IF last /\ Len(failed) < FailCapacity THEN Append(failed, c) ELSE failed
    /\ UNCHANGED <<senderVars, conf, life, discVars, active, refresh, timers, avatar, planner, ghost>>

RefreshFails(c) ==
    /\ conn[c].at = "query" /\ ~Answers(c)
    /\ LET last == conn[c].fails + 1 = MaxFailures IN
       /\ conn' = [conn EXCEPT ![c] = IF last THEN Worker ELSE [@ EXCEPT !.fails = conn[c].fails + 1, !.force = FALSE, !.at = "loop"]]
       /\ failed' = IF last /\ Len(failed) < FailCapacity THEN Append(failed, c) ELSE failed
    /\ ghost' = [ghost EXCEPT !.dropped = @ \/ (conn[c].force /\ Query)]
    /\ UNCHANGED <<senderVars, conf, life, discVars, active, refresh, timers, avatar, planner>>

RefreshAnswered(c) ==
    /\ conn[c].at = "query" /\ Answers(c)
    /\ conn' = IF Query THEN [conn EXCEPT ![c].at = "install", ![c].got = avatar.world] ELSE Refreshed(c)
    /\ UNCHANGED <<senderVars, conf, life, discVars, active, failed, refresh, timers, avatar, planner, ghost>>

\* A new catalog is installed, and a forced refresh sends the values again.
RefreshCatalog(c) ==
    /\ conn[c].at = "install"
    /\ LET hash == Hash(conn[c].got) IN
       IF catalog # hash THEN Install(hash, planner.value)
       ELSE /\ IF conn[c].force THEN Unlocked /\ ResetChangeDetection ELSE UNCHANGED cache
            /\ UNCHANGED <<catalog, source, pass, shown>>
    /\ ghost' = [ghost EXCEPT !.dropped = @ /\ ~conn[c].force]
    /\ conn' = Refreshed(c)
    /\ UNCHANGED <<target, conf, life, discVars, active, failed, refresh, timers, avatar, planner>>

WorkerStops(c) ==
    /\ conn[c].at = "loop" /\ Cancelled(c)
    /\ conn' = [conn EXCEPT ![c] = Worker]
    /\ UNCHANGED <<senderVars, conf, life, discVars, active, failed, refresh, timers, avatar, planner, ghost>>

(***************************************************************************)
(* VRChat, and the coordinator.                                            *)
(***************************************************************************)

Appear(s) ==
    /\ Running
    /\ alive' = IF s \in alive THEN alive \ {s} ELSE alive \cup {s}
    /\ UNCHANGED <<senderVars, conf, life, seen, disc, workVars, avatar, planner, ghost>>

\* Five minutes have passed since the announcement.  It matters only when
\* discovery looks for a service.
Forget(s) ==
    /\ Running /\ active = None /\ disc.at = "select" /\ s \in seen
    /\ seen' = seen \ {s}
    /\ UNCHANGED <<senderVars, conf, life, alive, disc, workVars, avatar, planner, ghost>>

\* A new avatar starts without values.  The message about it may be lost.
SwitchAvatar ==
    /\ Running /\ avatar.world < conf.avatars
    /\ \E missed \in BOOLEAN :
          /\ avatar' = [avatar EXCEPT !.world = @ + 1, !.wire = IF missed THEN @ ELSE Append(@, avatar.world + 1)]
          /\ ghost' = [ghost EXCEPT !.missed = missed]
    /\ shown' = [a \in Address |-> Nothing]
    /\ UNCHANGED <<target, catalog, source, cache, pass, conf, life, discVars, workVars, planner>>

AcceptAvatarChange ==
    /\ avatar.wire # <<>> /\ Running
    /\ AvatarChanged(Head(avatar.wire), Tail(avatar.wire), ghost.missed)
    /\ UNCHANGED <<senderVars, conf, life, discVars, active, conn, failed, planner>>

\* The coordinator takes the change out of its mailbox and clears the runtime.
PlannerTakes ==
    /\ ~Query /\ Running /\ avatar.box # None
    /\ Clear
    /\ planner' = [planner EXCEPT !.at = "plan", !.avatar = avatar.box]
    /\ avatar' = [avatar EXCEPT !.box = None]
    /\ UNCHANGED <<target, conf, life, discVars, workVars, ghost>>

InstallCatalog ==
    /\ planner.at = "plan" /\ Running
    /\ Install(Hash(planner.avatar), NoValue)
    /\ planner' = [planner EXCEPT !.at = "idle"]
    /\ UNCHANGED <<target, conf, life, discVars, workVars, avatar, ghost>>

\* Publish stores a snapshot for the installed catalog.
Publish(v) ==
    /\ ~Query /\ Running /\ planner.at = "idle" /\ catalog # 0 /\ Unlocked
    /\ source' = v
    /\ UNCHANGED <<target, catalog, cache, pass, shown, conf, life, discVars, workVars, avatar, planner, ghost>>

\* In query mode the source is one object, which may change while it is sent.
SetFloat(v) ==
    /\ Query /\ Running /\ v # planner.value
    /\ planner' = [planner EXCEPT !.value = v]
    /\ source' = IF source = NoValue THEN source ELSE v
    /\ pass' = IF pass.at = "sending" THEN [pass EXCEPT !.source = v, !.ok = FALSE] ELSE pass
    /\ UNCHANGED <<target, catalog, cache, shown, conf, life, discVars, workVars, avatar, ghost>>

(***************************************************************************)
(* Shutdown.                                                               *)
(***************************************************************************)

Close ==
    /\ Running /\ conf.closes
    /\ life' = "closing"
    /\ UNCHANGED <<senderVars, conf, discVars, workVars, avatar, planner, ghost>>

CloseClears ==
    /\ life = "closing"
    /\ DropActive
    /\ IF Query THEN Clear ELSE UNCHANGED <<catalog, source, cache, pass, shown>>
    /\ life' = "joining"
    /\ UNCHANGED <<conf, discVars, failed, refresh, timers, avatar, planner, ghost>>

\* wg.Wait: the send loop, discovery, the workers and the retries are over.
CloseEnds ==
    /\ life = "joining"
    /\ Unlocked /\ disc.at = "done" /\ timers = 0 /\ \A c \in Conn : conn[c].at = "done"
    /\ life' = "closed"
    /\ UNCHANGED <<senderVars, conf, discVars, workVars, avatar, planner, ghost>>

\* The send loop; the socket is closed once the connection is dropped.
SendLoop ==
    /\ \/ life \in {"running", "closing"} /\ (BeginPass \/ SendDatagram)
       \/ SendFails \/ EndPass
    /\ UNCHANGED <<conf, life, discVars, workVars, avatar, planner, ghost>>

Discovery ==
    \/ RetryConnect \/ ProbeSetsTarget \/ SetActive \/ TakeFailure \/ ClearQueryRuntime \/ DiscoveryStops
    \/ \E s \in Service : Probe(s)

Work(c) ==
    \/ ReadRevision(c) \/ AskAvatar(c) \/ DiscoverActiveAvatar(c) \/ Start(c) \/ TakeRefresh(c) \/ Poll(c)
    \/ RefreshFails(c) \/ RefreshAnswered(c) \/ RefreshCatalog(c) \/ WorkerStops(c)

Shutdown == CloseClears \/ CloseEnds

Next ==
    \/ Discovery \/ RetryFires \/ SendLoop \/ Close \/ Shutdown
    \/ \E c \in Conn : Work(c) \/ PathChanged(c)
    \/ \E s \in conf.services : BrowserUpdate(s) \/ Appear(s) \/ Forget(s)
    \/ SwitchAvatar \/ AcceptAvatarChange
    \/ PlannerTakes \/ InstallCatalog \/ \E v \in conf.values : Publish(v) \/ SetFloat(v)

Spec == Init /\ [][Next]_vars

\* Every goroutine runs.  Fairness is strong for those that wait for the
\* runtime's lock, which keeps new readers out once a writer waits, and for the
\* end of discovery, whose select does not pass a ready case over for ever.
FairSpec ==
    /\ Spec
    /\ SF_vars(Discovery) /\ SF_vars(DiscoveryStops) /\ SF_vars(Shutdown)
    /\ SF_vars(\E c \in Conn : Work(c))
    /\ WF_vars(SendLoop) /\ WF_vars(RetryFires)

(***************************************************************************)
(* Properties.                                                             *)
(***************************************************************************)

\* There is one worker at a time, and a failure that waits to be handled is the
\* failure of the connection in use, whose worker has returned: discovery never
\* drops a connection because an earlier one failed, no failure is lost in a
\* full channel, and no stale worker takes the refresh requests of another
\* (runActiveVRChat, runDiscovery).
FailureOfActive ==
    Running =>
       /\ \A c \in Conn : conn[c].at # "done" => c = active
       /\ \A k \in DOMAIN failed : k = 1 /\ failed[k] = active /\ conn[active].at = "done"
       /\ active # None /\ conn[active].at = "done" => failed # <<>>

\* When no message is on its way, the avatar the controller knows is VRChat's,
\* and it is the one the coordinator was given: an answer to the question
\* of a new connection never overrides a newer message (discoverActiveAvatar).
AvatarSettles ==
    Running /\ avatar.wire = <<>> /\ ~ghost.missed =>
       /\ avatar.id \in {None, avatar.world}
       /\ ~Query /\ avatar.box = None => planner.avatar = avatar.id

\* A change of avatar that the sender still has to be told of.
ChangePending ==
    \/ avatar.wire # <<>> \/ ghost.missed \/ avatar.id # avatar.world
    \/ IF Query THEN \/ ghost.dropped \/ timers > 0 \/ (\E k \in DOMAIN refresh : refresh[k])
                     \/ \E c \in Conn : conn[c].at \in {"told", "start"} \/ conn[c].force
                ELSE avatar.box # None \/ planner.at # "idle"

PassEndsDelivered ==
    pass.at = "sending" /\ pass'.at = "idle" /\ Due = {} /\ pass.ok /\ target # NoTarget /\ source # Invalid
    /\ Running /\ disc.at # "connect" /\ ~ChangePending =>
       \A i \in DOMAIN Output : shown[target][i] # NoValue /\ ScalarEqual(i, shown[target][i], EvaluateOutput(i, source))

SendsOfRuntime ==
    pass.at = "sending" /\ shown' # shown /\ avatar'.world = avatar.world => catalog # 0 /\ pass.source = source

\* A pass that ends well leaves the receiver with every value of the source, up
\* to epsilon, although only changes are sent: connections that come and go,
\* failed sends, bundles and avatars with the same catalog do not leave a stale
\* cache behind (sender.go, setActive, refreshCatalog).  And nothing is sent of a
\* catalog or a source that was cleared or replaced (runtime.go: "clear and
\* replacement cannot overlap an old-runtime send").
PassDelivers == [][PassEndsDelivered /\ SendsOfRuntime]_vars

\* The connection is to a service that is gone, there is none although all
\* services are there and announced, or Close waits.
Unsettled ==
    \/ Running /\ active # None /\ alive = {}
    \/ Running /\ active = None /\ alive = conf.services /\ seen = conf.services /\ seen # {}
    \/ life \in {"closing", "joining"}

\* A service that is gone is noticed after three failures, one that stays is
\* connected to, and Close returns (runActiveVRChat, runDiscovery, Close).
ConnectionFollows == []<>~Unsettled

=============================================================================
