---------------------------- MODULE PluginEvents ----------------------------
\* How a plugin's changes reach those who follow them: the supervisors and the
\* end of Manager.Start publish to the event hub, which coalesces per subscriber;
\* SubscribePlugins turns events into plugin lists, and the coordinator removes
\* the tracking source of a plugin that is gone.
\*
\* A snapshot is its session and whether it is running and active.  Sequence
\* numbers are left out: pending is kept in their order.
EXTENDS Integers, Sequences, SequencesExt, FiniteSets

CONSTANTS
    Plugin,
    Sub,            \* subscribers, each a list follower or the coordinator
    Capacity,       \* EventCapacity, the bound of each of a subscriber's queues
    QueueCapacity,  \* the bound of the hub's command queue
    MaxSession,     \* bound on the session IDs handed out, per subscriber
    MaxLog          \* bound on the log entries written, per subscriber

Follower == "list"
Coordinator == "coordinator"

ASSUME PluginAssumption == IsFiniteSet(Plugin)
ASSUME SubAssumption == Sub \subseteq {Follower, Coordinator} /\ MaxSession \in [Sub -> Nat] /\ MaxLog \in [Sub -> Nat]
ASSUME CapacityAssumption == Capacity \in Nat \ {0} /\ QueueCapacity \in Nat \ {0}

VARIABLES
    life,     \* the manager: starting, started, closing
    starter,  \* the publications that Start still has to make
    snap,     \* the snapshot each supervisor has stored
    loop,     \* what each supervisor's loop is about to publish
    lost,     \* per plugin: entries the hub refused, and the session they are of
    hub,      \* the hub's goroutine and its command queue
    sub,      \* subscribers
    list,     \* SubscribePlugins: what it reads and what it has offered
    known,    \* the coordinator's pluginSessions
    source,   \* the session of each tracking source, 0 for none, or Late
    recon,    \* what Reconcile has read and not yet applied
    ghost     \* refused, pushed out, what the coordinator learnt first, log entries owed

vars == <<life, starter, snap, loop, lost, hub, sub, list, known, source, recon, ghost>>

\* The source of a frame that a session submitted after it was lost.
Late == -1

Zero == [session |-> 0, up |-> FALSE]
Idle == [kind |-> "none", plugin |-> "none", snap |-> Zero, dropped |-> 0]

Event(kind, p, s, dropped) == [kind |-> kind, plugin |-> p, snap |-> s, dropped |-> dropped]

Key(e) == <<e.plugin, e.kind>>
Notices == {"discovered"}
States == {"state", "status"}

NoSub == [at |-> "none", cancelled |-> FALSE, pending |-> <<>>, order |-> <<>>, dropped |-> [p \in Plugin |-> 0]]

\* One of Sub follows, the others have ended: subscribers share nothing but the
\* hub.  Application.Start subscribes the coordinator before it starts the manager.
Init ==
    /\ life = "starting"
    /\ starter = [left |-> Plugin, next |-> Idle]
    /\ snap = [p \in Plugin |-> Zero]
    /\ loop = [p \in Plugin |-> Idle]
    /\ lost = [p \in Plugin |-> [count |-> 0, session |-> 0]]
    /\ \E who \in Sub :
          sub = [s \in Sub |-> [NoSub EXCEPT !.at = IF s # who THEN "closed" ELSE IF s = Coordinator THEN "on" ELSE "none"]]
    /\ hub = [at |-> IF \E s \in Sub : sub[s].at = "on" THEN "run" ELSE "off", done |-> FALSE, quota |-> 0, queue |-> <<>>]
    /\ list = [reading |-> {}, got |-> snap, shown |-> snap]
    /\ known = [p \in Plugin |-> 0]
    /\ source = [p \in Plugin |-> 0]
    /\ recon = [at |-> "none", left |-> {}, got |-> snap]
    /\ ghost = [refused |-> {}, pushed |-> {}, who |-> CHOOSE s \in Sub : sub[s].at # "closed", logs |-> 0, first |-> known, owed |-> [s \in Sub |-> [p \in Plugin |-> 0]]]

(***************************************************************************)
(* Publishing.                                                             *)
(***************************************************************************)

Room == ~hub.done /\ Len(hub.queue) < QueueCapacity

\* eventHub.Publish never waits.
Published(e) == [hub EXCEPT !.queue = IF Room THEN Append(@, e) ELSE @]

\* Remember that a change was refused by the bounded queue, or that another
\* plugin's pushed it out, until the hub is told of the plugin's present snapshot.
Refusal(e) ==
    LET told == IF Room /\ e.snap = snap[e.plugin] THEN {e.plugin} ELSE {}
        lost_ == IF Room THEN {} ELSE {e.plugin}
    IN  IF e.kind = "log" THEN ghost
        ELSE [ghost EXCEPT !.refused = (@ \ told) \cup lost_, !.pushed = @ \ told]

\* The log entries of one plugin that a sequence of events stands for: its own,
\* and those it counts as dropped.
Entries(es, p) ==
    UNION {{i} \X (0 .. es[i].dropped) : i \in {i \in DOMAIN es : es[i].kind = "log" /\ es[i].plugin = p}}

Weight(es, p) == Cardinality(Entries(es, p))

OnTheWay(p) == Weight(hub.queue, p) + Weight(<<loop[p]>>, p) + lost[p].count

Held(s, p) == Weight(sub[s].pending, p) + sub[s].dropped[p]

Bound(max) == max[ghost.who]

NextSession == 1 + Max({snap[p].session : p \in Plugin})

\* supervisor.publish stores the snapshot and then calls Publish.
Change(p) ==
    /\ loop[p] = Idle /\ life # "closing"
    /\ LET next == IF snap[p].up THEN [snap[p] EXCEPT !.up = FALSE] ELSE [session |-> NextSession, up |-> TRUE]
       IN  /\ next.session <= Bound(MaxSession)
           /\ snap' = [snap EXCEPT ![p] = next]
           /\ loop' = [loop EXCEPT ![p] = Event("state", p, next, 0)]
    /\ UNCHANGED <<life, starter, lost, hub, sub, list, known, source, recon, ghost>>

\* PublishStatus reads the snapshot through Get, which finds none before Start
\* is over.
Observe(p) ==
    /\ loop[p] = Idle /\ life # "closing" /\ snap[p].up
    /\ loop' = [loop EXCEPT ![p] = Event("status", p, IF life = "starting" THEN Zero ELSE snap[p], 0)]
    /\ UNCHANGED <<life, starter, snap, lost, hub, sub, list, known, source, recon, ghost>>

\* Faulty variant: what was refused before is forgotten.
LogForgets(p) ==
    /\ loop[p] = Idle /\ life # "closing" /\ snap[p].up
    /\ ghost.logs < Bound(MaxLog)
    /\ loop' = [loop EXCEPT ![p] = Event("log", p, Zero, 0)]
    /\ lost' = [lost EXCEPT ![p] = [count |-> 0, session |-> snap[p].session]]
    /\ ghost' = [ghost EXCEPT !.logs = @ + 1, !.owed = [s \in Sub |-> IF sub[s].at = "on" THEN [ghost.owed[s] EXCEPT ![p] = @ + 1] ELSE ghost.owed[s]]]
    /\ UNCHANGED <<life, starter, snap, hub, sub, list, known, source, recon>>

\* PublishLog adds what was refused before, unless that was another session's.
Log(p) ==
    /\ loop[p] = Idle /\ life # "closing" /\ snap[p].up
    /\ ghost.logs < Bound(MaxLog)
    /\ LET same == lost[p].session = snap[p].session
           written == IF same THEN 0 ELSE lost[p].count
       IN  /\ loop' = [loop EXCEPT ![p] = Event("log", p, Zero, IF same THEN lost[p].count ELSE 0)]
           /\ lost' = [lost EXCEPT ![p] = [count |-> 0, session |-> snap[p].session]]
           /\ ghost' = [ghost EXCEPT !.logs = @ + 1, !.owed = [s \in Sub |->
                           IF sub[s].at = "on" THEN [ghost.owed[s] EXCEPT ![p] = @ + 1 - written] ELSE ghost.owed[s]]]
    /\ UNCHANGED <<life, starter, snap, hub, sub, list, known, source, recon>>

PublishIfStarted(p) ==
    /\ loop[p] # Idle
    /\ loop' = [loop EXCEPT ![p] = Idle]
    /\ LET e == loop[p]
           sent == life = "started" /\ Room
       IN  /\ hub' = IF life = "started" THEN Published(e) ELSE hub
           /\ ghost' = IF life = "started" THEN Refusal(e) ELSE ghost
           /\ lost' = IF e.kind = "log" /\ ~sent THEN [lost EXCEPT ![p].count = e.dropped + 1] ELSE lost
    /\ UNCHANGED <<life, starter, snap, sub, list, known, source, recon>>

(***************************************************************************)
(* The end of Start, and Close.                                            *)
(***************************************************************************)

Run(h) == [h EXCEPT !.at = IF @ = "off" THEN "run" ELSE @]

\* Faulty variant: Start announces nothing.
StartedQuietly ==
    /\ life = "starting"
    /\ life' = "started"
    /\ hub' = Run(hub)
    /\ starter' = [starter EXCEPT !.left = {}]
    /\ UNCHANGED <<snap, loop, lost, sub, list, known, source, recon, ghost>>

Started ==
    /\ life = "starting"
    /\ life' = "started"
    /\ hub' = Run(hub)
    /\ UNCHANGED <<starter, snap, loop, lost, sub, list, known, source, recon, ghost>>

\* Each plugin is announced with the snapshot it has after the supervisors may
\* publish: two events, made from one reading.
ReadSnapshot(p) ==
    /\ life # "starting" /\ starter.next = Idle /\ p \in starter.left
    /\ starter' = [left |-> starter.left \ {p}, next |-> Event("discovered", p, snap[p], 0)]
    /\ UNCHANGED <<life, snap, loop, lost, hub, sub, list, known, source, recon, ghost>>

Announce ==
    /\ starter.next # Idle /\ life # "starting"
    /\ LET e == starter.next
           goes == e.kind = "discovered" \/ life = "started"
       IN  /\ hub' = IF goes THEN Published(e) ELSE hub
           /\ ghost' = IF goes THEN Refusal(e) ELSE ghost
           /\ starter' = [starter EXCEPT !.next = IF e.kind = "discovered" THEN [e EXCEPT !.kind = "state"] ELSE Idle]
    /\ UNCHANGED <<life, snap, loop, lost, sub, list, known, source, recon>>

Close ==
    /\ life = "started"
    /\ life' = "closing"
    /\ UNCHANGED <<starter, snap, loop, lost, hub, sub, list, known, source, recon, ghost>>

\* finishClose: once the supervisors have closed.
CloseEvents ==
    /\ life = "closing" /\ ~hub.done
    /\ \A p \in Plugin : loop[p] = Idle
    /\ hub' = [Run(hub) EXCEPT !.done = TRUE]
    /\ UNCHANGED <<life, starter, snap, loop, lost, sub, list, known, source, recon, ghost>>

(***************************************************************************)
(* The hub.                                                                *)
(***************************************************************************)

\* The keys that make room for a state: its own, if it is there, or the oldest.
Queued(b, e) == \E i \in DOMAIN b.order : b.order[i] = Key(e)
Full(b, e) == ~Queued(b, e) /\ Len(b.order) = Capacity
Gone(b, e) == IF Queued(b, e) THEN {Key(e)} ELSE IF Full(b, e) THEN {Head(b.order)} ELSE {}

\* A sequence without its first state with one of the keys.
Without(es, keys) ==
    LET found == {i \in DOMAIN es : es[i].kind \in States /\ Key(es[i]) \in keys}
    IN  IF found = {} THEN es ELSE RemoveAt(es, Min(found))

Count(es, kinds) == Cardinality({i \in DOMAIN es : es[i].kind \in kinds})

\* enqueue: states replace their predecessor and may push out the oldest key,
\* logs are counted when there is no room, notices are dropped.
EnqueueState(b, e) ==
    [b EXCEPT !.pending = Append(Without(@, Gone(b, e)), e),
              !.order = IF Queued(b, e) THEN @ ELSE Append(IF Full(b, e) THEN Tail(@) ELSE @, Key(e))]

EnqueueLog(b, e) ==
    IF Count(b.pending, {"log"}) >= Capacity
    THEN [b EXCEPT !.dropped[e.plugin] = @ + e.dropped + 1]
    ELSE [b EXCEPT !.pending = Append(@, [e EXCEPT !.dropped = @ + b.dropped[e.plugin]]),
                   !.dropped[e.plugin] = 0]

Enqueue(b, e) ==
    IF e.kind \in States THEN EnqueueState(b, e)
    ELSE IF e.kind = "log" THEN EnqueueLog(b, e)
    ELSE IF Count(b.pending, Notices) < Capacity THEN [b EXCEPT !.pending = Append(@, e)] ELSE b

Dispatched(e) ==
    [s \in Sub |-> IF sub[s].at = "on" THEN Enqueue(sub[s], e) ELSE sub[s]]

\* The plugin whose oldest state makes room for that of another one.
PushedOut(b, e) ==
    IF e.kind \in States /\ Full(b, e) THEN {Head(b.order)[1]} \ {e.plugin} ELSE {}

Dispatch(quota) ==
    /\ hub.at = "run" /\ hub.queue # <<>>
    /\ LET e == Head(hub.queue) IN
       /\ sub' = Dispatched(e)
       /\ ghost' = [ghost EXCEPT !.pushed = @ \cup UNION {PushedOut(sub[s], e) : s \in {s \in Sub : sub[s].at = "on"}}]
    /\ hub' = [hub EXCEPT !.queue = Tail(@), !.quota = quota]
    /\ UNCHANGED <<life, starter, snap, loop, lost, list, known, source, recon>>

\* Faulty variant: the queue is drained to the end.
DrainAll == hub.queue # <<>> /\ Dispatch(Len(hub.queue))

\* A round drains what was in the queue when it began, and no more.
Drain == hub.quota > 0 /\ Dispatch(hub.quota - 1)

Round(h) == [h EXCEPT !.quota = Len(h.queue)]

Selecting == hub.at = "run" /\ hub.quota = 0

SelectPublish == Selecting /\ Dispatch(Len(hub.queue) - 1)

SelectSubscribe(s) ==
    /\ Selecting /\ sub[s].at = "asked"
    /\ sub' = [sub EXCEPT ![s].at = IF sub[s].cancelled THEN "closed" ELSE "on"]
    /\ hub' = Round(hub)
    /\ ghost' = [ghost EXCEPT !.owed[s] = [p \in Plugin |-> OnTheWay(p)]]
    /\ list' = IF s = Follower /\ ~sub[s].cancelled THEN [list EXCEPT !.reading = Plugin] ELSE list
    /\ UNCHANGED <<life, starter, snap, loop, lost, known, source, recon>>

\* watchContext has passed the subscriber on.
SelectRemove(s) ==
    /\ Selecting /\ sub[s].at = "on" /\ sub[s].cancelled
    /\ sub' = [sub EXCEPT ![s] = [NoSub EXCEPT !.at = "closed"]]
    /\ hub' = Round(hub)
    /\ ghost' = [ghost EXCEPT !.owed[s] = [p \in Plugin |-> 0]]
    /\ UNCHANGED <<life, starter, snap, loop, lost, list, known, source, recon>>

HubStops ==
    /\ hub.at = "run" /\ hub.done
    /\ hub' = [hub EXCEPT !.at = "stopped", !.queue = <<>>, !.quota = 0]
    /\ sub' = [s \in Sub |-> IF sub[s].at \in {"on", "asked"} THEN [NoSub EXCEPT !.at = "closed"] ELSE sub[s]]
    /\ ghost' = [ghost EXCEPT !.owed = [s \in Sub |-> [p \in Plugin |-> 0]]]
    /\ UNCHANGED <<life, starter, snap, loop, lost, list, known, source, recon>>

(***************************************************************************)
(* Subscribers.                                                            *)
(***************************************************************************)

Subscribe(s) ==
    /\ sub[s].at = "none"
    /\ sub' = [sub EXCEPT ![s].at = IF hub.done THEN "closed" ELSE "asked"]
    /\ hub' = Run(hub)
    /\ UNCHANGED <<life, starter, snap, loop, lost, list, known, source, recon, ghost>>

Cancel(s) ==
    /\ sub[s].at \in {"asked", "on"} /\ ~sub[s].cancelled
    /\ sub' = [sub EXCEPT ![s].cancelled = TRUE]
    /\ UNCHANGED <<life, starter, snap, loop, lost, hub, list, known, source, recon, ghost>>

\* Faulty variant: a loss removes the source, a change of session does not.
ObservedLossOnly(p, s) ==
    /\ known' = IF s.session > known[p] THEN [known EXCEPT ![p] = s.session] ELSE known
    /\ source' = IF (s.session = 0 \/ s.session >= known[p]) /\ ~s.up THEN [source EXCEPT ![p] = 0] ELSE source

\* observePlugin: a loss, or a change of session, removes the source; what an
\* older session reports is ignored.
Observed(p, s) ==
    LET stale == s.session # 0 /\ s.session < known[p]
        changed == s.session # 0 /\ known[p] # 0 /\ s.session > known[p]
    IN  /\ known' = IF s.session > known[p] THEN [known EXCEPT ![p] = s.session] ELSE known
        /\ source' = IF ~stale /\ (changed \/ ~s.up) THEN [source EXCEPT ![p] = 0] ELSE source

\* The first session of each plugin that the coordinator was told of.
FirstKnown(told) == [p \in Plugin |-> IF ghost.first[p] = 0 THEN told[p] ELSE ghost.first[p]]

\* The coordinator starts to read its events when the manager's Start is over.
StartIsOver == life # "starting" /\ starter.left = {} /\ starter.next = Idle

\* The hub hands over the oldest event to a consumer that is ready for it.
Deliver(s) ==
    /\ Selecting /\ sub[s].at = "on" /\ sub[s].pending # <<>>
    /\ IF s = Follower THEN list.reading = {} ELSE StartIsOver
    /\ LET e == Head(sub[s].pending) IN
       /\ sub' = [sub EXCEPT ![s].pending = Tail(@),
                             ![s].order = IF e.kind \in States THEN RemoveFirst(@, Key(e)) ELSE @]
       /\ IF s = Follower
          THEN /\ list' = IF e.kind = "log" THEN list ELSE [list EXCEPT !.reading = Plugin]
               /\ UNCHANGED <<known, source>>
          ELSE /\ IF e.kind = "log" THEN UNCHANGED <<known, source>> ELSE Observed(e.plugin, e.snap)
               /\ UNCHANGED list
       /\ ghost' = [ghost EXCEPT !.owed[s][e.plugin] = @ - IF e.kind = "log" THEN 1 + e.dropped ELSE 0,
                                 !.first = FirstKnown(known')]
    /\ hub' = Round(hub)
    /\ UNCHANGED <<life, starter, snap, loop, lost, recon>>

\* List reads one supervisor after the other, and the list is offered when the
\* last one is read; there is nothing to list before Start is over.
ReadList(p) ==
    /\ p \in list.reading
    /\ LET got == [list.got EXCEPT ![p] = IF life = "starting" THEN Zero ELSE snap[p]] IN
       list' = [reading |-> list.reading \ {p}, got |-> got,
                shown |-> IF list.reading = {p} THEN got ELSE list.shown]
    /\ UNCHANGED <<life, starter, snap, loop, lost, hub, sub, known, source, recon, ghost>>

\* Application.Start reconciles the list with the coordinator that already runs.
ReconcileReads ==
    /\ Coordinator \in Sub /\ sub[Coordinator].at = "on" /\ recon.at = "none" /\ StartIsOver /\ life = "started"
    /\ recon' = [at |-> "applying", left |-> Plugin, got |-> snap]
    /\ UNCHANGED <<life, starter, snap, loop, lost, hub, sub, list, known, source, ghost>>

Reconcile(p) ==
    /\ p \in recon.left
    /\ Observed(p, recon.got[p])
    /\ recon' = [recon EXCEPT !.left = @ \ {p}, !.got[p] = Zero]
    /\ ghost' = [ghost EXCEPT !.first = FirstKnown(known')]
    /\ UNCHANGED <<life, starter, snap, loop, lost, hub, sub, list>>

\* A session's reader submits a frame: of the running session, or one it still
\* held when its session was lost.
Submit(p) ==
    /\ Coordinator \in Sub /\ sub[Coordinator].at = "on"
    /\ snap[p].up /\ source[p] # snap[p].session
    /\ source' = [source EXCEPT ![p] = snap[p].session]
    /\ UNCHANGED <<life, starter, snap, loop, lost, hub, sub, list, known, recon, ghost>>

SubmitLate(p) ==
    /\ Coordinator \in Sub /\ sub[Coordinator].at = "on"
    /\ snap[p].session > 1 \/ (snap[p].session = 1 /\ ~snap[p].up)
    /\ source' = [source EXCEPT ![p] = Late]
    /\ UNCHANGED <<life, starter, snap, loop, lost, hub, sub, list, known, recon, ghost>>

HubStep == Drain \/ SelectPublish \/ HubStops \/ (\E s \in Sub : SelectSubscribe(s) \/ SelectRemove(s))

Next ==
    \/ \E p \in Plugin : \/ Change(p) \/ Observe(p) \/ Log(p) \/ PublishIfStarted(p)
                         \/ ReadSnapshot(p) \/ ReadList(p) \/ Reconcile(p) \/ Submit(p) \/ SubmitLate(p)
    \/ Started \/ Announce \/ Close \/ CloseEvents \/ ReconcileReads
    \/ \E s \in Sub : Subscribe(s) \/ Cancel(s) \/ Deliver(s)
    \/ HubStep

Spec == Init /\ [][Next]_vars

\* The hub's goroutine runs, and reflect.Select, which picks any ready case
\* with the same probability, does not pass one over for ever.
FairSpec ==
    /\ Spec
    /\ WF_vars(HubStep)
    /\ SF_vars(\E s \in Sub : SelectSubscribe(s) \/ SelectRemove(s))

(***************************************************************************)
(* Properties.                                                             *)
(***************************************************************************)

Change_(e) == e.kind \notin {"none", "log"}

\* Nothing about plugin p that subscriber s would be told is on its way.
QuietFor(s, p) ==
    /\ life = "started" /\ p \notin starter.left
    /\ sub[s].at = "on" /\ ~sub[s].cancelled
    /\ \A e \in {loop[p], starter.next} \cup ToSet(hub.queue) \cup ToSet(sub[s].pending) :
          e.plugin = p => ~Change_(e)

\* The plugin list that was offered last is the current one, or news of a
\* change is on its way, or the hub had to refuse it: no order of Subscribe,
\* List, the end of Start, coalescing and eviction leaves a stale list behind
\* (app.go SubscribePlugins, events.go enqueue, manager.go Start).
ListCatchesUp ==
    Follower \in Sub /\ ghost.refused = {} /\ list.reading = {} /\ (\A p \in Plugin : QuietFor(Follower, p))
       => list.shown = snap

\* Once the coordinator has been told, the tracking service holds no source of
\* a lost session, nor one of a session that was replaced although the loss was
\* never reported by itself (coordinator.go observePlugin, with events of Start
\* and Reconcile that overtake and are overtaken).  Exceptions are a frame that
\* was submitted after the loss, and a session before the first one that the
\* coordinator was told of, whose end it cannot notice while that one runs.
\* News can be refused by the hub's queue, or be pushed out by another plugin's
\* when there is no room for all states.
SourceOfLiveSession ==
    Coordinator \in Sub =>
       \A p \in Plugin \ (ghost.refused \cup ghost.pushed) : QuietFor(Coordinator, p) /\ recon.at = "applying" /\ p \notin recon.left =>
          source[p] \in {0, Late} \/ (snap[p].up /\ source[p] \in {snap[p].session} \cup 1 .. (ghost.first[p] - 1))

\* Every log entry since a subscription is delivered, pending, or counted in a
\* dropped count that is still to be reported (events.go enqueue, manager.go
\* PublishLog).
LogsAccounted ==
    \A s \in Sub, p \in Plugin : sub[s].at = "on" =>
       ghost.owed[s][p] = OnTheWay(p) + Held(s, p)

\* A subscriber waits for its subscription, or to be closed.
Waiting(s) == sub[s].at = "asked" \/ (sub[s].at = "on" /\ (sub[s].cancelled \/ hub.done))

\* Subscriptions are answered and cancelled ones closed although the plugins
\* never stop publishing, and closing the hub closes all (events.go run).
HubServes == []<>(\A s \in Sub : ~Waiting(s))

=============================================================================
