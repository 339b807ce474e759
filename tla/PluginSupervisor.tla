--------------------------- MODULE PluginSupervisor ---------------------------
(***************************************************************************)
(* The serialized supervisor of one plugin (internal/plugins/supervisor.go *)
(* and the control state of control.go).  One goroutine owns all of the    *)
(* loop state and handles, one at a time and in an order the Go select     *)
(* chooses freely: commands, results of the session's waiter, Stop and     *)
(* Control goroutines, callbacks of the session, and two timers.           *)
(*                                                                         *)
(* The session is modelled here by its contract (pluginSession): it        *)
(* reports ProcessStarted, then Ready, then possibly Unresponsive, ends    *)
(* once with a result, and ends with a nil error only after Stop.          *)
(*                                                                         *)
(* A goroutine that only carries a value into a buffered channel of the    *)
(* loop is one membership in a set: the value may arrive at any later      *)
(* time.  Intermediate publications within one handler are collapsed into  *)
(* the last one.                                                           *)
(***************************************************************************)
EXTENDS Integers, Sequences, FiniteSets

CONSTANTS
    Cmd,              \* identities of supervisorCommand envelopes; each is sent once
    NoCmd,            \* a nil reply channel
    Data,             \* contents of a Config or of a Subscription
    NoData,           \* the empty content
    MaxVersion,       \* bound: largest Config.Revision and Subscription.Generation
    MaxSession,       \* the last session identity (2^64-1 in the code)
    MaxFailures,      \* RestartPolicy.MaxFailures
    Capacity,         \* SupervisorCapacity: commands and control queue
    TelemetryBound,   \* bound: telemetry callbacks waiting in their channel
    CriticalCapacity, \* capacity of the critical callback channel (16 in the code)
    Kinds             \* the kinds of command the callers issue

ASSUME SupervisorAssumption ==
    /\ NoCmd \notin Cmd
    /\ NoData \notin Data
    /\ MaxVersion \in Nat
    /\ MaxSession \in Nat
    /\ MaxFailures \in Nat \ {0}
    /\ Capacity \in Nat \ {0}
    /\ TelemetryBound \in Nat
    /\ CriticalCapacity \in Nat \ {0}
    /\ Kinds \subseteq {"enable", "disable", "restart", "close", "config", "subscription", "active"}

Sessions == 1 .. MaxSession

\* Config and Subscription: a version number and a content; version 0 is empty.
Versioned == {[ver |-> 0, val |-> NoData]}
             \cup [ver : 1 .. MaxVersion, val : Data]

Unset == [ver |-> 0, val |-> NoData]

\* controlState
Control == [active : BOOLEAN, config : Versioned, sub : Versioned]

LifecycleKinds == {"enable", "disable", "restart", "close"}

\* supervisorCommand; forceActive is the negation of active (Manager.SetActive).
Command ==
    [kind : LifecycleKinds, active : {FALSE}, version : {Unset}]
    \cup [kind : {"active"}, active : BOOLEAN, version : {Unset}]
    \cup [kind : {"config", "subscription"}, active : {FALSE}, version : Versioned]

NoCommand == [kind |-> "none", active |-> FALSE, version |-> Unset]

Replies == {"ok", "invalid_state", "closed", "backpressure", "rejected",
            "canceled", "failed"}

States == {"disabled", "stopped", "starting", "handshaking", "running",
           "stopping", "backoff", "crashed", "unresponsive", "incompatible"}

\* The part of RuntimeSnapshot the loop decides on; pid and metric name the
\* session that reported the PID and the last heartbeat or frame (0: cleared).
Snapshot == [enabled : BOOLEAN, state : States, session : 0 .. MaxSession,
             failures : Nat, error : {"", "failed", "limit"},
             pid : 0 .. MaxSession, metric : 0 .. MaxSession,
             nextRestart : BOOLEAN]

VARIABLES
    \* --- supervisorLoopState
    snap, control, session, instance, timer, stable, intent,
    disableReply, restartReply, closeReply, closing,
    queue, controlID, inFlight,
    \* --- serializedPluginSupervisor: channels and the published snapshot
    commands, critical, telemetry, done, published,
    \* --- goroutines the loop started
    watching,    \* sessions whose Done waiter has not delivered yet
    stopCalls,   \* sessions whose Stop call has not delivered yet
    ops,         \* Control calls that have not returned
    ctlResults,  \* results of Control calls not yet handled
    \* --- callers and sessions
    cmd, reply, cancelled,
    sess,        \* [phase, result, steady] of every session
    told         \* what each session has been told: startup and applied controls

loopVars == <<snap, control, session, instance, timer, stable, intent,
              disableReply, restartReply, closeReply, closing,
              queue, controlID, inFlight>>
vars == <<loopVars, commands, critical, telemetry, done, published, watching,
          stopCalls, ops, ctlResults, cmd, reply, cancelled, sess, told>>

-----------------------------------------------------------------------------
(* control.go: applying a versioned value, and the control state. *)

ApplyVersion(current, next) ==
    IF next.ver < current.ver THEN "rejected"
    ELSE IF next.ver > current.ver THEN "changed"
    ELSE IF next = current THEN "same" ELSE "rejected"

\* The effect of a control command on a control state: the verdict and the
\* resulting state.  A generation-0 subscription is invalid while active.
ApplyControl(ctl, c) ==
    CASE c.kind = "config" ->
            LET v == ApplyVersion(ctl.config, c.version)
            IN  [verdict |-> v,
                 next |-> IF v = "changed" THEN [ctl EXCEPT !.config = c.version] ELSE ctl]
      [] c.kind = "subscription" ->
            LET v == IF ctl.active /\ c.version.ver = 0 THEN "rejected"
                     ELSE ApplyVersion(ctl.sub, c.version)
            IN  [verdict |-> v,
                 next |-> IF v = "changed" THEN [ctl EXCEPT !.sub = c.version] ELSE ctl]
      [] OTHER ->
            [verdict |-> IF ctl.active # c.active \/ ~c.active THEN "changed" ELSE "same",
             next |-> [ctl EXCEPT !.active = c.active]]

NoOp == [op |-> 0, instance |-> 0, cmd |-> NoCmd, next |-> [active |-> FALSE, config |-> Unset, sub |-> Unset]]

-----------------------------------------------------------------------------
(* Fragments shared by the handlers. *)

\* clearRuntimeMetrics
Cleared(s) == [s EXCEPT !.pid = 0, !.metric = 0]

\* NextRestartAt is reset, by cancelTimer and by startSession
TimerOff(s) == [s EXCEPT !.nextRestart = FALSE]

\* Every handler ends in publish (the atomic.Value store and the Publish
\* callback), except the one that names its own.
Publish == published' = [snap |-> snap', control |-> control']

\* Sends on reply channels: one value to each command in the domain of f.
Answer(f) ==
    reply' = [c \in Cmd |-> IF c \in DOMAIN f THEN Append(reply[c], f[c]) ELSE reply[c]]

One(c, r) == [x \in {c} |-> r]

Queued == {queue[i] : i \in 1 .. Len(queue)}

\* The commands that retireControls answers with ErrInvalidState.
Retired == Queued \cup (IF inFlight.op = 0 THEN {} ELSE {inFlight.cmd})

RetireQueueOnly ==
    /\ queue' = << >>
    /\ controlID' = controlID + 1
    /\ UNCHANGED inFlight

RetireControls ==
    /\ inFlight' = NoOp
    /\ queue' = << >>
    /\ controlID' = controlID + 1

Durable(c) == cmd[c].kind = "config"

\* What dispatchNextControl does with a queued control on control state ctl:
\* "run" it, or answer it at once.
DispatchVerdict(c, ctl) ==
    IF c \in cancelled THEN "canceled"
    ELSE IF Durable(c) THEN "run"
    ELSE CASE ApplyControl(ctl, cmd[c]).verdict = "changed" -> "run"
           [] ApplyControl(ctl, cmd[c]).verdict = "same" -> "ok"
           [] OTHER -> "rejected"

\* dispatchNextControl over queue q: the first n controls are answered, and the
\* next one, which is runnable, starts a Control call on the current session.
\* f holds the replies the handler already gives.
Dispatch(q, ctl, f) ==
    \E n \in 0 .. Len(q) :
      LET skipped == {q[i] : i \in 1 .. n}
          c       == q[n + 1]
          o       == [op |-> controlID + 1, instance |-> instance, cmd |-> c,
                      next |-> IF Durable(c) THEN ctl ELSE ApplyControl(ctl, cmd[c]).next]
      IN  /\ \A i \in 1 .. n : DispatchVerdict(q[i], ctl) # "run"
          /\ Answer([x \in skipped \cup DOMAIN f |->
                       IF x \in DOMAIN f THEN f[x] ELSE DispatchVerdict(x, ctl)])
          /\ \/ /\ n = Len(q)
                /\ queue' = << >>
                /\ inFlight' = NoOp
                /\ UNCHANGED <<controlID, ops>>
             \/ /\ n < Len(q)
                /\ DispatchVerdict(c, ctl) = "run"
                /\ queue' = SubSeq(q, n + 2, Len(q))
                /\ inFlight' = o
                /\ controlID' = controlID + 1
                /\ ops' = ops \cup {o}

\* NextSessionID returns 0 once the identities are used up.
NeverExhausted == FALSE
Exhausted == instance = MaxSession

\* startSession on snapshot s: allocate the next identity and launch, or find
\* the identities exhausted.
StartSession(s) ==
    LET id    == instance + 1
        fresh == TimerOff(Cleared(s))
    IN  /\ stable' = 0
        /\ IF Exhausted
           THEN /\ snap' = [fresh EXCEPT !.state = "incompatible", !.error = "failed"]
                /\ UNCHANGED <<instance, sess, told, watching>>
                /\ session' = FALSE
           ELSE /\ snap' = [fresh EXCEPT !.state = "starting", !.session = id]
                /\ instance' = id
                /\ session' = TRUE
                /\ sess' = [sess EXCEPT ![id].phase = "launching"]
                /\ told' = [told EXCEPT ![id] = control]
                /\ watching' = watching \cup {id}

\* beginStop on snapshot s with the given intent.
BeginStop(s, why) ==
    /\ Answer([c \in Retired |-> "invalid_state"])
    /\ RetireControls
    /\ stable' = 0
    /\ intent' = why
    /\ snap' = [Cleared(s) EXCEPT !.state = "stopping"]
    /\ stopCalls' = stopCalls \cup {instance}
    /\ UNCHANGED <<ops, session, instance, sess, told, watching>>


-----------------------------------------------------------------------------
(* newPluginSupervisor and the prologue of run. *)

Init ==
    /\ \E on \in BOOLEAN, cfg \in Versioned :
         LET ctl == [active |-> FALSE, config |-> cfg, sub |-> Unset]
             go  == on /\ MaxSession > 0
         IN  /\ control = ctl
             /\ snap = [enabled |-> on, session |-> IF go THEN 1 ELSE 0, failures |-> 0,
                        state |-> IF go THEN "starting" ELSE IF on THEN "incompatible" ELSE "disabled",
                        error |-> IF on /\ ~go THEN "failed" ELSE "",
                        pid |-> 0, metric |-> 0, nextRestart |-> FALSE]
             /\ session = go
             /\ instance = IF go THEN 1 ELSE 0
             /\ watching = IF go THEN {1} ELSE {}
             /\ sess = [i \in Sessions |->
                          [phase |-> IF go /\ i = 1 THEN "launching" ELSE "none",
                           ran |-> FALSE, result |-> "ok", steady |-> FALSE]]
             /\ told = [i \in Sessions |-> ctl]
    /\ published = [snap |-> snap, control |-> control]
    /\ timer = FALSE /\ stable = 0 /\ intent = "none"
    /\ disableReply = NoCmd /\ restartReply = NoCmd /\ closeReply = NoCmd
    /\ closing = FALSE /\ done = FALSE
    /\ queue = << >> /\ controlID = 0 /\ inFlight = NoOp
    /\ commands = << >> /\ critical = << >> /\ telemetry = << >>
    /\ stopCalls = {} /\ ops = {} /\ ctlResults = {}
    /\ cmd = [c \in Cmd |-> NoCommand]
    /\ reply = [c \in Cmd |-> << >>]
    /\ cancelled = {}

-----------------------------------------------------------------------------
(* handleCommand. *)

sessionVars == <<session, instance, sess, told, watching>>
queueVars   == <<queue, controlID, inFlight, ops>>
envVars     == <<critical, telemetry, ctlResults, cmd, cancelled>>

Take(c) ==
    /\ ~done
    /\ commands # << >>
    /\ c = Head(commands)
    /\ commands' = Tail(commands)
    /\ UNCHANGED envVars

Admissible(c) ==
    /\ c \notin cancelled
    /\ ~closing
    /\ intent = "none" \/ cmd[c].kind = "close"

RejectCommand(c) ==
    /\ Take(c)
    /\ ~Admissible(c)
    /\ Answer(One(c, IF c \in cancelled THEN "canceled"
                     ELSE IF closing THEN "closed" ELSE "invalid_state"))
    /\ UNCHANGED <<loopVars, done, published, watching, stopCalls, ops, sess, told>>

EnableCommand(c) ==
    /\ Take(c) /\ Admissible(c) /\ cmd[c].kind = "enable"
    /\ UNCHANGED control
    /\ LET on == [snap EXCEPT !.enabled = TRUE, !.error = ""]
           starts == ~session /\ (~snap.enabled \/ snap.state = "stopped")
       IN  /\ IF starts
              THEN StartSession(IF snap.enabled THEN snap ELSE on)
              ELSE /\ snap' = IF snap.enabled THEN snap ELSE on
                   /\ UNCHANGED <<sessionVars, stable>>
           /\ timer' = (timer /\ ~(starts /\ ~snap.enabled))
    /\ Answer(One(c, "ok"))
    /\ Publish
    /\ UNCHANGED <<intent, disableReply, restartReply, closeReply,
                   closing, queueVars, done, stopCalls>>

DisableCommand(c) ==
    /\ Take(c) /\ Admissible(c) /\ cmd[c].kind = "disable"
    /\ UNCHANGED control
    /\ timer' = FALSE
    /\ LET off == TimerOff([snap EXCEPT !.enabled = FALSE])
       IN  IF session
           THEN /\ BeginStop(off, "disable")
                /\ disableReply' = c
           ELSE /\ snap' = [Cleared(off) EXCEPT !.state = "disabled"]
                /\ Answer(One(c, "ok"))
                /\ UNCHANGED <<sessionVars, queueVars, stable, intent, stopCalls, disableReply>>
    /\ Publish
    /\ UNCHANGED <<restartReply, closeReply, closing, done>>

RestartCommand(c) ==
    /\ Take(c) /\ Admissible(c) /\ cmd[c].kind = "restart"
    /\ UNCHANGED control
    /\ timer' = FALSE
    /\ LET s == TimerOff([snap EXCEPT !.failures = 0, !.error = ""])
       IN  \/ /\ ~snap.enabled
              /\ snap' = [Cleared(s) EXCEPT !.state = "disabled"]
              /\ Answer(One(c, "ok"))
              /\ UNCHANGED <<sessionVars, queueVars, stable, intent, stopCalls, restartReply>>
           \/ /\ snap.enabled /\ ~session
              /\ StartSession(s)
              /\ Answer(One(c, "ok"))
              /\ UNCHANGED <<queueVars, intent, stopCalls, restartReply>>
           \/ /\ snap.enabled /\ session
              /\ BeginStop(s, "restart")
              /\ restartReply' = c
    /\ Publish
    /\ UNCHANGED <<disableReply, closeReply, closing, done>>

\* A Close that finds a Stop in progress takes it over; it does not publish.
CloseCommand(c) ==
    /\ Take(c) /\ Admissible(c) /\ cmd[c].kind = "close"
    /\ UNCHANGED control
    /\ closing' = TRUE
    /\ timer' = FALSE
    /\ LET off == TimerOff([snap EXCEPT !.enabled = FALSE])
       IN  \/ /\ intent # "none"
              /\ intent' = "close"
              /\ closeReply' = c
              /\ restartReply' = NoCmd
              /\ Answer([x \in Retired \cup ({restartReply} \ {NoCmd}) |-> "invalid_state"])
              /\ RetireControls
              /\ snap' = off
              /\ UNCHANGED <<sessionVars, ops, stable, stopCalls, done, published>>
           \/ /\ intent = "none" /\ ~session
              /\ Answer([x \in Retired \cup {c} |-> IF x = c THEN "ok" ELSE "invalid_state"])
              /\ RetireControls
              /\ snap' = [Cleared(off) EXCEPT !.state = "disabled"]
              /\ done' = TRUE
              /\ Publish
              /\ UNCHANGED <<sessionVars, ops, stable, intent, stopCalls, restartReply, closeReply>>
           \/ /\ intent = "none" /\ session
              /\ BeginStop(off, "close")
              /\ closeReply' = c
              /\ Publish
              /\ UNCHANGED <<done, restartReply>>
    /\ UNCHANGED <<disableReply>>

\* handleControlCommand for a Config: the durable intent is owned at once,
\* whatever happens to its delivery.
ConfigCommand(c) ==
    /\ Take(c) /\ Admissible(c) /\ cmd[c].kind = "config"
    /\ UNCHANGED snap
    /\ LET a == ApplyControl(control, cmd[c])
       IN  \/ /\ a.verdict # "changed"
              /\ Answer(One(c, IF a.verdict = "same" THEN "ok" ELSE "rejected"))
              /\ UNCHANGED <<control, queueVars, published>>
           \/ /\ a.verdict = "changed"
              /\ control' = a.next
              /\ IF ~session \/ Len(queue) >= Capacity
                 THEN /\ Answer(One(c, IF session THEN "backpressure" ELSE "ok"))
                      /\ UNCHANGED queueVars
                 ELSE IF inFlight.op # 0
                 THEN /\ queue' = Append(queue, c)
                      /\ UNCHANGED <<controlID, inFlight, ops, reply>>
                 ELSE Dispatch(Append(queue, c), control', << >>)
              /\ Publish
    /\ UNCHANGED <<sessionVars, timer, stable, intent, disableReply,
                   restartReply, closeReply, closing, done, stopCalls>>

\* handleControlCommand for a subscription or active control: committed at
\* once without a session, otherwise queued and committed when it succeeds.
ControlCommand(c) ==
    /\ Take(c) /\ Admissible(c) /\ cmd[c].kind \in {"active", "subscription"}
    /\ UNCHANGED snap
    /\ LET a == ApplyControl(control, cmd[c])
       IN  \/ /\ ~session
              /\ control' = IF a.verdict = "changed" THEN a.next ELSE control
              /\ Answer(One(c, IF a.verdict = "rejected" THEN "rejected" ELSE "ok"))
              /\ Publish
              /\ UNCHANGED queueVars
           \/ /\ session /\ Len(queue) >= Capacity
              /\ Answer(One(c, "backpressure"))
              /\ UNCHANGED <<control, queueVars, published>>
           \/ /\ session /\ Len(queue) < Capacity
              /\ IF inFlight.op # 0
                 THEN /\ queue' = Append(queue, c)
                      /\ UNCHANGED <<controlID, inFlight, ops, reply>>
                 ELSE Dispatch(Append(queue, c), control, << >>)
              /\ UNCHANGED <<control, published>>
    /\ UNCHANGED <<sessionVars, timer, stable, intent, disableReply,
                   restartReply, closeReply, closing, done, stopCalls>>

-----------------------------------------------------------------------------
(* Results of the goroutines, callbacks and timers. *)

\* commitControl of a successful control.  A Config accepted while it was in
\* flight is kept: the control's older aggregate state never rolls it back.
CommittedAggregate(r) ==
    IF r.ok /\ ~Durable(inFlight.cmd) THEN inFlight.next ELSE control

CommittedAnyway(r) ==
    IF ~Durable(inFlight.cmd) THEN [inFlight.next EXCEPT !.config = control.config] ELSE control

Committed(r) ==
    IF r.ok /\ ~Durable(inFlight.cmd)
    THEN [inFlight.next EXCEPT !.config = control.config]
    ELSE control

HandleControlResult(r) ==
    /\ ~done
    /\ r \in ctlResults
    /\ ctlResults' = ctlResults \ {r}
    /\ IF inFlight.op = 0 \/ r.op # inFlight.op \/ r.instance # inFlight.instance
       THEN UNCHANGED <<snap, control, published, queueVars, reply>>
       ELSE /\ snap' = IF Durable(inFlight.cmd)
                       THEN [snap EXCEPT !.error = IF r.ok THEN "" ELSE "failed"]
                       ELSE snap
            /\ control' = Committed(r)
            /\ Publish
            /\ Dispatch(queue, control', One(inFlight.cmd, IF r.ok THEN "ok" ELSE "failed"))
    /\ UNCHANGED <<sessionVars, timer, stable, intent, disableReply, restartReply,
                   closeReply, closing, commands, critical, telemetry, done,
                   stopCalls, cmd, cancelled>>

Outcome(id) == IF sess[id].result = "ok" THEN "ok" ELSE "failed"

\* session.Stop returns when the session has ended.
StopReturned(id) == id \in stopCalls /\ sess[id].phase = "ended"

\* The callers whose lifecycle command the end of the stop completes.
StopRepliesButRestart == {disableReply, closeReply} \ {NoCmd}
StopReplies == {disableReply, restartReply, closeReply} \ {NoCmd}

HandleStopResult(id) ==
    /\ ~done
    /\ UNCHANGED control
    /\ StopReturned(id)
    /\ stopCalls' = stopCalls \ {id}
    /\ IF id # instance \/ intent = "none"
       THEN UNCHANGED <<snap, published, sessionVars, stable, intent, disableReply,
                        restartReply, closeReply, done, reply>>
       ELSE /\ intent' = "none"
            /\ IF intent = "restart" /\ snap.enabled
               THEN StartSession([snap EXCEPT !.state = "stopped"])
               ELSE /\ snap' = [Cleared(snap) EXCEPT !.state = "disabled"]
                    /\ session' = FALSE
                    /\ UNCHANGED <<instance, sess, told, watching, stable>>
            /\ Answer([c \in StopReplies |-> Outcome(id)])
            /\ disableReply' = NoCmd /\ restartReply' = NoCmd /\ closeReply' = NoCmd
            /\ done' = (intent = "close")
            /\ Publish
    /\ UNCHANGED <<timer, closing, queueVars, commands, critical,
                   telemetry, ctlResults, cmd, cancelled>>

\* The failure that spends the budget also ends the automatic restarts.
LimitExceeded(n) == n > MaxFailures
LimitReached(n) == n >= MaxFailures

\* handleSessionResult, its verdict on the snapshot: stopped, incompatible,
\* crashed or backing off.
AfterFailure(s, id) ==
    LET n == (IF sess[id].steady THEN 0 ELSE s.failures) + 1
        c == Cleared(s)
        retryable == sess[id].result \notin {"ok", "fatal"}
    IN  CASE sess[id].result = "ok" ->
                [c EXCEPT !.state = "stopped", !.error = ""]
          [] sess[id].result = "fatal" ->
                [c EXCEPT !.state = "incompatible", !.error = "failed", !.nextRestart = FALSE]
          [] retryable /\ LimitReached(n) ->
                [c EXCEPT !.state = "crashed", !.error = "limit", !.failures = n]
          [] retryable /\ ~LimitReached(n) /\ ~s.enabled ->
                [c EXCEPT !.state = "crashed", !.error = "failed", !.failures = n]
          [] retryable /\ ~LimitReached(n) /\ s.enabled ->
                [c EXCEPT !.state = "backoff", !.error = "failed", !.failures = n,
                          !.nextRestart = TRUE]

HandleSessionResult(id) ==
    /\ ~done
    /\ UNCHANGED control
    /\ id \in watching /\ sess[id].phase = "ended"
    /\ watching' = watching \ {id}
    /\ IF id # instance \/ ~session \/ intent # "none"
       THEN UNCHANGED <<snap, published, session, timer, stable, queue, controlID, inFlight, reply>>
       ELSE /\ stable' = 0
            /\ Answer([c \in Retired |-> "invalid_state"])
            /\ RetireControls
            /\ session' = FALSE
            /\ snap' = AfterFailure(snap, id)
            /\ timer' = (timer \/ snap'.state = "backoff")
            /\ Publish
    /\ UNCHANGED <<instance, intent, disableReply, restartReply, closeReply,
                   closing, commands, critical, telemetry, done, stopCalls, ops,
                   ctlResults, cmd, cancelled, sess, told>>

\* handleCallback drops what a replaced, ended or stopping session reported.
CurrentUnfenced(id) == session /\ intent = "none"
Current(id) == id = instance /\ session /\ intent = "none"

HandleCritical ==
    /\ ~done
    /\ UNCHANGED control
    /\ critical # << >>
    /\ critical' = Tail(critical)
    /\ LET m == Head(critical)
       IN  \/ /\ m.kind = "started" /\ Current(m.id) /\ snap.state = "starting"
              /\ snap' = [snap EXCEPT !.pid = m.id, !.state = "handshaking"]
              /\ UNCHANGED stable
              /\ Publish
           \/ /\ m.kind = "ready" /\ Current(m.id) /\ snap.state = "handshaking"
              /\ snap' = [snap EXCEPT !.state = "running"]
              /\ stable' = IF snap.failures = 0 THEN 0 ELSE instance
              /\ Publish
           \/ /\ m.kind = "unresponsive" /\ Current(m.id) /\ snap.state = "running"
              /\ snap' = [snap EXCEPT !.state = "unresponsive"]
              /\ stable' = 0
              /\ Publish
           \/ /\ \/ ~Current(m.id)
                 \/ snap.state # CASE m.kind = "started" -> "starting"
                                   [] m.kind = "ready" -> "handshaking"
                                   [] OTHER -> "running"
              /\ UNCHANGED <<snap, stable, published>>
    /\ UNCHANGED <<session, instance, timer, intent, disableReply,
                   restartReply, closeReply, closing, queue, controlID, inFlight,
                   commands, telemetry, done, watching, stopCalls, ops, ctlResults,
                   cmd, reply, cancelled, sess, told>>

\* supervisorHeartbeat and supervisorFrame
HandleTelemetry ==
    /\ ~done
    /\ UNCHANGED control
    /\ telemetry # << >>
    /\ telemetry' = Tail(telemetry)
    /\ IF Current(Head(telemetry)) /\ snap.state = "running"
       THEN snap' = [snap EXCEPT !.metric = Head(telemetry)] /\ Publish
       ELSE UNCHANGED <<snap, published>>
    /\ UNCHANGED <<session, instance, timer, stable, intent, disableReply,
                   restartReply, closeReply, closing, queue, controlID, inFlight,
                   commands, critical, done, watching, stopCalls, ops, ctlResults,
                   cmd, reply, cancelled, sess, told>>

RestartTimerFires ==
    /\ ~done
    /\ UNCHANGED control
    /\ timer
    /\ timer' = FALSE
    /\ IF snap.enabled /\ ~closing /\ ~session
       THEN StartSession(snap) /\ Publish
       ELSE UNCHANGED <<snap, published, sessionVars, stable>>
    /\ UNCHANGED <<intent, disableReply, restartReply, closeReply, closing,
                   queueVars, commands, envVars, done, stopCalls, reply>>

StableTimerUnpublished ==
    /\ ~done /\ stable # 0 /\ stable' = 0
    /\ snap' = [snap EXCEPT !.failures = 0]
    /\ UNCHANGED <<control, published, sessionVars, timer, intent, disableReply, restartReply,
                   closeReply, closing, queueVars, commands, envVars, done, stopCalls, reply>>

StableTimerFires ==
    /\ ~done
    /\ UNCHANGED control
    /\ stable # 0
    /\ stable' = 0
    /\ IF session /\ instance = stable /\ snap.state = "running" /\ snap.failures # 0
       THEN snap' = [snap EXCEPT !.failures = 0] /\ Publish
       ELSE UNCHANGED <<snap, published>>
    /\ UNCHANGED <<sessionVars, timer, intent, disableReply, restartReply,
                   closeReply, closing, queueVars, commands, envVars, done, stopCalls, reply>>

-----------------------------------------------------------------------------
(* Callers of Command, and the sessions. *)

restOfLoop == <<loopVars, done, published>>

\* Command: the envelope enters the bounded command channel.
SendCommand(c, k) ==
    /\ ~done
    /\ cmd[c].kind = "none" /\ k.kind \in Kinds
    /\ Len(commands) < Capacity
    /\ cmd' = [cmd EXCEPT ![c] = k]
    /\ commands' = Append(commands, c)
    /\ UNCHANGED <<restOfLoop, critical, telemetry, watching, stopCalls, ops,
                   ctlResults, reply, cancelled, sess, told>>

\* The caller's context ends while the command is unanswered.
CancelCommand(c) ==
    /\ cmd[c].kind # "none" /\ reply[c] = << >> /\ c \notin cancelled
    /\ cancelled' = cancelled \cup {c}
    /\ UNCHANGED <<restOfLoop, commands, critical, telemetry, watching, stopCalls,
                   ops, ctlResults, cmd, reply, sess, told>>

sessionOnly == <<restOfLoop, commands, watching, stopCalls, cmd, reply, cancelled>>

\* sendCritical blocks until the loop has room or is done.
SendCritical(kind, id) ==
    \/ /\ ~done /\ Len(critical) < CriticalCapacity
       /\ critical' = Append(critical, [kind |-> kind, id |-> id])
    \/ done /\ UNCHANGED critical

ProcessStarted(id) ==
    /\ sess[id].phase = "launching"
    /\ sess' = [sess EXCEPT ![id].phase = "handshaking"]
    /\ SendCritical("started", id)
    /\ UNCHANGED <<sessionOnly, telemetry, ops, ctlResults, told>>

Ready(id) ==
    /\ sess[id].phase = "handshaking"
    /\ sess' = [sess EXCEPT ![id].phase = "running", ![id].ran = TRUE]
    /\ SendCritical("ready", id)
    /\ UNCHANGED <<sessionOnly, telemetry, ops, ctlResults, told>>

Unresponsive(id) ==
    /\ sess[id].phase = "running"
    /\ sess' = [sess EXCEPT ![id].phase = "dying"]
    /\ SendCritical("unresponsive", id)
    /\ UNCHANGED <<sessionOnly, telemetry, ops, ctlResults, told>>

\* The transport or the process fails: the session starts to wind down.
SessionFails(id) ==
    /\ sess[id].phase \in {"handshaking", "running"}
    /\ sess' = [sess EXCEPT ![id].phase = "dying"]
    /\ UNCHANGED <<sessionOnly, critical, telemetry, ops, ctlResults, told>>

\* run delivers its result: nil only after Stop; steady, the StableFor that is
\* read for a retryable result only, needs a session that was ready.
SessionEnds(id, result, steady) ==
    /\ \/ sess[id].phase \in {"launching", "dying"}
       \/ id \in stopCalls /\ sess[id].phase \in {"handshaking", "running"}
    /\ result = "ok" => id \in stopCalls
    /\ steady => sess[id].ran /\ result = "retryable"
    /\ sess' = [sess EXCEPT ![id] = [phase |-> "ended", ran |-> @.ran,
                                     result |-> result, steady |-> steady]]
    /\ UNCHANGED <<sessionOnly, critical, telemetry, ops, ctlResults, told>>

\* The reader goroutine reports a heartbeat or a frame, possibly after the
\* session has ended; sendTelemetry drops it when the channel is full.
Telemetry(id) ==
    /\ ~done
    /\ sess[id].ran
    /\ Len(telemetry) < TelemetryBound
    /\ telemetry' = Append(telemetry, id)
    /\ UNCHANGED <<sessionOnly, critical, ops, ctlResults, sess, told>>

ControlReturns(o, ok) ==
    /\ o \in ops
    /\ ops' = ops \ {o}
    /\ ctlResults' = ctlResults \cup {[op |-> o.op, instance |-> o.instance, ok |-> ok]}
    /\ UNCHANGED <<sessionOnly, critical, telemetry, sess>>

\* session.Control returned nil: the writer applied the request and sent it.
ControlSucceeds(o) ==
    LET a == ApplyControl(told[o.instance], cmd[o.cmd])
    IN  /\ ControlReturns(o, TRUE)
        /\ sess[o.instance].phase \in {"running", "dying"}
        /\ a.verdict # "rejected"
        /\ told' = [told EXCEPT ![o.instance] = a.next]

\* session.Control returned an error: its context ended, the session is
\* stopping, failing or over, or the writer rejected the request.
ControlFails(o) ==
    /\ ControlReturns(o, FALSE)
    /\ \/ o.cmd \in cancelled
       \/ o.op # inFlight.op
       \/ o.instance \in stopCalls
       \/ sess[o.instance].phase \in {"dying", "ended"}
       \/ ApplyControl(told[o.instance], cmd[o.cmd]).verdict = "rejected"
    /\ UNCHANGED told

-----------------------------------------------------------------------------
HandleCommand(c) ==
    \/ RejectCommand(c) \/ EnableCommand(c) \/ DisableCommand(c)
    \/ RestartCommand(c) \/ CloseCommand(c) \/ ConfigCommand(c) \/ ControlCommand(c)

LoopStep ==
    \/ \E c \in Cmd : HandleCommand(c)
    \/ \E r \in ctlResults : HandleControlResult(r)
    \/ \E id \in stopCalls : HandleStopResult(id)
    \/ \E id \in watching : HandleSessionResult(id)
    \/ HandleCritical
    \/ HandleTelemetry
    \/ RestartTimerFires
    \/ StableTimerFires

SessionStep(id) ==
    \/ ProcessStarted(id) \/ Ready(id) \/ Unresponsive(id) \/ SessionFails(id)
    \/ \E result \in {"ok", "retryable", "fatal"}, steady \in BOOLEAN :
         SessionEnds(id, result, steady)
    \/ Telemetry(id)

Next ==
    \/ LoopStep
    \/ \E id \in Sessions : SessionStep(id)
    \/ \E o \in ops : ControlSucceeds(o) \/ ControlFails(o)
    \/ \E c \in Cmd, k \in Command : SendCommand(c, k)
    \/ \E c \in Cmd : CancelCommand(c)

Spec == Init /\ [][Next]_vars

\* The loop serves every ready case of its select, and a session that was told
\* to stop ends: its graceful and kill waits are bounded.  No fairness for
\* Control calls (a write to a plugin that does not read may block), for the
\* plugin's progress, or for the callers.
Fairness ==
    /\ WF_vars(\E c \in Cmd : HandleCommand(c))
    /\ WF_vars(HandleCritical)
    /\ \A id \in Sessions :
         /\ WF_vars(HandleStopResult(id))
         /\ WF_vars(id \in stopCalls /\ \E result \in {"ok", "retryable", "fatal"}, steady \in BOOLEAN :
                        SessionEnds(id, result, steady))

FairSpec == Spec /\ Fairness

-----------------------------------------------------------------------------
(* Properties. *)

Ops == [op : Nat, instance : 0 .. MaxSession, cmd : Cmd \cup {NoCmd}, next : Control]

SessionRecords == [phase : {"none", "launching", "handshaking", "running", "dying", "ended"},
                   ran : BOOLEAN, result : {"ok", "retryable", "fatal"}, steady : BOOLEAN]

TypeLoop ==
    /\ snap \in Snapshot
    /\ session \in BOOLEAN
    /\ instance \in 0 .. MaxSession
    /\ session \/ inFlight.op # 0 => instance \in Sessions
    /\ timer \in BOOLEAN
    /\ stable \in 0 .. MaxSession
    /\ intent \in {"none", "disable", "restart", "close"}
    /\ disableReply \in Cmd \cup {NoCmd}
    /\ restartReply \in Cmd \cup {NoCmd}
    /\ closeReply \in Cmd \cup {NoCmd}
    /\ closing \in BOOLEAN
    /\ done \in BOOLEAN
    /\ published \in [snap : Snapshot, control : Control]

TypeControls ==
    /\ control \in Control
    /\ queue \in Seq(Cmd)
    /\ controlID \in Nat
    /\ inFlight \in Ops
    /\ inFlight.op # 0 => inFlight.cmd \in Cmd
    /\ ops \in SUBSET Ops
    /\ \A o \in ops : o.cmd \in Cmd /\ o.instance \in Sessions
    /\ ctlResults \in SUBSET [op : Nat, instance : 0 .. MaxSession, ok : BOOLEAN]

TypeCallers ==
    /\ commands \in Seq(Cmd)
    /\ cmd \in [Cmd -> Command \cup {NoCommand}]
    /\ reply \in [Cmd -> Seq(Replies)]
    /\ cancelled \in SUBSET Cmd

TypeSessions ==
    /\ sess \in [Sessions -> SessionRecords]
    /\ told \in [Sessions -> Control]
    /\ watching \in SUBSET Sessions
    /\ stopCalls \in SUBSET Sessions
    /\ critical \in Seq([kind : {"started", "ready", "unresponsive"}, id : Sessions])
    /\ telemetry \in Seq(Sessions)

\* The types of all variables of the supervisor, its channels and its sessions.
TypeOK == TypeLoop /\ TypeControls /\ TypeCallers /\ TypeSessions

Live(id) == sess[id].phase \notin {"none", "ended"}

\* At most one session of the plugin is alive, and it is the one the loop
\* owns: a crash, a timer, a Stop and a manual restart in any order never leave
\* an orphan behind or launch a second process beside the first.
SingleLiveSession == \A id \in Sessions : Live(id) => session /\ id = instance

\* A reply channel holds one value: a command answered twice would block the
\* loop, and with it the plugin, forever.
AtMostOneReply == \A c \in Cmd : Len(reply[c]) <= 1

\* No command is lost: an unanswered one is waiting in the command channel or
\* the control queue, is in flight, or owns the stop in progress.
NoLostReply ==
    \A c \in Cmd : cmd[c].kind # "none" /\ reply[c] = << >> /\ ~done =>
        \/ c \in {commands[i] : i \in 1 .. Len(commands)} \cup Retired
        \/ c \in StopReplies

\* Every command has exactly one reply coming or delivered.
ExactlyOneReply == AtMostOneReply /\ NoLostReply

\* Readers of Snapshot and subscribers of the Publish callback see the loop's
\* current state, but for a Close that takes over a stop in progress.
PublishedIsCurrent ==
    published # [snap |-> snap, control |-> control] => closing /\ intent = "close"

\* The published state tells the truth about the session: the states that
\* announce a session have one, a pending restart has a timer and is within
\* the failure budget, and stopping means a Stop is under way.
StateMatchesSession ==
    /\ session <=> snap.state \in {"starting", "handshaking", "running", "unresponsive", "stopping"}
    /\ timer <=> snap.state = "backoff"
    /\ intent # "none" <=> snap.state = "stopping"
    /\ snap.state = "backoff" => snap.enabled /\ snap.failures \in 1 .. MaxFailures - 1
    /\ session /\ intent = "none" => snap.enabled /\ ~closing

\* PID, heartbeat and frame metrics come from the current session only, and are
\* gone while there is none or it is stopping, although callbacks are delivered
\* asynchronously and may be handled after their session was replaced.
MetricsOfCurrentSession ==
    /\ snap.pid # 0 => snap.pid = instance /\ snap.state \in {"handshaking", "running", "unresponsive"}
    /\ snap.metric # 0 => snap.metric = instance /\ snap.state \in {"running", "unresponsive"}

\* What a supervisor says of its plugin is true: one session at most, the state
\* that belongs to it, and its own metrics.
SupervisorIsTruthful == TypeOK /\ SingleLiveSession /\ StateMatchesSession /\ MetricsOfCurrentSession

\* A settled live session has been told exactly the active flag and the
\* subscription the supervisor would start a replacement with.
SessionToldControl ==
    session /\ intent = "none" /\ inFlight.op = 0 /\ sess[instance].phase \notin {"dying", "ended"}
        => /\ told[instance].active = control.active
           /\ told[instance].sub = control.sub

\* The desired Config, once owned, is never rolled back, in particular not by
\* the result of an older control that was in flight when it arrived; and the
\* subscription generation never regresses.
ControlNeverRegresses ==
    [][/\ control'.config.ver >= control.config.ver
       /\ control'.config.ver = control.config.ver => control'.config = control.config
       /\ control'.sub.ver >= control.sub.ver]_control

\* A session is launched only for an enabled plugin of an open supervisor, and
\* never while the failure budget is spent unless a command asks for it.
LaunchOnlyWhenWanted ==
    [][instance' # instance =>
         /\ snap'.enabled /\ ~closing'
         /\ timer => snap.failures < MaxFailures]_vars

\* Every enable, disable, restart and close is answered, even when a Control
\* call to the plugin never returns.
LifecycleAnswered ==
    \A c \in Cmd : cmd[c].kind \in LifecycleKinds ~> (reply[c] # << >> \/ done)

=============================================================================
