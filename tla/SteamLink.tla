------------------------------- MODULE SteamLink -------------------------------
(***************************************************************************)
(* The driver of the Steam Link plugin (internal/steamlink): a loop that   *)
(* takes control events of the runtime, datagrams of a receiver goroutine  *)
(* and ticks, and publishes frames to the runtime.                         *)
(*                                                                         *)
(* All tracked fields are one sample.  A datagram is the time and the      *)
(* epoch it was tagged with, and the epoch in which it really arrived.     *)
(* Whether a sample has expired is chosen by the tick that looks at it.    *)
(***************************************************************************)
EXTENDS Integers, Sequences

CONSTANTS
    Port,            \* UDP ports, positive integers
    QueueCapacity,   \* datagrams between receiver and driver (64 in the code)
    InboxCapacity,   \* control events between runtime and driver
    MaxControls,     \* bound: control events of a run
    MaxTime,         \* bound: clock readings
    MaxFrames        \* bound: frames of a run

ASSUME SteamLinkAssumption ==
    /\ Port \subseteq Nat \ {0}
    /\ {QueueCapacity, InboxCapacity} \subseteq Nat \ {0}
    /\ {MaxControls, MaxTime, MaxFrames} \subseteq Nat

NoPort == 0        \* no port: an invalid configuration, no receiver, no retry

VARIABLES
    drv,     \* the loop: where it is, its configuration, and streamState
    sample,  \* rawSnapshot
    gate,    \* the atomic epoch and the fence
    recv,    \* the receiver goroutine
    queue,   \* packets
    time,    \* d.clock
    host,    \* the runtime: what it has applied, its event channel, its frame slot
    busy     \* ports that other programs hold

driverVars == <<drv, sample, gate, recv, queue, time, host, busy>>

NoSample   == [seen |-> FALSE, at |-> 0, era |-> 0, old |-> FALSE]
NoReceiver == [at |-> "none", stamp |-> 0, era |-> 0, failed |-> FALSE]
NoRetry    == [port |-> NoPort, clears |-> FALSE]
Nothing    == [gen |-> 0, seq |-> 0, ts |-> 0, bare |-> FALSE]

\* wanted is the configuration that the driver was given last.
DriverInit(at) ==
    /\ drv = [at |-> at, active |-> FALSE, gen |-> 0, port |-> NoPort, cand |-> NoPort, keep |-> FALSE,
              retry |-> NoRetry, error |-> FALSE, wanted |-> NoPort,
              dirty |-> FALSE, prev |-> "none", seq |-> 0, ts |-> 0]
    /\ sample = NoSample
    /\ gate = [epoch |-> 0, fence |-> 0]
    /\ recv = NoReceiver /\ queue = <<>>
    /\ time = 0
    /\ host = [active |-> FALSE, gen |-> 0, inbox |-> <<>>, slot |-> Nothing, controls |-> 0]
    /\ busy = {}

-----------------------------------------------------------------------------
(* Binding and transitions. *)

\* bind has a socket for port p; what follows waits for the old receiver.
\* keep: a later revision was refused and owns the error.
Bind(d, p, keep) == [d EXCEPT !.at = "join", !.cand = p, !.keep = keep]

\* The outcome of a configuration with port p that is not the current one.
Configure(d, p) ==
    IF p \in busy
    THEN [d EXCEPT !.at = "select", !.error = TRUE,
                   !.retry = IF d.port = NoPort THEN [port |-> p, clears |-> TRUE] ELSE @]
    ELSE Bind(d, p, FALSE)

\* The startup is the control of the supervisor at the launch.
DriverStart(active, gen, config) ==
    /\ drv.at = "start"
    /\ LET d == [drv EXCEPT !.active = active, !.gen = gen, !.wanted = config]
       IN  drv' = IF config = NoPort THEN [d EXCEPT !.at = "select", !.error = TRUE] ELSE Configure(d, config)
    /\ host' = [host EXCEPT !.active = active, !.gen = gen]
    /\ UNCHANGED <<sample, gate, recv, queue, time, busy>>

\* stopWorker: the old receiver has ended, with an error that ends the driver or
\* because its socket was closed.  Then the epoch changes.
Join ==
    /\ drv.at = "join" /\ recv.at \in {"none", "ended"}
    /\ IF recv.failed
       THEN drv' = [drv EXCEPT !.at = "returned"] /\ UNCHANGED gate
       ELSE /\ drv' = [drv EXCEPT !.at = "fence", !.port = drv.cand, !.retry = NoRetry,
                                  !.error = drv.keep]
            /\ gate' = [gate EXCEPT !.epoch = @ + 1]
    /\ recv' = NoReceiver
    /\ UNCHANGED <<sample, queue, time, host, busy>>

\* streamState.reset: sequence and time go on.
ResetStream(d) == [d EXCEPT !.at = "select", !.cand = NoPort, !.dirty = FALSE, !.prev = "none"]

\* transition, after the epoch: the fence is the current time.  A new receiver
\* starts when the port was changed.
Fence ==
    /\ drv.at = "fence"
    /\ gate' = [gate EXCEPT !.fence = time]
    /\ drv' = ResetStream(drv) /\ sample' = NoSample
    /\ recv' = IF drv.cand = NoPort THEN recv ELSE [NoReceiver EXCEPT !.at = "reading"]
    /\ UNCHANGED <<queue, time, host, busy>>

-----------------------------------------------------------------------------
(* The receiver. *)

\* A datagram arrives and gets its time; its epoch is read afterwards, and it is
\* dropped when the queue is full.
Receive ==
    /\ recv.at = "reading" /\ drv.at \notin {"join", "returned"}
    /\ recv' = [recv EXCEPT !.at = "stamped", !.stamp = time, !.era = gate.epoch]
    /\ UNCHANGED <<drv, sample, gate, queue, time, host, busy>>

Enqueue ==
    /\ recv.at = "stamped"
    /\ recv' = [NoReceiver EXCEPT !.at = "reading"]
    /\ queue' = IF Len(queue) = QueueCapacity THEN queue
                ELSE Append(queue, [at |-> recv.stamp, epoch |-> gate.epoch, era |-> recv.era])
    /\ UNCHANGED <<drv, sample, gate, time, host, busy>>

\* ReadFrom fails, or its socket was closed by the driver.
ReceiverEnds ==
    /\ recv.at = "reading" /\ drv.at # "returned"
    /\ \E failed \in {drv.at # "join", TRUE} : recv' = [NoReceiver EXCEPT !.at = "ended", !.failed = failed]
    /\ UNCHANGED <<drv, sample, gate, queue, time, host, busy>>

-----------------------------------------------------------------------------
(* The loop. *)

\* A change of activity or subscription is a transition.
Changes(d) ==
    IF d = drv THEN UNCHANGED <<drv, gate>>
    ELSE drv' = [d EXCEPT !.at = "fence"] /\ gate' = [gate EXCEPT !.epoch = @ + 1]

ConfigChanged(p) ==
    LET d == [drv EXCEPT !.wanted = p]
    IN  /\ drv' = IF p = NoPort THEN [d EXCEPT !.error = TRUE, !.retry.clears = FALSE]
                  ELSE IF p = drv.port THEN [d EXCEPT !.error = FALSE, !.retry = NoRetry]
                  ELSE Configure(d, p)
        /\ UNCHANGED gate

\* handleEvent; a transition of the driver shows at the fence.
HandleEvent ==
    /\ drv.at = "select" /\ host.inbox # <<>>
    /\ LET e == Head(host.inbox)
       IN  \/ e.kind = "active" /\ Changes([drv EXCEPT !.active = (e.value = 1)])
           \/ e.kind = "subscription" /\ Changes([drv EXCEPT !.gen = e.value])
           \/ e.kind = "config" /\ ConfigChanged(e.value)
           \/ e.kind = "shutdown" /\ drv' = [drv EXCEPT !.at = "returned"] /\ UNCHANGED gate
    /\ recv' = IF drv'.at = "returned" THEN NoReceiver ELSE recv
    /\ host' = [host EXCEPT !.inbox = Tail(@)]
    /\ UNCHANGED <<sample, queue, time, busy>>

\* Faulty variant: only the epoch is looked at.
CurrentEpoch(d) == d.epoch = gate.epoch

CurrentPacket(d) == d.epoch = gate.epoch /\ d.at >= gate.fence

\* A packet is decoded and observed; it may hold nothing that is subscribed.
TakePacket(useful) ==
    /\ drv.at = "select" /\ queue # <<>>
    /\ LET d == Head(queue)
       IN  IF CurrentPacket(d) /\ useful /\ drv.active /\ drv.gen > 0
           THEN /\ sample' = [seen |-> TRUE, at |-> d.at, era |-> d.era, old |-> FALSE]
                /\ drv' = [drv EXCEPT !.dirty = TRUE]
           ELSE UNCHANGED <<sample, drv>>
    /\ queue' = Tail(queue)
    /\ UNCHANGED <<gate, recv, time, host, busy>>

\* PublishFrame of the runtime, which knows the subscription before the driver.
PublishFrame(frame) ==
    host' = IF host.active /\ host.gen > 0 THEN [host EXCEPT !.slot = [frame EXCEPT !.gen = host.gen]]
            ELSE host

\* next: a frame when something was observed or has changed, but not an empty
\* one at first; its time is later than that of the frame before.
DriverTick(expired) ==
    LET old     == sample.old \/ expired
        payload == IF sample.seen /\ ~old THEN "valid" ELSE "empty"
        ts      == IF drv.ts < time THEN time ELSE drv.ts + 1
    IN  /\ drv.at = "select" /\ drv.retry = NoRetry
        /\ drv.active /\ drv.gen > 0 /\ drv.seq < MaxFrames
        /\ sample' = [sample EXCEPT !.old = old /\ sample.seen]
        /\ IF (drv.dirty \/ (drv.prev # "none" /\ drv.prev # payload)) /\ ~(drv.prev = "none" /\ payload = "empty")
           THEN /\ drv' = [drv EXCEPT !.dirty = FALSE, !.prev = payload, !.seq = @ + 1, !.ts = ts]
                /\ PublishFrame([gen |-> 0, seq |-> drv.seq + 1, ts |-> ts, bare |-> payload = "empty"])
           ELSE drv' = [drv EXCEPT !.dirty = FALSE] /\ UNCHANGED host
        /\ UNCHANGED <<gate, recv, queue, time, busy>>

\* A tick after retryAt finds the port free.  As long as it does not, there is
\* nothing to publish.
Retry ==
    /\ drv.at = "select" /\ drv.retry # NoRetry /\ drv.retry.port \notin busy
    /\ drv' = Bind(drv, drv.retry.port, ~drv.retry.clears)
    /\ UNCHANGED <<sample, gate, recv, queue, time, host, busy>>

WorkerDone ==
    /\ drv.at = "select" /\ recv.at = "ended"
    /\ drv' = [drv EXCEPT !.at = "returned"]
    /\ recv' = NoReceiver
    /\ UNCHANGED <<sample, gate, queue, time, host, busy>>

-----------------------------------------------------------------------------
(* The runtime and the world. *)

\* The runtime applies a control and passes it on; a new subscription, and the
\* end of activity, clear the slot.
HostControl(kind, value) ==
    /\ Len(host.inbox) < InboxCapacity /\ host.controls < MaxControls /\ drv.at \notin {"start", "returned"}
    /\ kind = "active" => (value = 1) # host.active
    /\ kind = "subscription" => value > host.gen
    /\ host' = [host EXCEPT !.inbox = Append(@, [kind |-> kind, value |-> value]), !.controls = @ + 1,
                  !.active = IF kind = "active" THEN value = 1 ELSE @,
                  !.gen = IF kind = "subscription" THEN value ELSE @,
                  !.slot = IF kind = "subscription" \/ (kind = "active" /\ value = 0) THEN Nothing ELSE @]
    /\ UNCHANGED <<drv, sample, gate, recv, queue, time, busy>>

Advance ==
    /\ time < MaxTime /\ drv.at # "returned" /\ time' = time + 1
    /\ UNCHANGED <<drv, sample, gate, recv, queue, host, busy>>

\* Other programs take and release ports; the driver holds the one it listens
\* to, and the one it is changing to.
Others(taken) ==
    /\ taken # busy /\ drv.at # "returned" /\ taken \cap {drv.port, drv.cand} = {}
    /\ busy' = taken
    /\ UNCHANGED <<drv, sample, gate, recv, queue, time, host>>

DriverLoop ==
    \/ Join \/ Fence \/ Retry \/ WorkerDone \/ HandleEvent
    \/ \E b \in BOOLEAN : TakePacket(b) \/ DriverTick(b)

ReceiverStep == Receive \/ Enqueue \/ ReceiverEnds

WorldStep(ports) == Advance \/ \E taken \in SUBSET ports : Others(taken)

-----------------------------------------------------------------------------
(* Properties. *)

\* "Discard queued packets from old epochs or received before the transition
\* boundary": what the driver has observed arrived since the last transition, or
\* at the same reading of the clock, although a datagram gets its time and its
\* epoch in two steps and a transition takes two steps.
InputIsFenced ==
    drv.at # "fence" /\ sample.seen => sample.era = gate.epoch \/ sample.at = gate.fence

\* The driver reports an error exactly as long as the configuration it was given
\* last is not in force, whichever of several was refused, failed to bind or is
\* retried; it retries only while it has no port, and has a receiver when it has
\* one.
ConfigIsHonest ==
    drv.at = "select" =>
        /\ drv.error <=> drv.wanted = NoPort \/ drv.port # drv.wanted
        /\ drv.retry # NoRetry => drv.port = NoPort
        /\ (recv.at # "none") <=> (drv.port # NoPort)

=============================================================================
