---------------------------- MODULE PluginRuntime ----------------------------
\* The plugin's end of a session: pkg/pluginruntime.  Run performs the handshake
\* and then runs three workers, the driver, the reader of controls and the
\* outbound writer; the first that ends takes the others down, and the shutdown
\* is acknowledged once the writer has stopped.
\*
\* The driver is external: it publishes when it likes, and it may fail or never
\* return.  Statuses and heartbeats stand for themselves, logs are left out.
EXTENDS PluginPipe

CONSTANTS
    EventCapacity,  \* control events the driver has not taken yet
    HelloValue,     \* what the host may find in Hello
    MaxPublish      \* bound on what the driver and the ticker publish

ASSUME RuntimeAssumption == EventCapacity \in Nat \ {0} /\ MaxPublish \in Nat

VARIABLES
    run,       \* Run: where it is, what it has recorded, how it ends
    host,      \* runtimeHost: current state, queued events, shutdown accepted
    slot,      \* the latest frame and its wakeup
    status,    \* the latest status and its wakeup
    worker,    \* driver, reader, writer: where each is and its result
    published  \* publications so far

runtimeVars == <<run, host, slot, status, worker, published>>

Worker == {"driver", "reader", "writer"}

Rest == [pending |-> FALSE, wake |-> FALSE, value |-> 0]

RuntimeInit ==
    /\ run = [at |-> "connect", cancelled |-> FALSE, recorded |-> {}, bad |-> FALSE]
    /\ host = [state |-> Startup, events |-> 0, accepted |-> FALSE]
    /\ slot = Rest
    /\ status = Rest
    /\ worker = [w \in Worker |-> [at |-> "off", result |-> "none"]]
    /\ published = 0

\* What is left of Run only decides the exit status and when it is reached.
Over(at, bad) ==
    /\ run' = [at |-> at, cancelled |-> FALSE, recorded |-> {}, bad |-> bad]
    /\ host' = [state |-> Startup, events |-> 0, accepted |-> FALSE]
    /\ slot' = Rest
    /\ status' = Rest
    /\ worker' = [w \in Worker |-> [at |-> "off", result |-> "none"]]
    /\ published' = 0

\* A process that has exited leaves nothing behind.
Gone == Over("exited", FALSE)

Alive == proc.at = "alive"

\* Run returns: the connection is closed, the process exits.
Exit(bad) ==
    /\ Gone
    /\ proc' = [proc EXCEPT !.at = "exited", !.bad = bad]
    /\ pipe' = HungUp

(***************************************************************************)
(* Handshake.                                                              *)
(***************************************************************************)

Connect ==
    /\ Alive /\ run.at = "connect"
    /\ pipe.host # "closed"
    /\ pipe' = [pipe EXCEPT !.plugin = "open"]
    /\ run' = [run EXCEPT !.at = "hello"]
    /\ UNCHANGED <<proc, host, slot, status, worker, published>>

SendHello ==
    /\ Alive /\ run.at = "hello" /\ CanSendUp
    /\ \E v \in HelloValue : pipe' = SentUp("hello", v)
    /\ run' = [run EXCEPT !.at = "initialize"]
    /\ UNCHANGED <<proc, host, slot, status, worker, published>>

ReceiveInitialize ==
    /\ Alive /\ run.at = "initialize"
    /\ pipe.down # <<>> /\ Head(pipe.down).type = "initialize"
    /\ host' = [host EXCEPT !.state = Head(pipe.down).value]
    /\ pipe' = [pipe EXCEPT !.down = Tail(@)]
    /\ run' = [run EXCEPT !.at = "ready"]
    /\ UNCHANGED <<proc, slot, status, worker, published>>

SendReady ==
    /\ Alive /\ run.at = "ready" /\ CanSendUp
    /\ pipe' = SentUp("ready", 0)
    /\ worker' = [w \in Worker |-> [at |-> "running", result |-> "none"]]
    /\ run' = [run EXCEPT !.at = "run"]
    /\ UNCHANGED <<proc, host, slot, status, published>>

\* No connection, or the host has gone before the handshake is over.
HandshakeFails ==
    /\ Alive /\ run.at \in {"connect", "hello", "initialize", "ready"}
    /\ pipe.host = "closed" /\ (run.at = "initialize" => pipe.down = <<>>)
    /\ Exit(TRUE)

(***************************************************************************)
(* The driver and what it calls.                                           *)
(***************************************************************************)

Running(w) == Alive /\ worker[w].at = "running"

Store(generation) == [pending |-> TRUE, wake |-> TRUE, value |-> generation]

PublishFrame ==
    /\ Running("driver") /\ published < MaxPublish
    /\ host.state.active /\ host.state.generation # 0
    /\ slot' = Store(host.state.generation)
    /\ published' = published + 1
    /\ UNCHANGED <<proc, pipe, run, host, status, worker>>

PublishStatus ==
    /\ Running("driver") /\ published < MaxPublish
    /\ status' = [status EXCEPT !.pending = TRUE, !.wake = TRUE]
    /\ published' = published + 1
    /\ UNCHANGED <<proc, pipe, run, host, slot, worker>>

TakeEvent ==
    /\ Running("driver") /\ host.events > 0
    /\ host' = [host EXCEPT !.events = @ - 1]
    /\ UNCHANGED <<proc, pipe, run, slot, status, worker, published>>

\* driverReturned notes whether the shutdown had been delivered.
DriverReturns ==
    /\ Running("driver")
    /\ \E err \in BOOLEAN :
          worker' = [worker EXCEPT !["driver"] = [at |-> "done",
             result |-> IF err THEN IF host.accepted THEN "error_accepted" ELSE "error"
                        ELSE IF host.accepted THEN "accepted" ELSE "nil"]]
    /\ UNCHANGED <<proc, pipe, run, host, slot, status, published>>

(***************************************************************************)
(* The reader of controls.                                                 *)
(***************************************************************************)

Ends(w, result) == worker' = [worker EXCEPT ![w] = [at |-> "done", result |-> result]]

\* Faulty variant: the frame stays.
SlotKept(m) == slot

\* applySubscription clears an older frame, applyActive(false) any.
SlotAfter(m) ==
    IF \/ m.type = "generation" /\ slot.pending /\ slot.value < m.value
       \/ m.type = "active" /\ ~m.value
    THEN Rest ELSE slot

Older(m) == m.type # "active" /\ m.value < host.state[m.type]

\* Faulty variant: a control that finds no room for its event is dropped.
ReadControlDrops ==
    /\ Running("reader") /\ pipe.plugin = "open"
    /\ pipe.down # <<>>
    /\ LET m == Head(pipe.down) IN
       IF host.events = EventCapacity THEN UNCHANGED <<host, slot, worker>>
       ELSE \/ /\ m.type = "shutdown"
               /\ host' = [host EXCEPT !.accepted = TRUE, !.events = @ + 1]
               /\ Ends("reader", "shutdown") /\ UNCHANGED slot
            \/ /\ m.type # "shutdown"
               /\ slot' = SlotAfter(m)
               /\ host' = [host EXCEPT !.state[m.type] = m.value, !.events = @ + 1]
               /\ UNCHANGED worker
    /\ pipe' = [pipe EXCEPT !.down = Tail(@)]
    /\ UNCHANGED <<proc, run, status, published>>

ReadControl ==
    /\ Running("reader") /\ pipe.plugin = "open"
    /\ pipe.down # <<>>
    /\ LET m == Head(pipe.down) IN
       \/ /\ m.type = "shutdown"
          /\ IF host.events < EventCapacity
             THEN /\ host' = [host EXCEPT !.accepted = TRUE, !.events = @ + 1]
                  /\ Ends("reader", "shutdown")
             ELSE Ends("reader", "error") /\ UNCHANGED host
          /\ UNCHANGED slot
       \/ /\ m.type # "shutdown" /\ Older(m)
          /\ Ends("reader", "regression") /\ UNCHANGED <<host, slot>>
       \/ /\ m.type # "shutdown" /\ host.state[m.type] = m.value
          /\ UNCHANGED <<host, slot, worker>>
       \/ /\ m.type # "shutdown" /\ ~Older(m) /\ host.state[m.type] # m.value
          /\ slot' = SlotAfter(m)
          /\ host' = [host EXCEPT !.state[m.type] = m.value,
                                  !.events = IF @ < EventCapacity THEN @ + 1 ELSE @]
          /\ IF host.events < EventCapacity THEN UNCHANGED worker ELSE Ends("reader", "error")
    /\ pipe' = [pipe EXCEPT !.down = Tail(@)]
    /\ UNCHANGED <<proc, run, status, published>>

\* Cancelled, or the connection has ended.
ReadFails ==
    /\ Running("reader")
    /\ \/ run.cancelled /\ Ends("reader", "cancelled")
       \/ pipe.plugin = "closed" /\ Ends("reader", "error")
       \/ pipe.plugin = "open" /\ pipe.host = "closed" /\ Ends("reader", "error")
    /\ UNCHANGED <<proc, pipe, run, host, slot, status, published>>

(***************************************************************************)
(* The outbound writer.                                                    *)
(***************************************************************************)

WriterIs(at) == Alive /\ worker["writer"].at = at

\* A wakeup is consumed and the slot it announces is loaded.
LoadFrame ==
    /\ WriterIs("running") /\ slot.wake
    /\ slot' = Rest
    /\ worker' = [worker EXCEPT !["writer"].at = IF slot.pending THEN "frame" ELSE "running"]
    /\ UNCHANGED <<proc, pipe, run, host, status, published>>

LoadStatus ==
    /\ WriterIs("running") /\ status.wake
    /\ status' = Rest
    /\ worker' = [worker EXCEPT !["writer"].at = IF status.pending THEN "status" ELSE "running"]
    /\ UNCHANGED <<proc, pipe, run, host, slot, published>>

Heartbeat ==
    /\ WriterIs("running") /\ published < MaxPublish
    /\ worker' = [worker EXCEPT !["writer"].at = "heartbeat"]
    /\ published' = published + 1
    /\ UNCHANGED <<proc, pipe, run, host, slot, status>>

Outbound == {"frame", "status", "heartbeat"}

WriteOutbound ==
    /\ worker["writer"].at \in Outbound /\ WriterIs(worker["writer"].at)
    /\ CanSendUp
    /\ pipe' = SentUp(worker["writer"].at, 0)
    /\ worker' = [worker EXCEPT !["writer"].at = "running"]
    /\ UNCHANGED <<proc, run, host, slot, status, published>>

\* Cancelled while idle or while blocked in Send, where a message that was
\* partly written costs the connection; or the connection is gone.
WriteFails ==
    /\ worker["writer"].at \in Outbound \cup {"running"} /\ WriterIs(worker["writer"].at)
    /\ \/ run.cancelled /\ Ends("writer", "cancelled") /\ UNCHANGED pipe
       \/ /\ run.cancelled /\ worker["writer"].at # "running" /\ pipe.plugin = "open" /\ ~CanSendUp
          /\ Ends("writer", "cancelled") /\ pipe' = TornUp
       \/ /\ worker["writer"].at # "running" /\ (pipe.host = "closed" \/ pipe.plugin = "closed")
          /\ Ends("writer", "error") /\ UNCHANGED pipe
    /\ UNCHANGED <<proc, run, host, slot, status, published>>

(***************************************************************************)
(* The end of Run.                                                         *)
(***************************************************************************)

Done == {w \in Worker : worker[w].at = "done"}

\* The first worker to end cancels the others; the rest are collected.
FirstDone ==
    /\ Alive /\ run.at = "run" /\ Done # {}
    /\ run' = [run EXCEPT !.at = "collect", !.cancelled = TRUE]
    /\ UNCHANGED <<proc, pipe, host, slot, status, worker, published>>

\* What has ended is recorded; without the writer's end nothing can be sent.
Recorded(bad) ==
    IF "writer" \in Done
    THEN /\ run' = [run EXCEPT !.at = "finish", !.recorded = Done, !.bad = bad]
         /\ UNCHANGED <<host, slot, status, worker, published>>
    ELSE Over("return", bad)

Collect ==
    /\ Alive /\ run.at = "collect" /\ Done = Worker
    /\ Recorded(FALSE)
    /\ UNCHANGED <<proc, pipe>>

\* ShutdownTimeout: a reader that has not stopped is freed by closing the
\* connection and given the same time once more, and nothing can be sent after.
CollectTimeout ==
    /\ Alive /\ run.at = "collect" /\ Done # Worker
    /\ IF "reader" \in Done
       THEN Recorded(TRUE) /\ UNCHANGED pipe
       ELSE Over("return", TRUE) /\ pipe' = HungUp
    /\ UNCHANGED proc

Failures ==
    {w \in run.recorded : worker[w].result \in {"error", "error_accepted", "regression"}}

ShutdownSeen ==
    \/ "reader" \in run.recorded /\ worker["reader"].result = "shutdown"
    \/ "driver" \in run.recorded /\ worker["driver"].result \in {"accepted", "error_accepted"}

\* finishTerminal: the notices of what failed, then the acknowledgement, and
\* only when the writer has stopped, so that Send has one caller.
FinishTerminal ==
    /\ Alive /\ run.at = "finish"
    /\ \/ Failures = {} /\ UNCHANGED pipe
       \/ Failures # {} /\ CanSendUp /\ pipe' = SentUp("error", 0)
       \/ Failures # {} /\ ~CanSendUp /\ UNCHANGED pipe
    /\ LET bad == run.bad \/ Failures # {} IN
       IF ShutdownSeen
       THEN /\ run' = [run EXCEPT !.at = "acknowledge", !.bad = bad]
            /\ UNCHANGED <<host, slot, status, worker, published>>
       ELSE Over("return", bad)
    /\ UNCHANGED proc

SendShutdownAck ==
    /\ Alive /\ run.at = "acknowledge"
    /\ \/ CanSendUp /\ pipe' = SentUp("ack", 0) /\ Over("return", run.bad)
       \/ ~CanSendUp /\ UNCHANGED pipe /\ Over("return", TRUE)
    /\ UNCHANGED proc

Return ==
    /\ Alive /\ run.at = "return"
    /\ Exit(run.bad)

RuntimeNext ==
    \/ Connect \/ SendHello \/ ReceiveInitialize \/ SendReady \/ HandshakeFails
    \/ PublishFrame \/ PublishStatus \/ TakeEvent \/ DriverReturns
    \/ ReadControl \/ ReadFails \/ LoadFrame \/ LoadStatus \/ Heartbeat \/ WriteOutbound \/ WriteFails
    \/ FirstDone \/ Collect \/ CollectTimeout \/ FinishTerminal \/ SendShutdownAck \/ Return

=============================================================================
