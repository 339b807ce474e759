------------------------------ MODULE DesktopApp ------------------------------
\* The desktop application: startup and shutdown of the root, the modules for
\* the runtime, the plugins and the settings with their commands, and the
\* forwarders that send each module's latest snapshot to the user interface.
\*
\* A snapshot is what the properties tell apart: the phase and the status, the
\* plugins with their telemetry, the revision of the settings.  Problems and
\* times are left out.  The application's event hub is PluginEvents, its settings
\* file SettingsStore; here an event is a flag and a save is one step.
EXTENDS Application, FiniteSets

CONSTANTS
    Scenario,     \* who drives the application, the root or its tests directly, and
                  \* the commands, saves, changes of plugins and errors there are,
                  \* and the modules whose forwarders are looked at
    Plugin,
    Cmd,          \* plugin commands
    Saver,        \* callers of Save
    MaxConfig,    \* revisions of a plugin's configuration
    None

\* The snapshots: of the runtime module, of the plugins, and of the settings,
\* whose document is a revision.
RootPhases == {"created", "starting", "running", "diagnostic", "closing", "closed"}
Rates == UNION {0 .. s.changes : s \in Scenario}

RuntimeSnapshots == [phase : RootPhases, status : Statuses \cup {None}]
PluginLists == SUBSET [enabled : BOOLEAN, config : Plugin \X (0 .. MaxConfig), rate : Rates]
Revisions == Nat

ASSUME DesktopAssumption == None \notin Saver

ASSUME NoneAssumption ==
    /\ None \notin Statuses \cup RuntimeSnapshots \cup Revisions
    /\ \A list \in PluginLists : list # None

ASSUME BoundAssumption == MaxConfig \in Nat /\ \A s \in Scenario : s.changes \in Nat

VARIABLES
    scenario,
    root,      \* the lifecycle of the root, the backend it keeps, and whether one was built
    su,        \* startup
    sd,        \* shutdown
    world,     \* the plugins as the manager has them
    event,     \* a plugin event waits for the lister
    lists,     \* PluginsAPI: accepting, closed, the list on its way and the consumer
    cmd,       \* plugin commands
    watch,     \* the status consumer
    saves,     \* SettingsAPI: closed, loaded, gate; the settings file and the calls of Save
    store,     \* the snapshot of each module
    src,       \* the channel to each module's forwarder
    fwd        \* the forwarders, with what each sent to the user interface last

Module == {"runtime", "plugins", "settings"}

pluginVars == <<world, event, lists, cmd>>
uiVars == <<store, src, fwd>>
vars == <<appVars, scenario, root, su, sd, pluginVars, watch, saves, uiVars>>

Idle == [at |-> "idle", plugin |-> None, kind |-> None, seen |-> None]

Init ==
    /\ scenario \in Scenario
    /\ AppInit
    /\ root = [life |-> "created", backend |-> FALSE, built |-> FALSE]
    /\ su = "idle" /\ sd = "idle"
    /\ world = [p \in Plugin |-> [enabled |-> FALSE, config |-> 0, rate |-> 0]]
    /\ event = FALSE
    /\ lists = [accepting |-> FALSE, closed |-> FALSE, on |-> FALSE, next |-> None, taken |-> None, equal |-> FALSE]
    /\ cmd = [c \in Cmd |-> Idle]
    /\ watch = [on |-> FALSE, seen |-> None, taken |-> None]
    /\ saves = [closed |-> FALSE, loaded |-> FALSE, gate |-> None, file |-> 1, call |-> [s \in Saver |-> "idle"]]
    /\ store = [m \in Module |-> CASE m = "runtime" -> [phase |-> "created", status |-> None]
                                   [] m = "plugins" -> {}
                                   [] OTHER -> 0]
    /\ src = [m \in Module |-> None]
    /\ fwd = [m \in Module |-> [at |-> "off", sent |-> None, pending |-> None]]

(***************************************************************************)
(* Module stores, and the forwarders.                                      *)
(***************************************************************************)

Subscribed(m) == fwd[m].at = "on"

\* Each subscriber has room for one snapshot, the latest.
Update(m, value) ==
    /\ store' = [store EXCEPT ![m] = value]
    /\ src' = IF Subscribed(m) THEN [src EXCEPT ![m] = value] ELSE src
    /\ UNCHANGED fwd

SetRuntime(value) == IF value = store["runtime"] THEN UNCHANGED uiVars ELSE Update("runtime", value)
SetRootState(phase) == SetRuntime([store["runtime"] EXCEPT !.phase = phase])
SetApplicationStatus(status) == SetRuntime([store["runtime"] EXCEPT !.status = status])

Available == lists.accepting /\ ~lists.closed

\* What is sent: the list of plugins with whether commands are accepted by now.
Response(m, value) == IF m = "plugins" THEN [list |-> value, available |-> Available] ELSE value

Telemetry(l) == {[p EXCEPT !.rate = 0] : p \in l}
TelemetryOnly(before, after) == Telemetry(before) = Telemetry(after)

Emit(m, value) == fwd' = [fwd EXCEPT ![m].sent = Response(m, value), ![m].pending = None]

\* A list that differs in telemetry alone waits for the ticker.
Forward(m) ==
    /\ fwd[m].at = "on" /\ src[m] # None
    /\ src' = [src EXCEPT ![m] = None]
    /\ IF m = "plugins" /\ fwd[m].sent # None /\ TelemetryOnly(fwd[m].sent.list, src[m])
       THEN fwd' = [fwd EXCEPT ![m].pending = src[m]]
       ELSE Emit(m, src[m])
    /\ UNCHANGED <<appVars, scenario, root, su, sd, pluginVars, watch, saves, store>>

Tick ==
    /\ fwd["plugins"].at = "on" /\ fwd["plugins"].pending # None
    /\ Emit("plugins", fwd["plugins"].pending)
    /\ UNCHANGED <<appVars, scenario, root, su, sd, pluginVars, watch, saves, store, src>>

\* The subscription's channel is drained and closed.
ForwarderStops(m) ==
    /\ fwd[m].at \in {"on", "stopping"} /\ (fwd[m].at = "stopping" \/ start.ended)
    /\ fwd' = [fwd EXCEPT ![m] = [at |-> "done", sent |-> None, pending |-> None]]
    /\ src' = [src EXCEPT ![m] = None]
    /\ UNCHANGED <<appVars, scenario, root, su, sd, pluginVars, watch, saves, store>>

(***************************************************************************)
(* Startup.  Its context is the one of Start.                              *)
(***************************************************************************)

Active == root.life = "starting" /\ ~start.ended

Startup ==
    /\ scenario.driver = "root" /\ su = "idle" /\ root.life = "created"
    /\ su' = "phase" /\ root' = [root EXCEPT !.life = "starting"]
    /\ UNCHANGED <<appVars, scenario, sd, pluginVars, watch, saves, uiVars>>

\* A step of startup, after which it goes on unless shutdown has begun.
Then(next) == su' = IF Active THEN next ELSE "done"

PublishStarting ==
    /\ su = "phase"
    /\ SetRootState("starting") /\ Then("forward")
    /\ UNCHANGED <<appVars, scenario, root, sd, pluginVars, watch, saves>>

StartForwarders ==
    /\ su = "forward"
    /\ fwd' = [m \in Module |-> [fwd[m] EXCEPT !.at = IF m \in scenario.shown THEN "on" ELSE "done"]]
    /\ src' = [m \in Module |-> IF m \in scenario.shown THEN store[m] ELSE None]
    /\ Then("settings")
    /\ UNCHANGED <<appVars, scenario, root, sd, pluginVars, watch, saves, store>>

EnterDiagnostic(status) ==
    /\ su' = "done"
    /\ IF root.life = "starting"
       THEN /\ root' = [root EXCEPT !.life = "diagnostic"]
            /\ SetRuntime([phase |-> "diagnostic", status |-> status])
       ELSE UNCHANGED <<root, uiVars>>

\* The platform, the paths or the store, or the settings cannot be used.  A file
\* that is invalid has been loaded, and a save repairs it.
LoadFails ==
    /\ su = "settings" /\ saves.gate = None
    /\ IF Active THEN EnterDiagnostic(None) ELSE su' = "done" /\ UNCHANGED <<root, uiVars>>
    /\ UNCHANGED <<appVars, scenario, sd, pluginVars, watch, saves>>

LoadForStartup ==
    /\ su = "settings" /\ saves.gate = None
    /\ IF start.ended THEN UNCHANGED <<saves, uiVars>>
       ELSE Update("settings", saves.file) /\ saves' = [saves EXCEPT !.loaded = TRUE]
    /\ \E valid \in BOOLEAN : Then(IF valid THEN "backend" ELSE "invalid")
    /\ UNCHANGED <<appVars, scenario, root, sd, pluginVars, watch>>

SettingsInvalid ==
    /\ su = "invalid"
    /\ EnterDiagnostic(None)
    /\ UNCHANGED <<appVars, scenario, sd, pluginVars, watch, saves>>

\* Faulty variant: a backend that is built during shutdown is forgotten.
NewBackendIfActive ==
    /\ su = "backend"
    /\ root' = [root EXCEPT !.backend = Active, !.built = TRUE]
    /\ Then("start")
    /\ UNCHANGED <<appVars, scenario, sd, pluginVars, watch, saves, uiVars>>

\* What the factory built is kept, even when shutdown has begun by now.
NewBackend ==
    /\ su = "backend"
    /\ \/ root' = [root EXCEPT !.backend = TRUE, !.built = TRUE] /\ Then("start") /\ UNCHANGED uiVars
       \/ IF Active THEN EnterDiagnostic(None) ELSE su' = "done" /\ UNCHANGED <<root, uiVars>>
    /\ UNCHANGED <<appVars, scenario, sd, pluginVars, watch, saves>>

StartBackend ==
    /\ su = "start"
    /\ CallStart
    /\ su' = "started"
    /\ UNCHANGED <<scenario, root, sd, pluginVars, watch, saves, uiVars>>

BackendStarted ==
    /\ su = "started" /\ start.at = "done"
    /\ IF start.ok \/ ~Active THEN Then("status") /\ UNCHANGED <<root, uiVars>> ELSE EnterDiagnostic(app.status)
    /\ UNCHANGED <<appVars, scenario, sd, pluginVars, watch, saves>>

\* attachRunningConsumers, whose context ends with shutdown as well.
AttachStatus ==
    /\ su = "status"
    /\ SetApplicationStatus(app.status) /\ Then("attach")
    /\ UNCHANGED <<appVars, scenario, root, sd, pluginVars, watch, saves>>

TheList == {[world[p] EXCEPT !.config = <<p, @>>] : p \in Plugin}

\* Commands are accepted before the list is read and published.
Attach ==
    /\ su = "attach"
    /\ lists' = [lists EXCEPT !.accepting = ~start.ended]
    /\ su' = IF start.ended THEN "done" ELSE "publish"
    /\ UNCHANGED <<appVars, scenario, root, sd, world, event, cmd, watch, saves, uiVars>>

AttachPublishes ==
    /\ su = "publish"
    /\ IF Available THEN Update("plugins", TheList) ELSE UNCHANGED uiVars
    /\ Then("consume")
    /\ UNCHANGED <<appVars, scenario, root, sd, pluginVars, watch, saves>>

\* Faulty variant: the subscriber waits for the first event.
SubscribeWithoutList ==
    /\ su = "consume"
    /\ lists' = IF Active THEN [lists EXCEPT !.on = TRUE] ELSE lists
    /\ Then("watch")
    /\ UNCHANGED <<appVars, scenario, root, sd, world, event, cmd, watch, saves, uiVars>>

\* The subscriber is given the list at once.
SubscribePlugins ==
    /\ su = "consume"
    /\ lists' = IF Active THEN [lists EXCEPT !.on = TRUE, !.next = TheList] ELSE lists
    /\ Then("watch")
    /\ UNCHANGED <<appVars, scenario, root, sd, world, event, cmd, watch, saves, uiVars>>

SubscribeStatus ==
    /\ su = "watch"
    /\ watch' = IF Active THEN [watch EXCEPT !.on = TRUE] ELSE watch
    /\ Then("run")
    /\ UNCHANGED <<appVars, scenario, root, sd, pluginVars, saves, uiVars>>

Run ==
    /\ su = "run"
    /\ su' = "done"
    /\ IF Active THEN root' = [root EXCEPT !.life = "running"] /\ SetRootState("running") ELSE UNCHANGED <<root, uiVars>>
    /\ UNCHANGED <<appVars, scenario, sd, pluginVars, watch, saves>>

(***************************************************************************)
(* The plugin module.                                                      *)
(***************************************************************************)

\* publishSnapshots: nothing happens without a change.
Publish(list, equal) ==
    IF ~Available \/ list = store["plugins"] THEN UNCHANGED <<uiVars, lists>>
    ELSE Update("plugins", list) /\ lists' = [lists EXCEPT !.equal = equal]

\* A plugin's telemetry changes by itself.
PluginChanges(p) ==
    /\ app.manager = "up" /\ world[p].rate < scenario.changes /\ sd = "idle"
    /\ world' = [world EXCEPT ![p].rate = @ + 1]
    /\ event' = lists.on
    /\ UNCHANGED <<appVars, scenario, root, su, sd, lists, cmd, watch, saves, uiVars>>

\* SubscribePlugins lists the plugins after an event.
ListAgain ==
    /\ lists.on /\ event
    /\ event' = FALSE
    /\ lists' = [lists EXCEPT !.next = TheList]
    /\ UNCHANGED <<appVars, scenario, root, su, sd, world, cmd, watch, saves, uiVars>>

ConsumeSnapshots ==
    /\ lists.on /\ lists.next # None /\ lists.taken = None
    /\ lists' = [lists EXCEPT !.next = None, !.taken = lists.next]
    /\ UNCHANGED <<appVars, scenario, root, su, sd, world, event, cmd, watch, saves, uiVars>>

PublishTaken ==
    /\ lists.taken # None
    /\ IF ~Available \/ lists.taken = store["plugins"]
       THEN UNCHANGED uiVars /\ lists' = [lists EXCEPT !.taken = None]
       ELSE Update("plugins", lists.taken) /\ lists' = [lists EXCEPT !.taken = None, !.equal = FALSE]
    /\ UNCHANGED <<appVars, scenario, root, su, sd, world, event, cmd, watch, saves>>

SessionEnded == ~lists.accepting \/ start.ended

ConsumerStops ==
    /\ lists.on /\ lists.taken = None /\ SessionEnded
    /\ lists' = [lists EXCEPT !.on = FALSE, !.next = None]
    /\ event' = FALSE
    /\ UNCHANGED <<appVars, scenario, root, su, sd, world, cmd, watch, saves, uiVars>>

\* SetEnabled and UpdateConfig are admitted while the backend is attached.
Call(c, p, kind) ==
    /\ c \in scenario.cmds /\ cmd[c].at = "idle" /\ kind \in scenario.commands /\ Available /\ ~start.ended
    /\ cmd' = [cmd EXCEPT ![c] = [Idle EXCEPT !.at = "gate", !.plugin = p, !.kind = kind]]
    /\ UNCHANGED <<appVars, scenario, root, su, sd, world, event, lists, watch, saves, uiVars>>

GateFree(p) == \A c \in Cmd : cmd[c].plugin = p => cmd[c].at \in {"idle", "gate"}

Release(c) == cmd' = [cmd EXCEPT ![c] = Idle]

\* The call waits for the command on its plugin, or for its time to run out.
Admit(c) ==
    /\ cmd[c].at = "gate"
    /\ \/ Release(c)
       \/ /\ GateFree(cmd[c].plugin) /\ Available
          /\ cmd' = [cmd EXCEPT ![c].at = "read"]
    /\ UNCHANGED <<appVars, scenario, root, su, sd, world, event, lists, watch, saves, uiVars>>

\* Does the command ask for what is so already?  A configuration is a new revision.
Read(c) ==
    /\ cmd[c].at = "read"
    /\ LET w == world[cmd[c].plugin] IN
       \/ cmd[c].kind = "config" /\ w.config < MaxConfig /\ cmd' = [cmd EXCEPT ![c].at = "call", ![c].seen = w.config]
       \/ cmd[c].kind = "config" /\ Release(c)
       \/ /\ cmd[c].kind # "config"
          /\ cmd' = [cmd EXCEPT ![c].at = IF w.enabled = (cmd[c].kind = "enable") THEN "equal" ELSE "call", ![c].seen = TheList]
    /\ UNCHANGED <<appVars, scenario, root, su, sd, world, event, lists, watch, saves, uiVars>>

PublishEqual(c) ==
    /\ cmd[c].at = "equal"
    /\ Publish(cmd[c].seen, TRUE)
    /\ Release(c)
    /\ UNCHANGED <<appVars, scenario, root, su, sd, world, event, watch, saves>>

\* The manager applies the command, or the call fails, before or after that.
CallBackend(c) ==
    /\ cmd[c].at = "call"
    /\ LET p == cmd[c].plugin
           apply == app.life = "running" /\ (cmd[c].kind = "config" => cmd[c].seen = world[p].config) IN
       \E done, applied \in BOOLEAN :
          /\ (done => applied) /\ (applied => apply)
          /\ cmd' = [cmd EXCEPT ![c] = IF done THEN [@ EXCEPT !.at = "refresh", !.seen = None] ELSE Idle]
          /\ world' = IF ~applied THEN world
                      ELSE IF cmd[c].kind = "config" THEN [world EXCEPT ![p].config = cmd[c].seen + 1]
                      ELSE [world EXCEPT ![p].enabled = cmd[c].kind = "enable"]
          /\ event' = (event \/ (applied /\ lists.on))
    /\ UNCHANGED <<appVars, scenario, root, su, sd, lists, watch, saves, uiVars>>

RefreshBackend(c) ==
    /\ cmd[c].at = "refresh"
    /\ Publish(TheList, FALSE)
    /\ Release(c)
    /\ UNCHANGED <<appVars, scenario, root, su, sd, world, event, watch, saves>>

(***************************************************************************)
(* The runtime module follows the status of the application.               *)
(***************************************************************************)

ConsumeStatus ==
    /\ watch.on /\ watch.taken = None /\ app.status # watch.seen
    /\ watch' = [watch EXCEPT !.seen = app.status, !.taken = app.status]
    /\ UNCHANGED <<appVars, scenario, root, su, sd, pluginVars, saves, uiVars>>

SetStatusTaken ==
    /\ watch.taken # None
    /\ SetApplicationStatus(watch.taken)
    /\ watch' = [watch EXCEPT !.taken = None]
    /\ UNCHANGED <<appVars, scenario, root, su, sd, pluginVars, saves>>

WatchStops ==
    /\ watch.on /\ watch.taken = None /\ start.ended
    /\ watch' = [watch EXCEPT !.on = FALSE, !.seen = None]
    /\ UNCHANGED <<appVars, scenario, root, su, sd, pluginVars, saves, uiVars>>

(***************************************************************************)
(* The settings module.                                                    *)
(***************************************************************************)

\* A call waits for the gate; a closed module, or one without a file, refuses it.
AdmitSave(s) ==
    /\ s \in scenario.savers /\ saves.call[s] = "idle" /\ saves.gate = None /\ saves.loaded /\ ~saves.closed
    /\ saves' = [saves EXCEPT !.gate = s, !.call[s] = "save"]
    /\ UNCHANGED <<appVars, scenario, root, su, sd, pluginVars, watch, uiVars>>

\* Faulty variant: a save that fails keeps the gate.
SaveFileKeepsGate(s) ==
    /\ saves.call[s] = "save"
    /\ \E written \in BOOLEAN :
          saves' = IF written THEN [saves EXCEPT !.file = @ + 1, !.call[s] = "publish"] ELSE [saves EXCEPT !.call[s] = "done"]
    /\ UNCHANGED <<appVars, scenario, root, su, sd, pluginVars, watch, uiVars>>

\* The file is replaced, or the save fails or is cancelled before that.
SaveFile(s) ==
    /\ saves.call[s] = "save"
    /\ \E written \in BOOLEAN :
          saves' = IF written THEN [saves EXCEPT !.file = @ + 1, !.call[s] = "publish"]
                   ELSE [saves EXCEPT !.gate = None, !.call[s] = "done"]
    /\ UNCHANGED <<appVars, scenario, root, su, sd, pluginVars, watch, uiVars>>

PublishSaved(s) ==
    /\ saves.call[s] = "publish"
    /\ Update("settings", saves.file)
    /\ saves' = [saves EXCEPT !.gate = None, !.call[s] = "done"]
    /\ UNCHANGED <<appVars, scenario, root, su, sd, pluginVars, watch>>

(***************************************************************************)
(* Shutdown, by the first call.                                            *)
(***************************************************************************)

Shutdown ==
    /\ scenario.driver = "root" /\ sd = "idle"
    /\ sd' = "await"
    /\ root' = [root EXCEPT !.life = "closing"]
    /\ start' = [start EXCEPT !.ended = TRUE]
    /\ UNCHANGED <<app, close, scenario, su, pluginVars, watch, saves, uiVars>>

\* PluginsAPI.close begins once startup is over.
AwaitStartup ==
    /\ sd = "await" /\ su \in {"idle", "done"}
    /\ sd' = "commands"
    /\ lists' = [lists EXCEPT !.closed = TRUE, !.accepting = FALSE]
    /\ UNCHANGED <<appVars, scenario, root, su, world, event, cmd, watch, saves, uiVars>>

\* Faulty variant: admitted commands are not awaited.
JoinConsumer ==
    /\ sd = "commands" /\ ~lists.on /\ lists.taken = None /\ ~watch.on
    /\ sd' = "forwarders"
    /\ fwd' = [m \in Module |-> IF fwd[m].at = "on" THEN [fwd[m] EXCEPT !.at = "stopping"] ELSE fwd[m]]
    /\ UNCHANGED <<appVars, scenario, root, su, pluginVars, watch, saves, store, src>>

\* Commands and both consumers end, then the forwarders are told to.
JoinCommands ==
    /\ sd = "commands" /\ (\A c \in Cmd : cmd[c].at = "idle") /\ ~lists.on /\ lists.taken = None /\ ~watch.on
    /\ sd' = "forwarders"
    /\ fwd' = [m \in Module |-> IF fwd[m].at = "on" THEN [fwd[m] EXCEPT !.at = "stopping"] ELSE fwd[m]]
    /\ UNCHANGED <<appVars, scenario, root, su, pluginVars, watch, saves, store, src>>

\* The forwarders are joined, and SettingsAPI.close begins.
JoinForwarders ==
    /\ sd = "forwarders" /\ \A m \in Module : fwd[m].at \in {"off", "done"}
    /\ sd' = "settings"
    /\ saves' = [saves EXCEPT !.closed = TRUE]
    /\ UNCHANGED <<appVars, scenario, root, su, pluginVars, watch, uiVars>>

\* A save that was admitted is awaited.
AwaitSave ==
    /\ sd = "settings" /\ saves.gate = None
    /\ SetRootState("closing")
    /\ sd' = IF root.backend THEN "close" ELSE "phase"
    /\ UNCHANGED <<appVars, scenario, root, su, pluginVars, watch, saves>>

CloseBackend(k) ==
    /\ sd = "close"
    /\ CallClose(k)
    /\ sd' = "closing"
    /\ UNCHANGED <<scenario, root, su, pluginVars, watch, saves, uiVars>>

BackendClosed ==
    /\ sd = "closing" /\ \E k \in Closer : close[k].at = "done"
    /\ SetApplicationStatus(app.status)
    /\ sd' = "phase"
    /\ UNCHANGED <<appVars, scenario, root, su, pluginVars, watch, saves>>

ShutdownEnds ==
    /\ sd = "phase"
    /\ SetRootState("closed")
    /\ root' = [root EXCEPT !.life = "closed"]
    /\ sd' = "done"
    /\ UNCHANGED <<appVars, scenario, su, pluginVars, watch, saves>>

(***************************************************************************)
(* The application alone: Start is called, its context may end, and Close. *)
(***************************************************************************)

Direct ==
    /\ scenario.driver = "direct"
    /\ \/ CallStart
       \/ \E k \in Closer : CallClose(k)
       \/ start' = [start EXCEPT !.ended = TRUE] /\ UNCHANGED <<app, close>>
    /\ UNCHANGED <<scenario, root, su, sd, pluginVars, watch, saves, uiVars>>

Backend == AppStep /\ UNCHANGED <<scenario, root, su, sd, pluginVars, watch, saves, uiVars>>

CoordinatorReports ==
    /\ scenario.errors /\ ReportErrors
    /\ UNCHANGED <<scenario, root, su, sd, pluginVars, watch, saves, uiVars>>

StartupStep ==
    \/ PublishStarting \/ StartForwarders \/ LoadFails \/ LoadForStartup \/ SettingsInvalid \/ NewBackend \/ StartBackend
    \/ BackendStarted \/ AttachStatus \/ Attach \/ AttachPublishes \/ SubscribePlugins \/ SubscribeStatus \/ Run

ShutdownStep ==
    \/ AwaitStartup \/ JoinCommands \/ JoinForwarders \/ AwaitSave \/ BackendClosed \/ ShutdownEnds
    \/ CloseBackend(CHOOSE k \in Closer : TRUE)

CmdStep(c) == Admit(c) \/ Read(c) \/ PublishEqual(c) \/ CallBackend(c) \/ RefreshBackend(c)
SaveStep(s) == SaveFile(s) \/ PublishSaved(s)
ConsumerStep == ListAgain \/ ConsumeSnapshots \/ PublishTaken \/ ConsumerStops
WatchStep == ConsumeStatus \/ SetStatusTaken \/ WatchStops
ForwardStep(m) == Forward(m) \/ ForwarderStops(m)

Work == ConsumerStep \/ (\E c \in Cmd : CmdStep(c)) \/ (\E s \in Saver : SaveStep(s)) \/ (\E m \in Module : ForwardStep(m))

Next ==
    \/ Direct \/ Backend \/ CoordinatorReports \/ Startup \/ StartupStep \/ Shutdown \/ ShutdownStep
    \/ \E p \in Plugin : PluginChanges(p) \/ \E c \in Cmd, kind \in {"enable", "disable", "config"} : Call(c, p, kind)
    \/ WatchStep \/ Tick \/ Work \/ \E s \in Saver : AdmitSave(s)

Spec == Init /\ [][Next]_vars

\* Startup, shutdown, the backend and the status consumer run, and so does one
\* of the commands, saves, forwarders and the list consumer while any can.
FairSpec ==
    /\ Spec
    /\ WF_vars(Backend) /\ WF_vars(StartupStep) /\ WF_vars(ShutdownStep) /\ WF_vars(WatchStep) /\ WF_vars(Work)

(***************************************************************************)
(* Properties.                                                             *)
(***************************************************************************)

\* No command is in the backend, and no consumer publishes its lists or its
\* status, once shutdown has come to the backend (PluginsAPI.close, shutdown).
CommandsBeforeClose ==
    sd \in {"close", "closing", "phase", "done"} =>
       /\ \A c \in Cmd : cmd[c].at = "idle"
       /\ ~lists.on /\ lists.taken = None /\ ~watch.on /\ watch.taken = None
       /\ \A m \in Module : fwd[m].at \in {"off", "done"}

Running == root.life = "running" /\ sd = "idle"

\* Nothing is on its way to the user interface.
Quiet ==
    /\ Running
    /\ \A m \in Module : src[m] = None
    /\ fwd["plugins"].pending = None
    /\ ~event /\ lists.next = None /\ lists.taken = None /\ \A c \in Cmd : cmd[c].at \in {"idle", "gate", "read"}
    /\ watch.seen = app.status /\ watch.taken = None
    /\ saves.gate = None

\* When nothing is on its way the user interface shows the plugins as they are,
\* with commands accepted, the status of the application and the saved settings,
\* although snapshots replace each other, telemetry is held back, and commands
\* and consumers publish at the same time.  The exception is a list that an
\* idempotent SetEnabled read before a change and published after it.
InterfaceFollows ==
    Quiet =>
       /\ Subscribed("plugins") => fwd["plugins"].sent = [list |-> store["plugins"], available |-> TRUE]
       /\ store["plugins"] = TheList \/ lists.equal
       /\ Subscribed("runtime") => fwd["runtime"].sent = [phase |-> "running", status |-> app.status]
       /\ Subscribed("settings") => fwd["settings"].sent = saves.file

\* After shutdown the runtime module shows the end, a backend that was built is
\* closed, and the saved settings were published ("a startup/shutdown race
\* cannot ... lose a constructed Application that requires closing").
ShutdownIsComplete ==
    root.life = "closed" =>
       /\ su \in {"idle", "done"}
       /\ app.run # "none" \/ root.built => app.life = "closed" /\ store["runtime"] = [phase |-> "closed", status |-> "closed"]
       /\ saves.loaded => store["settings"] = saves.file

\* Startup and shutdown end, in whatever state the other, commands, saves and
\* forwarders are.
LifecycleSettles == []<>(root.life \notin {"starting", "closing"})

=============================================================================
