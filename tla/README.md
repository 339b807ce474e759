# Verification of vrcft-go

TLA+ specifications of the concurrent core of vrcft-go: a desktop program that
starts face tracking plugins as child processes, merges the frames they send,
evaluates the parameters of the avatar that is worn in VRChat, and sends them
over OSC. The modules are checked with TLC on small instances; theorems about
them are proved with TLAPS for every value of the constants.

Contents: [the system](#the-system), [the modules](#the-modules),
[the runs](#the-runs), [the proofs](#the-proofs),
[observations](#observations), [not modelled](#not-modelled),
[the plan](#the-plan).

## The system

| Part | State it keeps | Operations | Talks to |
|---|---|---|---|
| Plugin manager (`internal/plugins/manager.go`) | lifecycle, settings of all plugins, supervisors, admission and persist tokens | Start, Close, Enable, Disable, Restart, UpdateConfig, SetActive, UpdateSubscription, Get, List | store of plugin settings, supervisors, event hub |
| Plugin supervisor (`supervisor.go`, `control.go`) | one goroutine: snapshot, desired control state, current session, stop owner, control queue, timers | commands, session, stop and control results, callbacks, timers | sessions, event hub |
| Plugin session (`session.go`, `process.go`, `handshake.go`) | process, connection, writer, pending controls, heartbeat | start and handshake, Control, Stop, reader, heartbeat watch | plugin process, tracking service, supervisor callbacks |
| Plugin runtime library (`pkg/pluginruntime`) | the plugin's end of a session: control state, queued events, latest frame and status | Run with driver, control reader, outbound writer | host session, driver |
| Steam Link plugin (`internal/steamlink`) | configuration, receiver, epoch and fence, stream of frames | control events, datagrams, ticks, retry of a port | runtime library, Steam Link (UDP) |
| Event hub (`events.go`) | publish queue, subscriber queues, sequence numbers | Publish, Subscribe, remove, dispatch | manager, coordinator, desktop API |
| Tracking service (`internal/tracking`) | generation, routing, source per plugin, selection, merged frame, summary, subscribers | SetGeneration, Submit, SetRouting, RemoveSource, Subscribe | sessions, coordinator, desktop API |
| Processing pipeline (`internal/processing`) | filter channels, last frame, last time | ProcessAt, Advance | coordinator |
| Coordinator and installer (`internal/application`) | current plan, suspension, block, latest frame, status | avatar change, merged frame, tick, OSC event, plugin event | planner, tracking, plugins, processing, OSC |
| Avatar planner (`internal/avatar`) | generation counter | Activate | coordinator |
| OSC controller, sender (`internal/osc`) | active VRChat service, worker, avatar, runtime (catalog and source), cache of sent values, mailbox of avatar changes | discovery, connection, refresh, send loop, Close | VRChat (UDP, HTTP, mDNS), coordinator |
| Application (`internal/application/app.go`) | state, status, cancellation | Start with rollback, Close | all of the above |
| Settings store (`internal/userconfig`) | the settings file | LoadOrCreate, Save | file system, desktop API |
| Desktop application (root package) | root lifecycle, backend, a snapshot per module, forwarders, diagnostics | startup, shutdown, plugin commands, Save | application, settings store, user interface |

What is hard here. A plugin's session, its stop, its controls and its timers
run in goroutines of their own and their results reach the supervisor in any
order, some after the session they belong to was replaced. A session has four
goroutines that share a pipe with a process that may hang or die at any point.
The manager saves settings and commands the supervisor in two steps, under two
tokens, in calls that can be cancelled. A plan is installed on several plugins,
each of which may fail or time out with the effect unknown, while frames of the
previous plan arrive and sends go on. VRChat comes, goes and restarts under a
sender that only sends changes. Startup, shutdown and commands of the user
overlap. Clocks go backwards, counters end, queues of bounded capacity are
coalesced, evicted or full, files are edited by others and machines crash.
`PROJECT.json` lists each hazard at its line with the properties that would
catch it.

What makes each part correct:

- supervisor: never two live sessions; the published state, process ID and
  metrics are those of the session it owns; every command is answered exactly
  once; an accepted configuration is never rolled back;
- session and runtime: no control is missed or reordered, each caller gets one
  answer, the shutdown handshake blames nobody wrongly, Stop ends, and a process
  that is left behind is reported;
- event hub: who follows the plugins ends up with their last state, and dropped
  log lines are counted;
- manager: no update of the settings is lost; commands reach a supervisor in
  the order in which they were saved; nothing outlives a failed Start or a Close;
- tracking and processing: the merged frame is the merge of the sources there
  are, its time and its sequence advance, no subscriber misses the last one, no
  filter blends two sources, and the last frame reaches the output;
- coordinator: what is sent belongs to the installed plan; uncertainty about a
  plugin blocks the output and is reported; the last avatar is installed;
- OSC: the connection follows the services there are, the newest avatar wins,
  and the receiver ends up with every value of the catalog;
- settings store: the file is never torn, never silently overwritten, and an
  invalid file is kept before it is repaired;
- application and desktop: nothing is left running, no command reaches a closed
  backend, shutdown ends, and the user interface shows what the backend has.

## The modules

| Module | Models | A step is |
|---|---|---|
| `PluginSupervisor` | `supervisor.go`, `control.go` | one iteration of the loop's select, or a step of a session, a Control call or a caller |
| `PluginPipe` | `internal/ipc` as both ends use it, and the process | |
| `PluginSession` | `session.go`, the writer of `control.go`, `handshake.go`, `process.go` | what a goroutine does between two channel operations or messages |
| `PluginRuntime` | `pkg/pluginruntime` | the same, in the plugin |
| `PluginLink` | composes the two over the pipe, with crashes of the plugin | |
| `SessionContract` | abstract: what the supervisor may rely on | |
| `PluginEvents` | `events.go`, SubscribePlugins, observePlugin, Reconcile | a select of the hub, or a step of a publisher or a follower |
| `PluginManager` | `manager.go` with its settings store and the contract of a supervisor | the part of a call between two channel operations or I/O calls |
| `TrackingService` | `internal/tracking` | one operation (they hold one mutex), or a receive of a subscriber |
| `Pipeline` | `internal/processing` | operators: a call of ProcessAt or Advance |
| `SteamLink` | `internal/steamlink` | one iteration of the driver's select; the receiver stamps, tags and hands over a datagram in steps of its own |
| `FrameLoop` | composes these three with the coordinator's frames, ticks and clock | |
| `Coordinator` | `coordinator.go`, `install.go`, the OSC runtime and mailbox, end of Start, Close | one call of the installer on a plugin or service; one iteration of the loop |
| `OSCSender` | `sender.go`, `runtime.go`, `bundle.go`, the source and the cache | one datagram of a pass of the send loop |
| `OSCController` | `controller.go`, `avatar_changes.go`, extends `OSCSender` | what a goroutine does between two queries, locks or channel operations |
| `SettingsStore` | `userconfig/store.go` | one file operation |
| `Application` | Start, rollback and Close of `application/app.go` | one call on a part |
| `DesktopApp` | the root package, extends `Application` | what a goroutine does between two locks, calls of the backend or channel operations |
| `PluginSupervisorProofs`, `PluginEventsProofs`, `PluginManagerProofs`, `CoordinatorProofs` | theorems about the module they are named after | |
| `PluginLinkProofs` | theorems about `PluginLink` with `PluginSession`, `PluginRuntime` and `PluginPipe`, and that they implement `SessionContract` | |
| `FrameLoopProofs` | theorems about `FrameLoop` with `TrackingService`, `Pipeline` and `SteamLink` | |
| `OSCControllerProofs` | theorems about `OSCController` with `OSCSender` | |
| `DesktopAppProofs` | theorems about `DesktopApp` with `Application`, and about `SettingsStore` | |
| `MC*` | instances for TLC: symmetry sets, sets of frames, scenarios | |

### PluginSupervisor

The loop's fields are variables of the same meaning: `snap` and `published`
(pluginSnapshot), `control` (controlState), `session`/`instance` (the session
owned and its identity), `intent` with `disableReply`, `restartReply` and
`closeReply` (the stop and who waits for it), `queue`/`inFlight` (control
queue), `timer` and `stable`. What is on its way to the loop is a set or a
sequence: `commands`, `critical`, `telemetry`, `ctlResults`, `watching`
(sessions whose result has not been handled) and `stopCalls`. `HandleCommand`
splits into one action for each kind of command as `handleCommand` does;
`HandleControlResult`, `HandleStopResult`, `HandleSessionResult`,
`HandleCritical`, `HandleTelemetry`, `RestartTimerFires` and `StableTimerFires`
are the other cases of the select. A session is its contract: it starts, gets
ready, may be unresponsive, fails or ends once.

Left out: RestartCount and the launch counter (shown, never read), the detail
of sessionOutcome beyond retryable and fatal, log and status callbacks, a nil
session factory. The module takes a session's Stop to return only once its
process is gone; `ErrKillTimeout` breaks that, and `PluginLink` shows when.

### PluginSession, PluginRuntime and their composition

`ses` is the session's own goroutine (`main` is its position), its phase,
cancellation and the causes it has collected; `pending` holds the controls that
came before the end of the handshake, `writer`, `reader` and `shut` the other
goroutines, with the two atomics of the acknowledgement in `shut`. `run`,
`host`, `slot`, `status` and `worker` are the runtime's. `told` is what a
successful Send has handed over: the ground truth for callers. Time is not
modelled: a timer may expire at any moment at which it is armed, so heartbeats
are only messages. Crashes end the process between any two steps and may leave
a truncated frame.

`PluginLink` implements `SessionContract` (property `ImplementsContract`): the
abstract stage is read off the session's phase, a call is waiting, told, ok or
refused, and `told` is the same. The contract says that each change is handed
over once and while its caller waits, that a success means the change is in
force, that a stopping session takes no new control, and that nothing is handed
over after the end.

### PluginEvents

`snap` is what a supervisor has stored, `loop` what it is about to publish,
`starter` what the end of Manager.Start still has to publish. `hub` has the
command queue and the position of the hub's goroutine in its round; a
subscriber is `pending` in the order of sequence numbers, with its log lines
and dropped counts. Coalescing, eviction at capacity and refusal at a full
command queue are as in `enqueue`. `list` is SubscribePlugins, `known`,
`source` and `recon` are the coordinator and the tracking sources it removes.

### PluginManager

`saved` is the file, `settings` is `m.settings`, `admission` and `persist` are
the free tokens, `pc`, `next` and `result` follow each call. `Begin`,
`AcquireAdmission`, `AcquirePersist`, `Update`, `SaveFails`/`SaveSucceeds`,
`Commit`, `Send`, `Admit` are persistAndCommand in the order of its steps, with
`CtxDone` and `GiveUp` where a context is watched. `Start*` are Start with its
rollback, `CloseBegin`, `FinishCloseStops` and `FinishClose` are Close. A
supervisor is a mailbox, a preference, a liveness bit and a stop in progress,
with the admission rules of `handleCommand`. The write of a settings file is
atomic here (temporary file and rename in `store.go`).

### TrackingService, Pipeline, SteamLink and FrameLoop

`sources`, `selection`, `latest`, `generation` and `routing` are the service's
fields; a frame's content is its receipt time, which the service makes unique.
`Reason` is the sequence of checks of Submit in its order (`CheckReason`); the
per-reason counters are one saturating `count` with the last reason.
`Recompute` is the merge and publication that ends every operation. Channels
of capacity one are sets of at most one value.

A channel of the pipeline keeps the sources whose values its filter has
blended (`mix`) instead of the value, so that blending two sources is visible.
`FrameLoop` joins the service, the coordinator's clock (`clock`, which is
corrected apart from the service's receipt times), the retained frame and the
plan in use. Under two of its usages the frames come from the Steam Link
driver: a datagram carries the epoch in which it really arrived beside the one
it was tagged with, so that input of before a transition is visible in a frame.

### Coordinator

`pc` walks through `install`: clear the OSC runtime, set the generation,
deactivate every plugin in order, update and activate the matching ones with
the compensation of a failed activation, install the catalog, publish the
status. A control that fails may or may not have had its effect
(`MaySetActive`, `MaySubscribe`). Frames carry the generation they were merged
in and the generation of the plugin that made them, so that a frame of an
older plan that leaks into the output is visible. `oscGen` and `oscSource` are
the catalog and the values that the sender reads from its own goroutine.

### OSCController and OSCSender

`disc` is the discovery goroutine with its candidate and probe, `conn` the
workers of connections (one each), `failed` and `refresh` the two channels
between them, `avatar` what VRChat wears, the messages on their way and what the
controller knows of them. `shown` is what each receiver was really sent: the
ground truth for `cache`. A value is a small integer; Quantize, the sign and the
bits of a binary parameter are computed as in the code, and an output is sent
when it differs by more than epsilon from the last one. `ghost` records an
avatar message that was lost and a forced refresh that was dropped or failed,
after which the code promises less.

### SettingsStore

A document is valid with a revision and a candidate, or invalid; its stamp
stands for the DocumentToken (hash, size, time and identity), so a rewritten
file has another stamp. `Copy`, `WriteTemporary`, `FinishTemporary`, `Recheck`,
`Replace` and `SyncDirectory` are the file operations in the order of Save and
replaceTemporary. `survivors` is the set of directories a crash may leave: every
one since the last time the directory was synced. The model assumes that
renames reach the disk in the order they were made; reading a file is one step.
`Edit` and `Crash` are the environment.

### Application and DesktopApp

`app` has the fields of Application and whether each part is up; `start` and
`close` are the callers, whose contexts may end at any moment. `root`, `su` and
`sd` are the root, its startup and its shutdown; `lists` with `cmd` is
PluginsAPI, `saves` is SettingsAPI, `watch` is the consumer of the status.
`store`, `src` and `fwd` are the snapshot, the channel and the forwarder of
each module. A plugin event is a flag here and a save one step, since
`PluginEvents` and `SettingsStore` have the detail.

## The runs

| Run | Properties | Shows |
|---|---|---|
| `supervisor_lifecycle` | SupervisorIsTruthful, PublishedIsCurrent, LaunchOnlyWhenWanted | lifecycle commands, failures, timers and late callbacks over three sessions: one live session, truthful state and metrics, launches only when wanted |
| `supervisor_controls` | ExactlyOneReply, SessionToldControl, ControlNeverRegresses, LifecycleAnswered | controls against each other, restarts and failures with a queue of one: answered exactly once, configuration never rolled back, the live session knows the desired state when no control is in flight, and lifecycle commands are answered although a Control call hangs |
| `session_link` | PublicationsFlow, NoMissedUpdate, HandshakeIsFair, EndIsAccounted, ImplementsContract, StopEnds | a session and its plugin with two controls, publications, a stop, crashes, hangs and every timer |
| `plugin_events` | ListCatchesUp, SourceOfLiveSession, LogsAccounted, HubServes | the hub at its capacity: the list catches up, no tracking source outlives its session once the coordinator was told of its end or replacement, log lines are delivered or counted, subscriptions are served |
| `manager` | StoreAndSupervisorsAgree, NoOrphanSupervisor, NobodyWaitsInVain | no lost update between plugins; supervisor order is save order; no supervisor outlives a failed Start or a Close; whoever waits for a token or for Close waits for somebody who can move |
| `stale_startup` | NoStaleStartup | expected violation, below |
| `tracking` | ServiceIsCurrent, ProcessingIsSound, DriverIsHonest, MergedSteps, FramesProcessed | merge, receipt times, sticky selection, subscribers of any pace, the pipeline under a clock that goes back, and the Steam Link driver |
| `install` | OutputFailsClosed, StraysAreContained, RestIsComplete, ClosingIsFinal | output of the installed plan only, failures contained and reported, nothing forgotten at rest, closing is final |
| `start_race` | ErrorsAreDegraded | expected violation, below |
| `settings_store` | FilesAreWhole, NoLostSave | crash safety, backup before repair, no lost save |
| `osc_service` | FailureOfActive, AvatarSettles, PassDelivers, ConnectionFollows | services that come and go, lost messages, failed sends, avatar changes and Close |
| `desktop` | NothingLeftRunning, CommandsBeforeClose, InterfaceFollows, ShutdownIsComplete, LifecycleSettles | Start and Close with timeouts, startup and shutdown at any time, commands, saves, consumers and forwarders |

Every property has a mutant: a variant of one definition, written just before
it in its module, that makes the mistake the property is there to catch.
Several properties are conjunctions of named parts, each with its own comment
in its module, and the type invariant is one of the parts.

### What the code does against its own words

- `stale_startup`: a configuration that is saved while a Restart stops the old
  session is refused by the supervisor, so the next session starts with the
  older one, although the comment at `supervisor.go:555-557` says that a
  durable configuration must not be lost to a later session.
- `start_race`: the last status update of Application.Start writes *running*
  over a degraded status that the coordinator recorded meanwhile, although the
  design wants a failed plan or a processing error to be degraded.

### Bounds

Each bound is a constant named in its module. Two callers and two or three
sessions are enough for a result to arrive one replacement late, and for one
caller's stop to be taken over by another's; queues have capacity one so that
they are full after one entry. The exception is the control queue of a
supervisor: with two commands, one in flight and one queued, nobody is left to
find it full. A third makes the state space too large for a run, so a command
that is refused at a full control queue is covered by `RepliesExact`,
`SessionTold` and `ControlForward` only, and LifecycleAnswered is not shown for
it. Two plugins are enough for an update of one to
be lost by a save of the other and for one of several controls to fail. Host
time, counters and generations end after one to three steps, so that their
ends are reached as well as what comes before. Two revisions and four files
let one caller save over another's save, an edit and a repair follow each
other, and reach the last revision. In `session_link` two activities (controls
or publications) meet one stop and any crash; in `plugin_events` one plugin has
two sessions for the coordinator, and one with two log lines for the list, over
queues of one entry.

Three runs start from one of several scenarios (`Usage`, `Config`, `Scenario`),
chosen in the initial state, since all activities at once are out of reach:
each scenario joins the activities that share state. `tracking` has two plugins
with any routing, refused frames with subscribers of the summary, subscribers
of merged frames, the coordinator's loop, and the driver with configurations
and with activity and subscriptions; `osc_service` has a queried catalog, an
external one with two services, with changes of avatar, and with a manual
target and a catalog that does not fit in one datagram; `desktop` has the
application alone, enabling, disabling with telemetry, saves with errors, and
two configuration commands.

Symmetry is used on callers, commands, plugins and avatars, and never in a run
with a liveness property. The deadlock check is off where callers make a
bounded number of calls and the system may come to rest, which is every run.

### Fairness

- `PluginSupervisor`: the loop handles what is there, and a session that was
  stopped ends (its graceful and its kill wait are bounded). Control calls,
  plugins and callers may stop for ever.
- `PluginLink`: the host's goroutines run and its timers expire. Nothing is
  assumed of the plugin, which may hang.
- `PluginEvents`: the hub's goroutine runs; strong fairness for a subscription
  or a removal that waits, since reflect.Select picks among the ready cases at
  random. Publishers never have to stop.
- `FrameLoop`: the loop takes a frame that is there and the ticker ticks.
- `OSCController`: every goroutine runs; strong fairness for those that wait
  for the runtime's RWMutex, which keeps new readers out once a writer waits,
  and for the end of discovery. VRChat owes nothing.
- `DesktopApp`: startup, shutdown, the backend and the consumer of the status
  run, and so does one of the commands, saves, forwarders and the list consumer
  while any can. A call's context need not end.

`PluginManager` and `Coordinator` are checked without fairness: what must
eventually happen there is stated as what holds when nobody can move
(NobodyWaitsInVain, RestIsComplete), since their liveness runs on two plugins
take longer than the ones here.

## The proofs

`PluginSupervisorProofs` shows for any number of commands, sessions, versions,
failures and queue capacity that `Spec => []SupervisorIsTruthful` (`Truthful`),
from its parts:

- `TypeCorrect`: `Spec => []TypeOK`.
- `SingleLive`: never two live sessions. SingleLiveSession is not inductive:
  a launch takes the next identity, so one has to know that this identity has
  not been used. `LiveInv` adds `FreshAbove`: no identity above `instance` has
  been launched. It needs only the types of three variables.
- `StateTruthful` and `MetricsFenced`: the published state agrees with session,
  timer and stop, and metrics are those of the current session. `StateInv`
  joins both and adds `CloseOwnsStop`: while a closing supervisor is not done,
  its stop belongs to Close. Without it a session that ends during Close could
  be taken for a failure and restarted.

For the settings store `DesktopAppProofs` shows, for any number of callers,
candidates, revisions and files, `StoreFilesWhole` (`[]FilesAreWhole`, from `StoreTypes`,
`StoreNeverTorn` and `RepairBackedUp`) and `SavesNotLost` (`NoLostSave`), all
from one inductive invariant `StoreInv`:

- `DirectoriesSound`: every directory that a crash may leave has synced, whole
  files, and the backup that its settings file needs. NeverTorn says this only
  of the present directory, which is not enough when a crash goes back.
- `Exclusive`: the lock lets one call in, so that a step concerns one call only.
- `SeenIsKnown`: a call that has read the file either still finds the file it
  has seen or finds one of another program; a file of the store cannot have
  taken its place.
- `TemporaryIsReady`: what is about to be renamed is synced, is the next
  document, and the invalid document it repairs is already in the backup.

The action property follows since only the call itself can take its step
from the last check to the rename (`OwnSteps`).

`PluginSupervisorProofs` also shows, of the controls:

- `PublicationsCurrent` (`[]PublishedIsCurrent`) and `LaunchesWanted`
  (`LaunchOnlyWhenWanted`) follow from the parts above.
- `RepliesExact` (`[]ExactlyOneReply`), from `ReplyInv`. That a command is in one
  place is not inductive: a stop that ends answers the commands it owns, so
  `StopsInv` says which commands may own a stop of each kind, `PlacesInv` that a
  command is in one place only and once, and `RepliesInv` that the commands
  which were sent and not answered are those found in some place.
- `SessionTold` (`[]SessionToldControl`), from `ControlInv`. `FlightInv`: the
  control in flight was computed from the control state that is still in force,
  which holds since a config or subscription that is accepted retires the one in
  flight. `CallsInv`: the identity of a Control call is never used twice, so a
  late result of a call that was given up cannot pass for that of the current
  one. `ToldInv`: what the live session knows is the state in force, or that of
  the control that succeeded and whose result the loop has not read yet.
- `ControlForward` (`ControlNeverRegresses`), an action property, from the same.

`PluginLinkProofs` shows, for any calls, controls, capacities, revisions of the
configuration and number of publications, that `Spec => []LinkInv` (`LinkIsInvariant`),
and from it:

- `PublicationsAlwaysFlow` (`[]PublicationsFlow`) and `NoUpdateEverMissed`
  (`[]NoMissedUpdate`). What the plugin has of one part of its state once it has
  read what is in flight is, by `Latest`, the value of the last message of that
  kind. `WriterKeeps` is what makes that the state handed over: the writer's own
  state is `told`, or, while it sends, `told` with the control it is sending.
- `HandshakeAlwaysFair` (`[]HandshakeIsFair`). `Handshake` follows the two ends
  through Hello, Initialize and Ready, so that these come first and once.
  `Acknowledged` is the shutdown: a plugin that knows of it was told by a host
  that has noted it (`Noted`), its acknowledgement is the last message and ends
  all that is read (`AckIsLast`, `AckEndsAll`). `Blamed` gives each violation its
  truncated message.
- `EndAlwaysAccounted` (`[]EndIsAccounted`), from `Ending`: at which positions the
  connection is closed, the process gone or its kill timeout recorded, and why
  the session failed. `Opening` says that nothing of a session that has not
  got ready has moved.
- `SessionImplementsContract` (`Spec => ImplementsContract`): each step of the
  session, of the runtime or of the environment is a step of `SessionContract`
  under the mapping of `Stage` and `Heard`, or a stutter. It needs `Calls`: which
  calls each goroutine still answers. The call in replay is the session's,
  pending and queued calls are in one place and once, and a call the writer holds
  after the end of the session was answered without it.

`PluginEventsProofs` shows, for any plugins, subscribers, capacities and numbers of
entries, that `Spec => []EventsInv` (`EventsAreInvariant`), and from it:

- `LogsAlwaysAccounted` (`[]LogsAccounted`). The owed entries of a subscriber are
  counted over the loop, the queue and what is pending (`OnTheWay`, `Held`), so
  the proof has to follow sums over sequences: one entry is moved, coalesced with
  another or removed, and no other changes.
- `ListAlwaysCatchesUp` (`[]ListCatchesUp`), from `ListKept`: when no news is on its
  way to the follower, what it has read of each plugin is right, the plugins it
  has still to read excepted.
- `SourceAlwaysOfLiveSession` (`[]SourceOfLiveSession`). `CoordinatorTold`: either
  the coordinator knows the present session of a plugin, or the present is on
  its way and nothing older comes after it (`Coming`, from the loop through the
  queue to what is pending), or Reconcile has read it and has still to apply it.
  `Past` says that nothing it holds is of a session to come, and that a source
  of another session than the one it knows, when that is the present one, is
  older than the first it was told of: the end of any later session removes its
  source, reported by itself or through the replacement (`changed` in Observed).
  An older one it cannot notice: when the first event it reads already tells of
  a running session, observePlugin leaves the source alone. The proof showed
  that the property has to exempt a plugin whose news the states of others
  pushed out of a full subscriber (`pushed`); TLC's instance has one plugin and does
  not reach this.

`PluginManagerProofs` shows `StoreAgrees`, `NoOrphans` and `NobodyWaits` for any
plugins, calls and revisions, from `ManagerInv`: `LifeInv` (what Start and Close
have done so far), `SupInv` (what the supervisors are while Start creates them,
while the manager is open and once Close stops them), `CallInv` (a call has what
the step it is at needs), `TokenInv` (a free token has no holder and a taken one
has one), `QueueInv` (a call that was sent is in the mailbox, or has a stop to
wait for), `SavedInv` (file and memory agree but for the call at its commit, and
what is about to be saved is the settings with that call's change only) and
`FollowInv` (a saved change that its supervisor does not have yet is one that a
call with the admission token is about to send). The last is why an acknowledged
change cannot be overtaken by an older one.

`CoordinatorProofs` shows:

- `OutputClosed` (`[]OutputFailsClosed`). `InGeneration`: frames are those of the
  generation they were merged in, and a new plan is newer than the generation of
  the tracking service until SetGeneration was called for it. `OutputInPlan`: the
  catalog is that of the plan in force or of the one about to be published.
- `StraysContained` (`[]StraysAreContained`), from `StrayInv`: the bookkeeping of
  an installation that is under way, plugin by plugin (`Disengaged`, `Waiting`,
  `Engaged`), and that of the plan in force (`Contained`). The property speaks of
  plans in force only, so nothing follows from it for the steps in between.
- `RestCompletes` (`[]RestIsComplete`), from `RestInv`: the last avatar change is
  in the mailbox, in the installation or in the status.
- `ClosingStays` (`ClosingIsFinal`), an action property, from `PhasesAgree`.

`FrameLoopProofs` shows, for any plugins, capabilities, subscribers, ports and
policies:

- `ServiceCurrent` (`[]ServiceIsCurrent`) and `MergedStepsHold` (`MergedSteps`).
  `ServiceInv` adds that nothing is there before the first generation, that a
  receipt is never at time 0, which a merged frame has for an absent group, and
  that times are distinct also among sources that are not selected.
- `DriverHonest` (`[]DriverIsHonest`). `FenceInv`: a datagram that was overtaken by
  a transition has the time of the fence at most, although it may get its time
  and its epoch on different sides of that transition. `ConfigInv`: the port that
  is bound and the port to retry know whether they are what was configured last.
  `StreamInv`: a frame in the slot is newer than what the service has of it.
- `ProcessingSound` (`[]ProcessingIsSound`), from `FlowInv` and `PipeInv`. A frame
  is refused for one reason because the frames on their way are ordered
  (`Follows`): the pipeline's last one, the one the loop retains, the one in the
  slot, the latest. `OfSources` ties them to the sources, without which a frame
  that is merged later could have an older time: a later frame of a source that
  was removed and came back, or was deselected and selected again, is still not
  older. Two frames may have the same number when the sequence has ended;
  `Follows` then says that nothing in the later one is older, which is what the
  pipeline checks.

`OSCControllerProofs` shows, for any services, connections, configurations,
catalogs, values and capacities, from one inductive invariant `OSCInv`:

- `FailuresAreOfActive` (`[]FailureOfActive`). `WorkerInv` adds that the worker of
  the connection in use is not cancelled while the controller runs, and that no
  connection is in use from the choice of candidates to the connection.
  `FreeConn` says that the last worker has returned by then also during Close,
  when WorkerInv says nothing.
- `AvatarIsRight` (`[]AvatarSettles`). `AvatarInv`: the last message on its way names
  VRChat's avatar, and an answer that is as old as the last accepted message is
  right or has a message behind it. The property speaks of an empty wire only,
  from which nothing follows for the next message.
- `PassesDeliver` (`PassDelivers`), an action property. `ProgressInv`: what lies
  behind a pass needs not be sent; a datagram leaves out nothing that is due
  before its last output (`DatagramIsPrefix`), whether outputs are bundled or go
  alone. `SentInv`: what the cache counts as sent was sent to the target in use,
  or a change of avatar is pending that will reset it (`PendingKept` follows that
  change through the message, the mailbox or the retries, the channel and the
  worker). `ClearedInv` is why a connection in query mode, which does not reset
  the cache, finds it empty.

`DesktopAppProofs` shows:

- `NothingStaysUp` (`[]NothingLeftRunning`), from `AppInv`: who has the token, what
  each stage of Start has brought up and each stage of Close taken down
  (`StartInv`, `CloseInv`), and who is left to close once a call was given up
  (`AbandonedInv`). DesktopApp only takes steps of Application (`AppNext`), so
  this is proved for the calls of the root as for any others.
- `CommandsEnd` (`[]CommandsBeforeClose`), from `RootInv` and `JoinInv`: what each
  stage of shutdown has awaited stays ended.
- `ShutdownCompletes` (`[]ShutdownIsComplete`), from `SaveInv` (who has the gate of
  the saves; what was saved is shown or will be) and `CallInv` (the root keeps
  the backend it built, and closes it by one call that nothing can abandon).
- `InterfaceAlwaysFollows` (`[]InterfaceFollows`). The property speaks of quiet
  moments only; its invariants say where the news is until then. `StageInv`: how
  far startup is, and what is accepted, subscribed and loaded by then.
  `WatchInv`: the status the consumer has seen is the one it holds, or the one in
  the runtime module. `ListInv`: unless an event waits, the present list is in the
  subscriber's slot, in the hands of the consumer, or published. It holds although
  commands refresh the same list, since they read and publish it under one lock;
  the list of an idempotent SetEnabled is not read under it, and is the exception
  (`lists.equal`). `ForwardInv`: the newest snapshot of a module is in the
  channel of its forwarder, or held back as telemetry, or was sent. `AnswerInv`:
  once startup reached the consumers, a list that was sent had commands accepted.
  The rest of the step is in `StoreMoves`: whatever happens leaves the modules
  alone, gives one of them a new snapshot (`Renews`), or is a forwarder's step.

The inductive invariants were checked by TLC on the instances of the runs before
they were proved.

### Assumptions

The only assumptions are the named ones on the constants, in the module that
declares them, and TLC evaluates them in every run. Beside types and finiteness
(of a session, the runtime and the hub: `CallAssumption`, `RequestAssumption`,
`ControlAssumption`, `StartupAssumption`, `PipeAssumption`, `RuntimeAssumption` and
`PluginAssumption`; capacities are positive and a caller is none of the internal
names):
a plugin is a positive number, so that 0 is nobody, and the largest merged
sequence is positive (`TrackingAssumption`); somebody may call Close
(`CloserAssumption`), nobody is a caller of Save (`DesktopAssumption`), `None` is
no status, list or snapshot (`NoneAssumption`), and the bounds of configurations
and telemetry are numbers (`BoundAssumption`).
`ConfigAssumption` says that the catalogs of all avatars of a configuration are
among the catalogs of the instance, `CatalogAssumption` that the bits of a
parameter have positive weights, as powers of two do.
`LoopAssumption` relates bounds of the model that the code does not have (frames
and ticks of the driver stay below the largest numbers of the service; they are
64 bits wide in the code) and says that the driver's plugin is fed by the driver
only, since a plugin has one session. That an active source is shown undiminished
needs a policy which does not hold values for less time than it has a source
active; the code does not enforce that, so it is a condition in ChannelsOfSource
and no assumption.

### What is model-checked only

The prover does not do liveness, ENABLED or induction over data: LifecycleAnswered,
StopEnds, HubServes, FramesProcessed, ConnectionFollows and LifecycleSettles are
checked by TLC only. Every invariant, action property and refinement that
a passing run checks has a theorem. The two expected violations are TLC's as well.

## Observations

Behaviour that the models show and that no run is spent on, since the code or
its documents do not rule it out, or a property exempts it by name:

- Supervisor and session: a frame that a dying plugin cut short is reported as
  a protocol violation of the plugin (`session.go`, readRuntime). After an end
  with an error the reader may submit a frame it had already read, when the
  source was removed (`session.go:707`; `Late` in PluginEvents); after a clean
  end it has been joined. The writer goroutine of replayPendingControls may
  outlive its session when the plugin never reads.
- Event hub: when a subscriber's pending events are full of states, the state of
  one plugin pushes out the oldest of another's, which may be the only news of
  a loss (`enqueue`). A plugin has two kinds of such events pending at most, so
  that the default capacity of 64 allows this with more than 32 plugins only.
- Tracking: receipt times run ahead of a wall clock that stands still, and the
  coordinator corrects its clock apart from that, so ProcessAt may refuse a
  frame as newer than now; the output is cleared until a tick catches up. It
  never refuses a frame for its revision, generation or a filter's time
  (ProcessingIsSound, FramesProcessed).
- Steam Link: the runtime tags a frame with its own generation, which may be
  newer than the one the driver has handled; a datagram stamped at the very
  clock reading of the fence passes; a port that cannot be bound while another
  one is in use is not tried again.
- Coordinator: after Close gave up waiting, the status of an install may
  overwrite the RuntimeError that Close recorded.
- OSC: a VRChat that was lost more than five minutes after its announcement is
  found again only when it is announced again (`controller.go:417`). A forced
  refresh that is dropped at a full channel or fails is not repeated as forced.
  A probe may set the target after Close has cleared it.
- Desktop: SetEnabled without a change reads the list outside the lock and may
  publish an older one (`plugins_api.go:122`). When Close gives up while Start
  sees the request to close, the parts stay until Close is called again. A
  parent context that ends without shutdown leaves the root starting.
- Settings: after another program has edited the file, every Save of the user
  interface conflicts and its reload reads the copy in memory, so that saving
  works again only after a restart. Plugin settings of another version are read
  as empty and replaced by the next Save (`store.go`).

## Not modelled

- Generated parameter tables, filters and expressions in floating point, and
  which parameters are driven at the moment: pure functions on data without
  state between two frames.
- Byte formats (OSC packets, JSON, length-prefixed frames), the validation of
  messages, settings and manifests, HTTP and mDNS, the search for plugins and
  avatar files: sequential parsing and I/O.
- The diagnostics log: no step reads it. Shutdown waits for its writer at the
  very end, so LifecycleSettles takes for granted that a write to disk ends.
- The frontend: it keeps copies of what the desktop API reports, ordered by
  revision. DesktopApp ends where an event leaves for it.
- Of the modelled parts: log entries of a session and of the runtime, frame
  rates, a running plugin that turns inactive in the view of the hub (to the
  coordinator the same as a loss), statistics of the OSC service, the rollback of its listeners in Start,
  host information, and the wording of errors and problems.
- Development tools: not part of the running system.

Left out of a composition: the supervisor with its sessions in one state space
(PluginLink implements the contract instead), the manager with the detailed
supervisors, and DesktopApp with the detailed hub and store. Their joint state
spaces are out of TLC's reach; each side is checked against what the other
promises.

## The plan

1. The contract of a supervisor that PluginManager uses as a module of its own,
   with PluginSupervisor shown to implement it.
2. The frontend's modules, which apply late answers by revision, behind the
   forwarders of DesktopApp.
