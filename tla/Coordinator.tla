------------------------------ MODULE Coordinator ------------------------------
(***************************************************************************)
(* The coordinator (internal/application): one goroutine that installs the *)
(* plan of the latest avatar and publishes processed frames, between       *)
(*   - the OSC controller, which offers avatar changes in a mailbox of     *)
(*     capacity one and sends the published values of the installed        *)
(*     catalog from its own goroutine (internal/osc/runtime.go);           *)
(*   - the tracking service, whose generation fences the frames of the     *)
(*     plugins (TrackingService has the details);                          *)
(*   - the plugins, whose controls are calls that fail or time out;        *)
(*   - Application.Start and Close, which write the same status.           *)
(*                                                                         *)
(* Installing a plan takes many steps, during which frames, sends, avatar  *)
(* changes and Close go on.  Processing a frame is one step: the OSC       *)
(* runtime without a source sends nothing in between.  Values are          *)
(* represented by the generation of the frame they come from.              *)
(***************************************************************************)
EXTENDS Integers, FiniteSets

CONSTANTS
    Plugin,         \* plugin IDs, integers so that they are ordered
    Avatar,         \* avatar IDs
    MaxGeneration   \* largest generation of the planner (2^64-1 in the code)

ASSUME CoordinatorAssumption ==
    /\ Plugin \subseteq Nat /\ IsFiniteSet(Plugin)
    /\ MaxGeneration \in Nat \ {0}

NoAvatar   == "none"
Generation == 0 .. MaxGeneration

\* A plan: failed, ready with an empty catalog, or ready; matches are the
\* plugins whose capabilities it subscribes to.  NoPlan is the nil plan.
Plan   == [gen : 1 .. MaxGeneration, kind : {"failed", "empty", "ready"}, matches : SUBSET Plugin]
NoPlan == [gen |-> 0, kind |-> "none", matches |-> {}]

\* MergedFrame: the generation it is merged in and that of its content.
Frame == [gen : Generation, content : Generation]

Operations == {"deactivate", "subscription", "activate"}
Failures   == SUBSET (Plugin \X Operations)

Lifecycles == {"starting", "running", "degraded", "closing", "closed"}

\* Status: planErr and runtimeErr tell whether there is a message.
Status == [lifecycle : Lifecycles, avatar : Avatar \cup {NoAvatar}, gen : Generation,
           exhausted : BOOLEAN, failures : Failures, planErr : BOOLEAN, runtimeErr : BOOLEAN]

\* installOutcome and the avatar it is for
Outcome == [avatar : Avatar \cup {NoAvatar}, plan : Plan \cup {NoPlan}, failures : Failures,
            blocked : BOOLEAN, runtimeErr : BOOLEAN]

VARIABLES
    \* the OSC controller
    mailbox,     \* avatar changes, at most one
    oscRunning,
    oscGen,      \* sendRuntime.generation; 0 without a catalog
    oscSource,   \* sendRuntime.source; 0 without a source
    oscEvent,    \* an error event waits for the coordinator
    \* the tracking service
    trackGen,
    merged,      \* channel of merged frames, at most one
    \* the plugins, as their supervisors hold them
    active,
    subscribed,  \* generation of the subscription
    \* the coordinator
    allocated,   \* Planner.generation
    pc,
    current, suspended, blocked, latest,
    outcome, todo,
    failedDeactivation,
    \* the application
    status,
    appState,    \* Application.lifecycle
    cancelled,   \* runCtx is done
    newest       \* the last avatar change

oscVars    == <<mailbox, oscRunning, oscEvent, newest>>
outputVars == <<oscGen, oscSource>>
trackVars  == <<trackGen, merged>>
pluginVars == <<active, subscribed>>
planVars   == <<current, suspended, blocked, latest>>
installVars == <<outcome, todo, failedDeactivation>>
appVars    == <<appState, cancelled>>
vars == <<oscVars, outputVars, trackVars, pluginVars, allocated, pc, planVars, installVars,
          status, appVars>>

NoOutcome == [avatar |-> NoAvatar, plan |-> NoPlan, failures |-> {}, blocked |-> FALSE,
              runtimeErr |-> FALSE]

\* The application is in Start: the coordinator is ready and OSC has started.
Init ==
    /\ mailbox = {} /\ oscRunning = TRUE /\ oscEvent = FALSE /\ newest = NoAvatar
    /\ oscGen = 0 /\ oscSource = 0
    /\ trackGen = 0 /\ merged = {}
    /\ active = [p \in Plugin |-> FALSE] /\ subscribed = [p \in Plugin |-> 0]
    /\ allocated = 0 /\ pc = "idle"
    /\ current = NoPlan /\ suspended = FALSE /\ blocked = FALSE /\ latest = {}
    /\ outcome = NoOutcome /\ todo = {} /\ failedDeactivation = {}
    /\ status = [lifecycle |-> "starting", avatar |-> NoAvatar, gen |-> 0, exhausted |-> FALSE,
                 failures |-> {}, planErr |-> FALSE, runtimeErr |-> FALSE]
    /\ appState = "starting" /\ cancelled = FALSE

-----------------------------------------------------------------------------
(* Status. *)

Failing(s) == s.exhausted \/ s.planErr \/ s.runtimeErr \/ s.failures # {}

\* lifecycleForStatus
LifecycleOfErrors(s) == [s EXCEPT !.lifecycle = IF Failing(s) THEN "degraded" ELSE "running"]

WithLifecycle(s) ==
    IF s.lifecycle \in {"closing", "closed"} THEN s
    ELSE [s EXCEPT !.lifecycle = IF Failing(s) THEN "degraded" ELSE "running"]

-----------------------------------------------------------------------------
(* The OSC controller. *)

AvatarChangeDropped(a) ==
    /\ oscRunning
    /\ mailbox' = IF mailbox = {} THEN {a} ELSE mailbox
    /\ newest' = a
    /\ UNCHANGED <<oscRunning, oscEvent, outputVars, trackVars, pluginVars, allocated, pc, planVars,
                   installVars, status, appVars>>

\* acceptAvatarChange: a new change replaces one that was not received yet.
AvatarChange(a) ==
    /\ oscRunning
    /\ mailbox' = {a}
    /\ newest' = a
    /\ UNCHANGED <<oscRunning, oscEvent, outputVars, trackVars, pluginVars, allocated, pc, planVars,
                   installVars, status, appVars>>

\* A send under the read lock of the runtime fails; a send that succeeds
\* changes nothing here.
SendFails ==
    /\ oscRunning
    /\ oscSource # 0
    /\ oscEvent' = TRUE
    /\ UNCHANGED <<mailbox, oscRunning, newest, outputVars, trackVars, pluginVars, allocated, pc,
                   planVars, installVars, status, appVars>>

\* sendRuntime.clear and installExternal
Clear == oscGen' = 0 /\ oscSource' = 0

Install(g) == oscGen' = g /\ oscSource' = 0

-----------------------------------------------------------------------------
(* Plugins and tracking. *)

\* Submit of a frame that carries generation g; another generation is rejected.
Fenced(g) == g = trackGen

\* A plugin submits a frame of its subscription, or a late one of an earlier.
Submit(p, g) ==
    /\ g <= subscribed[p]
    /\ trackGen # 0
    /\ Fenced(g)
    /\ merged' = {[gen |-> trackGen, content |-> g]}
    /\ UNCHANGED <<oscVars, outputVars, trackGen, pluginVars, allocated, pc, planVars, installVars,
                   status, appVars>>

-----------------------------------------------------------------------------
(* Installing a plan. *)

Least(P) == CHOOSE p \in P : \A q \in P : p <= q

Step(from, to) == pc = from /\ pc' = to

\* The planner's counter has a generation left.
NeverExhausted == TRUE
GenerationLeft == allocated < MaxGeneration

\* Planner.Activate for the avatar in the mailbox.  Which plan comes out
\* depends on files.  When the generations are used up there is none.
Activate ==
    /\ Step("idle", "clear")
    /\ ~cancelled
    /\ \E a \in mailbox :
         \/ /\ GenerationLeft
            /\ allocated' = allocated + 1
            /\ \E kind \in {"failed", "empty", "ready"}, matches \in SUBSET Plugin :
                 /\ kind # "ready" => matches = {}
                 /\ outcome' = [NoOutcome EXCEPT !.avatar = a,
                                !.plan = [gen |-> allocated + 1, kind |-> kind, matches |-> matches]]
         \/ /\ ~GenerationLeft
            /\ outcome' = [NoOutcome EXCEPT !.avatar = a]
            /\ UNCHANGED allocated
    /\ mailbox' = {}
    /\ UNCHANGED <<oscRunning, oscEvent, newest, outputVars, trackVars, pluginVars, planVars, todo,
                   failedDeactivation, status, appVars>>

\* The run context ended while the plan was made.
Abandon ==
    /\ Step("clear", "idle")
    /\ cancelled
    /\ outcome' = NoOutcome
    /\ UNCHANGED <<oscVars, outputVars, trackVars, pluginVars, allocated, planVars, todo,
                   failedDeactivation, status, appVars>>

ClearRuntime ==
    /\ Step("clear", "generation")
    /\ Clear
    /\ todo' = Plugin
    /\ failedDeactivation' = {}
    /\ UNCHANGED <<oscVars, trackVars, pluginVars, allocated, planVars, outcome, status, appVars>>

\* tracking.SetGeneration, which publishes an empty merged frame.
SetGeneration ==
    /\ Step("generation", "deactivate")
    /\ LET g == outcome.plan.gen
       IN  IF g > trackGen
           THEN trackGen' = g /\ merged' = {[gen |-> g, content |-> g]} /\ UNCHANGED outcome
           ELSE /\ outcome' = [outcome EXCEPT !.runtimeErr = g # 0 /\ g < trackGen]
                /\ UNCHANGED trackVars
    /\ UNCHANGED <<oscVars, outputVars, pluginVars, allocated, planVars, todo, failedDeactivation,
                   status, appVars>>

\* What a plugin control that fails leaves behind: it may have taken effect,
\* since the reply can be lost or late.
Failed(p, op) == outcome' = [outcome EXCEPT !.failures = @ \cup {<<p, op>>}]

\* A call with an ended context has no effect.
MaySetActive(p, on) == active' \in IF cancelled THEN {active} ELSE {active, [active EXCEPT ![p] = on]}

MaySubscribe(p) ==
    subscribed' \in IF cancelled THEN {subscribed}
                    ELSE {subscribed, [subscribed EXCEPT ![p] = outcome.plan.gen]}

\* deactivateAll, in the order of the plugin IDs.
Deactivate ==
    /\ pc = "deactivate" /\ todo # {}
    /\ LET p == Least(todo)
       IN  /\ todo' = todo \ {p}
           /\ \/ /\ ~cancelled
                 /\ active' = [active EXCEPT ![p] = FALSE]
                 /\ UNCHANGED <<outcome, failedDeactivation>>
              \/ /\ MaySetActive(p, FALSE)
                 /\ failedDeactivation' = failedDeactivation \cup {p}
                 /\ Failed(p, "deactivate")
    /\ UNCHANGED <<oscVars, outputVars, trackVars, subscribed, allocated, pc, planVars, status, appVars>>

\* The plugins that the plan subscribes to, without those that were not
\* deactivated.
Subscribers == outcome.plan.matches \ failedDeactivation

Deactivated ==
    /\ pc = "deactivate" /\ todo = {}
    /\ IF outcome.runtimeErr \/ outcome.plan.kind # "ready"
       THEN pc' = "publish" /\ UNCHANGED todo
       ELSE pc' = "subscribe" /\ todo' = Subscribers
    /\ UNCHANGED <<oscVars, outputVars, trackVars, pluginVars, allocated, planVars, outcome,
                   failedDeactivation, status, appVars>>

UpdateSubscription ==
    /\ pc = "subscribe" /\ todo # {}
    /\ LET p == Least(todo)
       IN  \/ /\ ~cancelled
              /\ subscribed' = [subscribed EXCEPT ![p] = outcome.plan.gen]
              /\ pc' = "activate"
              /\ UNCHANGED <<outcome, todo>>
           \/ /\ MaySubscribe(p)
              /\ Failed(p, "subscription")
              /\ todo' = todo \ {p}
              /\ UNCHANGED pc
    /\ UNCHANGED <<oscVars, outputVars, trackVars, active, allocated, planVars, failedDeactivation,
                   status, appVars>>

SetActive ==
    /\ pc = "activate"
    /\ LET p == Least(todo)
       IN  \/ /\ ~cancelled
              /\ active' = [active EXCEPT ![p] = TRUE]
              /\ pc' = "subscribe"
              /\ todo' = todo \ {p}
              /\ UNCHANGED outcome
           \/ /\ MaySetActive(p, TRUE)
              /\ Failed(p, "activate")
              /\ pc' = "compensate"
              /\ UNCHANGED todo
    /\ UNCHANGED <<oscVars, outputVars, trackVars, subscribed, allocated, planVars,
                   failedDeactivation, status, appVars>>

\* SetActive(false) after a failed activation; when it fails too the plugin may
\* be active, and no output is allowed for this plan.
CompensateQuietly ==
    /\ Step("compensate", "subscribe")
    /\ LET p == Least(todo)
       IN  /\ todo' = todo \ {p}
           /\ MaySetActive(p, FALSE)
           /\ UNCHANGED outcome
    /\ UNCHANGED <<oscVars, outputVars, trackVars, subscribed, allocated, planVars,
                   failedDeactivation, status, appVars>>

Compensate ==
    /\ Step("compensate", "subscribe")
    /\ LET p == Least(todo)
       IN  /\ todo' = todo \ {p}
           /\ \/ /\ ~cancelled
                 /\ active' = [active EXCEPT ![p] = FALSE]
                 /\ UNCHANGED outcome
              \/ /\ MaySetActive(p, FALSE)
                 /\ outcome' = [outcome EXCEPT !.failures = @ \cup {<<p, "deactivate">>},
                                               !.blocked = TRUE]
    /\ UNCHANGED <<oscVars, outputVars, trackVars, subscribed, allocated, planVars,
                   failedDeactivation, status, appVars>>

InstallCatalog ==
    /\ Step("subscribe", "publish")
    /\ todo = {}
    /\ IF outcome.blocked THEN UNCHANGED outputVars ELSE Install(outcome.plan.gen)
    /\ UNCHANGED <<oscVars, trackVars, pluginVars, allocated, planVars, installVars, status, appVars>>

\* The end of activate and publishInstallStatus.
PublishInstallStatus ==
    /\ Step("publish", "idle")
    /\ current' = outcome.plan
    /\ blocked' = outcome.blocked
    /\ suspended' = (~outcome.blocked /\ outcome.runtimeErr /\ outcome.plan.kind = "ready")
    /\ status' = WithLifecycle([status EXCEPT
                    !.avatar = outcome.avatar, !.gen = outcome.plan.gen,
                    !.exhausted = outcome.plan = NoPlan, !.failures = outcome.failures,
                    !.planErr = outcome.plan.kind \in {"none", "failed"},
                    !.runtimeErr = outcome.runtimeErr])
    /\ outcome' = NoOutcome /\ todo' = {} /\ failedDeactivation' = {}
    /\ UNCHANGED <<oscVars, outputVars, trackVars, pluginVars, allocated, latest, appVars>>

-----------------------------------------------------------------------------
(* Processing a frame. *)

\* hasUsablePlan
UsableAtAnyGeneration(f) == ~blocked /\ current.kind = "ready"
Usable(f) == ~blocked /\ current.kind = "ready" /\ f.gen = current.gen

\* failRuntime, when the pipeline refuses the frame.
FailRuntime ==
    /\ Clear
    /\ suspended' = TRUE
    /\ status' = WithLifecycle([status EXCEPT !.runtimeErr = TRUE])

\* Publish, after installing the catalog again if the output was suspended.
Publish(f) ==
    LET g == IF suspended THEN current.gen ELSE oscGen
    IN  /\ g = current.gen
        /\ oscGen' = g
        /\ oscSource' = f.content
        /\ suspended' = FALSE
        /\ status' = WithLifecycle([status EXCEPT !.runtimeErr = FALSE])

Process(f) ==
    /\ \/ ~cancelled /\ Usable(f) /\ (FailRuntime \/ Publish(f))
       \/ (cancelled \/ ~Usable(f)) /\ UNCHANGED <<outputVars, suspended, status>>
    /\ UNCHANGED <<oscVars, trackGen, pluginVars, allocated, pc, current, blocked, installVars, appVars>>

ReceiveMerged ==
    /\ pc = "idle"
    /\ latest' = merged /\ merged' = {}
    /\ \E f \in merged : Process(f)

Tick ==
    /\ pc = "idle"
    /\ \E f \in latest : Process(f)
    /\ UNCHANGED <<latest, merged>>

\* observeOSC of an error event.
ObserveOSC ==
    /\ pc = "idle"
    /\ oscEvent /\ oscEvent' = FALSE
    /\ status' = WithLifecycle([status EXCEPT !.runtimeErr = TRUE])
    /\ UNCHANGED <<mailbox, oscRunning, newest, outputVars, trackVars, pluginVars, allocated, pc,
                   planVars, installVars, appVars>>

\* The loop returns and the runner clears the runtime.
Stop ==
    /\ Step("idle", "done")
    /\ cancelled
    /\ Clear
    /\ UNCHANGED <<oscVars, trackVars, pluginVars, allocated, planVars, installVars, status, appVars>>

-----------------------------------------------------------------------------
(* Application.Start and Close. *)

rest == <<outputVars, trackVars, pluginVars, allocated, pc, planVars, installVars>>

\* The last step of Start.
StartReturns ==
    /\ appState = "starting"
    /\ appState' = "running"
    /\ status' = [status EXCEPT !.lifecycle = "running", !.runtimeErr = FALSE]
    /\ UNCHANGED <<oscVars, rest, cancelled>>

Close ==
    /\ appState \in {"starting", "running"}
    /\ appState' = "closing"
    /\ status' = [status EXCEPT !.lifecycle = "closing"]
    /\ UNCHANGED <<oscVars, rest, cancelled>>

\* finishClose: OSC first, which closes its mailbox, then the run context.
CloseOSC ==
    /\ appState = "closing" /\ oscRunning
    /\ oscRunning' = FALSE
    /\ UNCHANGED <<mailbox, oscEvent, newest, rest, status, appVars>>

Cancel ==
    /\ appState = "closing" /\ ~oscRunning /\ ~cancelled
    /\ cancelled' = TRUE
    /\ UNCHANGED <<oscVars, rest, status, appState>>

\* Join returns; it fails when the context of Close ends first.
FinishClose ==
    /\ appState = "closing" /\ cancelled
    /\ \E joined \in BOOLEAN :
         /\ joined => pc = "done"
         /\ status' = [status EXCEPT !.lifecycle = "closed", !.runtimeErr = @ \/ ~joined]
    /\ appState' = "closed"
    /\ UNCHANGED <<oscVars, rest, cancelled>>

-----------------------------------------------------------------------------
Installing ==
    \/ Activate \/ Abandon \/ ClearRuntime \/ SetGeneration \/ Deactivate \/ Deactivated
    \/ UpdateSubscription \/ SetActive \/ Compensate \/ InstallCatalog \/ PublishInstallStatus

Processing == ReceiveMerged \/ Tick \/ ObserveOSC

Environment ==
    \/ \E a \in Avatar : AvatarChange(a)
    \/ SendFails
    \/ \E p \in Plugin, g \in 1 .. MaxGeneration : Submit(p, g)

Lifecycle == StartReturns \/ Close \/ CloseOSC \/ Cancel \/ FinishClose

Next == Installing \/ Processing \/ Stop \/ Environment \/ Lifecycle

Spec == Init /\ [][Next]_vars

-----------------------------------------------------------------------------
(* Properties. *)

TypeOK ==
    /\ mailbox \subseteq Avatar /\ oscRunning \in BOOLEAN /\ oscEvent \in BOOLEAN
    /\ newest \in Avatar \cup {NoAvatar}
    /\ oscGen \in Generation /\ oscSource \in Generation
    /\ trackGen \in Generation /\ merged \subseteq Frame /\ latest \subseteq Frame
    /\ active \in [Plugin -> BOOLEAN] /\ subscribed \in [Plugin -> Generation]
    /\ allocated \in Generation
    /\ pc \in {"idle", "clear", "generation", "deactivate", "subscribe", "activate", "compensate",
               "publish", "done"}
    /\ current \in Plan \cup {NoPlan} /\ suspended \in BOOLEAN /\ blocked \in BOOLEAN
    /\ outcome \in Outcome /\ todo \subseteq Plugin /\ failedDeactivation \subseteq Plugin
    /\ status \in Status
    /\ appState \in {"starting", "running", "closing", "closed"} /\ cancelled \in BOOLEAN

\* What OSC can send are values of the installed, ready plan: of its generation,
\* under its catalog, with the tracking service in that generation, and only
\* while no other plan is being installed.
OutputOfInstalledPlan ==
    oscSource # 0 =>
        /\ pc \in {"idle", "clear"}
        /\ oscSource = current.gen /\ oscGen = current.gen /\ trackGen = current.gen
        /\ current.kind = "ready"

\* A catalog is there only for a plan whose plugins are all under control: not
\* while output is blocked or suspended, and not after the coordinator stopped.
CatalogFailsClosed ==
    /\ oscGen # 0 => oscGen = trackGen /\ pc \in {"idle", "clear", "publish"}
    /\ pc = "idle" /\ (blocked \/ suspended \/ current.kind # "ready") => oscGen = 0

\* OSC is given values and a catalog only of what is installed as a whole.
OutputFailsClosed == TypeOK /\ OutputOfInstalledPlan /\ CatalogFailsClosed

\* A plugin that is active although the installed plan does not want it, or
\* with the subscription of an older plan, is reported in the status.
StrayPluginsReported ==
    pc = "idle" =>
        \A p \in Plugin :
            active[p] /\ ~(p \in current.matches /\ subscribed[p] = current.gen)
                => \E op \in Operations : <<p, op>> \in status.failures

\* There is no catalog while a plugin whose activation failed may be active: the
\* compensation was confirmed, or output is blocked until the next plan.
BlockedWhenUncertain ==
    pc = "idle" /\ oscGen # 0 =>
        \A p \in Plugin : active[p] => <<p, "activate">> \notin status.failures

\* Plugins that escaped the control of the installer are reported, and stop the
\* output when that is not known for sure.
StraysAreContained == StrayPluginsReported /\ BlockedWhenUncertain

\* Once Close has begun no update of the coordinator or of Start takes the
\* status back, even one that comes after Close gave up waiting.
ClosingIsFinal ==
    [][/\ status.lifecycle = "closing" => status'.lifecycle \in {"closing", "closed"}
       /\ status.lifecycle = "closed" => status'.lifecycle = "closed"]_vars

\* What comes to rest is complete: the plan of the last avatar change is
\* installed, whatever was coalesced, and a coordinator that is done leaves no
\* catalog and no source behind, also one that Close gave up waiting for.
RestIsComplete ==
    /\ pc = "idle" /\ mailbox = {} /\ oscRunning /\ newest # NoAvatar => status.avatar = newest
    /\ pc = "done" => oscGen = 0 /\ oscSource = 0

\* While an error is recorded the application reports itself degraded.
ErrorsAreDegraded == Failing(status) => status.lifecycle # "running"

=============================================================================
