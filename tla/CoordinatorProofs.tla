--------------------------- MODULE CoordinatorProofs ---------------------------
(***************************************************************************)
(* Proofs about Coordinator, for any set of plugins and avatars and any    *)
(* last generation.                                                        *)
(***************************************************************************)
EXTENDS Coordinator, WellFoundedInduction, TLAPS

\* The installed plan is in force, also while the next one is being made.
Settled == {"idle", "clear"}
\* The plugins of the new plan are subscribed and activated.
Enlisting == {"subscribe", "activate", "compensate"}

\* A plugin is at hand while it is activated.
TodoLeft == pc \in {"activate", "compensate"} => todo # {}

TypeInv == TypeOK /\ TodoLeft

-----------------------------------------------------------------------------
(* Operators. *)

\* The plugins that are left have a first one.
LEMMA LeastIsMember ==
    ASSUME NEW P \in SUBSET Nat, P # {} PROVE Least(P) \in P
<1> DEFINE R == OpToRel(<, Nat)
<1>1. IsWellFoundedOn(R, Nat)
  BY NatLessThanWellFounded
<1>2. \A x, y \in P : <<y, x>> \in R <=> y < x
  BY DEF OpToRel
<1> HIDE DEF R
<1>3. PICK x \in P : \A y \in P : <<y, x>> \notin R
  BY <1>1, WFMin
<1>4. ASSUME NEW y \in P PROVE x <= y
  <2>1. ~ (y < x)
    BY <1>2, <1>3
  <2> QED BY <2>1
<1> QED BY <1>4 DEF Least

LEMMA FirstOfTodo ==
    ASSUME TypeOK, todo # {} PROVE Least(todo) \in todo /\ Least(todo) \in Plugin
  BY LeastIsMember, CoordinatorAssumption DEF TypeOK

\* Deriving the lifecycle changes nothing else, and closing is kept.
LEMMA LifecycleOnly ==
    ASSUME NEW s \in Status
    PROVE  /\ WithLifecycle(s) \in Status
           /\ WithLifecycle(s).avatar = s.avatar /\ WithLifecycle(s).failures = s.failures
           /\ s.lifecycle \in {"closing", "closed"} => WithLifecycle(s).lifecycle = s.lifecycle
           /\ s.lifecycle \notin {"closing", "closed"} => WithLifecycle(s).lifecycle \notin {"closing", "closed"}
  BY DEF WithLifecycle, Status, Lifecycles

LEMMA PlanFields ==
    /\ NoPlan.gen = 0 /\ NoPlan.kind = "none" /\ NoPlan.matches = {}
    /\ NoOutcome \in Outcome /\ NoOutcome.plan = NoPlan /\ NoOutcome.failures = {}
    /\ NoOutcome.avatar = NoAvatar /\ NoOutcome.blocked = FALSE /\ NoOutcome.runtimeErr = FALSE
    /\ \A p \in Plan \cup {NoPlan} :
          /\ p.gen \in Generation /\ p.matches \subseteq Plugin
          /\ p.gen = 0 <=> p = NoPlan
          /\ p.kind = "ready" => p.gen # 0
  BY CoordinatorAssumption DEF NoPlan, NoOutcome, Outcome, Plan, Failures, Generation

LEMMA FailureType ==
    ASSUME NEW o \in Outcome, NEW p \in Plugin, NEW op \in Operations
    PROVE  /\ [o EXCEPT !.failures = @ \cup {<<p, op>>}] \in Outcome
           /\ [o EXCEPT !.failures = @ \cup {<<p, op>>}, !.blocked = TRUE] \in Outcome
<1>1. o.failures \cup {<<p, op>>} \in Failures
  BY DEF Outcome, Failures
<1> QED BY <1>1 DEF Outcome

\* What a new plan starts with.
LEMMA Activated ==
    ASSUME Activate
    PROVE  /\ pc = "idle" /\ pc' = "clear" /\ ~cancelled /\ mailbox' = {}
           /\ UNCHANGED <<oscRunning, newest, outputVars, trackVars, pluginVars, planVars, todo, failedDeactivation, status, appVars>>
           /\ outcome'.avatar \in mailbox /\ outcome'.failures = {}
           /\ ~outcome'.runtimeErr /\ ~outcome'.blocked
           /\ \/ allocated' = allocated + 1 /\ outcome'.plan.gen = allocated + 1
              \/ allocated' = allocated /\ outcome'.plan.gen = 0
<1>1. ASSUME NEW a, NEW plan
      PROVE  LET o == [NoOutcome EXCEPT !.avatar = a, !.plan = plan]
             IN  o.plan = plan /\ o.avatar = a /\ o.failures = {} /\ ~o.runtimeErr /\ ~o.blocked
  BY DEF NoOutcome
<1>2. ASSUME NEW a
      PROVE  LET o == [NoOutcome EXCEPT !.avatar = a]
             IN  o.plan = NoPlan /\ o.avatar = a /\ o.failures = {} /\ ~o.runtimeErr /\ ~o.blocked
  BY DEF NoOutcome
<1>3. PICK a \in mailbox :
         \/ /\ allocated' = allocated + 1
            /\ \E kind \in {"failed", "empty", "ready"}, matches \in SUBSET Plugin :
                 outcome' = [NoOutcome EXCEPT !.avatar = a,
                             !.plan = [gen |-> allocated + 1, kind |-> kind, matches |-> matches]]
         \/ outcome' = [NoOutcome EXCEPT !.avatar = a] /\ allocated' = allocated
  BY Zenon DEF Activate
<1>4. ASSUME allocated' = allocated + 1, NEW kind, NEW matches,
             outcome' = [NoOutcome EXCEPT !.avatar = a,
                         !.plan = [gen |-> allocated + 1, kind |-> kind, matches |-> matches]]
      PROVE  /\ outcome'.avatar \in mailbox /\ outcome'.failures = {}
             /\ ~outcome'.runtimeErr /\ ~outcome'.blocked /\ outcome'.plan.gen = allocated + 1
  <2> DEFINE plan == [gen |-> allocated + 1, kind |-> kind, matches |-> matches]
  <2>1. outcome' = [NoOutcome EXCEPT !.avatar = a, !.plan = plan]
    BY <1>4
  <2>2. plan.gen = allocated + 1
    OBVIOUS
  <2> HIDE DEF plan
  <2> QED BY <1>1, <2>1, <2>2
<1>5. ASSUME outcome' = [NoOutcome EXCEPT !.avatar = a]
      PROVE  /\ outcome'.avatar \in mailbox /\ outcome'.failures = {}
             /\ ~outcome'.runtimeErr /\ ~outcome'.blocked /\ outcome'.plan.gen = 0
  BY <1>2, <1>5 DEF NoPlan
<1>6. /\ pc = "idle" /\ pc' = "clear" /\ ~cancelled /\ mailbox' = {}
      /\ UNCHANGED <<oscRunning, newest, outputVars, trackVars, pluginVars, planVars, todo, failedDeactivation, status, appVars>>
  BY Zenon DEF Activate, Step
<1> QED BY <1>3, <1>4, <1>5, <1>6, Zenon

-----------------------------------------------------------------------------
(* Types. *)

LEMMA TypeInit == Init => TypeInv
<1> SUFFICES ASSUME Init PROVE TypeInv
  OBVIOUS
<1>1. 0 \in Generation
  BY CoordinatorAssumption DEF Generation
<1>2. status \in Status
  BY <1>1 DEF Init, Status, Lifecycles, Failures
<1> QED
  BY <1>1, <1>2, PlanFields DEF Init, TypeInv, TypeOK, TodoLeft

LEMMA InstallingTypes ==
    ASSUME TypeInv, Installing PROVE TypeInv'
<1> USE DEF TypeInv, TypeOK, TodoLeft, Step
<1>1. CASE Activate
  <2>1. /\ allocated' \in Generation
        /\ outcome' \in Outcome
    <3>1. PICK a \in mailbox :
             \/ /\ GenerationLeft /\ allocated' = allocated + 1
                /\ \E kind \in {"failed", "empty", "ready"}, matches \in SUBSET Plugin :
                     outcome' = [NoOutcome EXCEPT !.avatar = a,
                                 !.plan = [gen |-> allocated + 1, kind |-> kind, matches |-> matches]]
             \/ outcome' = [NoOutcome EXCEPT !.avatar = a] /\ allocated' = allocated
      BY <1>1, Zenon DEF Activate
    <3>2. CASE outcome' = [NoOutcome EXCEPT !.avatar = a] /\ allocated' = allocated
      BY <3>2, PlanFields DEF Outcome
    <3>3. ASSUME GenerationLeft, allocated' = allocated + 1,
                 NEW kind \in {"failed", "empty", "ready"}, NEW matches \in SUBSET Plugin,
                 outcome' = [NoOutcome EXCEPT !.avatar = a,
                             !.plan = [gen |-> allocated + 1, kind |-> kind, matches |-> matches]]
          PROVE  allocated' \in Generation /\ outcome' \in Outcome
      <4>1. allocated + 1 \in Generation /\ allocated + 1 \in 1 .. MaxGeneration
        BY <3>3, CoordinatorAssumption DEF GenerationLeft, Generation
      <4> DEFINE plan == [gen |-> allocated + 1, kind |-> kind, matches |-> matches]
      <4>2. plan \in Plan
        BY <4>1 DEF Plan
      <4> HIDE DEF plan
      <4>3. [NoOutcome EXCEPT !.avatar = a, !.plan = plan] \in Outcome
        BY <4>2, PlanFields DEF Outcome
      <4> QED BY <3>3, <4>1, <4>3 DEF plan
    <3> QED BY <3>1, <3>2, <3>3, Zenon
  <2> QED
    BY <1>1, <2>1 DEF Activate, oscVars, outputVars, trackVars, pluginVars, planVars, appVars
<1>2. CASE Abandon
  BY <1>2, PlanFields DEF Abandon, oscVars, outputVars, trackVars, pluginVars, planVars, appVars
<1>3. CASE ClearRuntime
  BY <1>3, CoordinatorAssumption DEF ClearRuntime, Clear, Generation, oscVars, trackVars, pluginVars, planVars, appVars
<1>4. CASE SetGeneration
  <2>1. outcome.plan.gen \in Generation
    BY PlanFields DEF Outcome
  <2>2. outcome' \in Outcome
    <3>1. (outcome.plan.gen # 0 /\ outcome.plan.gen < trackGen) \in BOOLEAN
      OBVIOUS
    <3>2. \A b \in BOOLEAN : [outcome EXCEPT !.runtimeErr = b] \in Outcome
      BY DEF Outcome
    <3> QED BY <1>4, <3>1, <3>2, Zenon DEF SetGeneration
  <2>3. trackGen' \in Generation /\ merged' \subseteq Frame
    BY <1>4, <2>1 DEF SetGeneration, trackVars, Frame
  <2> QED
    BY <1>4, <2>2, <2>3 DEF SetGeneration, oscVars, outputVars, pluginVars, planVars, appVars
<1>5. CASE Deactivate
  BY ZenonT(60), <1>5, FirstOfTodo, FailureType DEF Deactivate, MaySetActive, Failed, Operations, oscVars, outputVars, trackVars, planVars, appVars
<1>6. CASE Deactivated
  BY <1>6, PlanFields DEF Deactivated, Subscribers, Outcome, oscVars, outputVars, trackVars, pluginVars, planVars, appVars
<1>7. CASE UpdateSubscription
  <2>1. outcome.plan.gen \in Generation
    BY PlanFields DEF Outcome
  <2>2. outcome' \in Outcome
    BY <1>7, FirstOfTodo, FailureType DEF UpdateSubscription, Failed, Operations
  <2>3. subscribed' \in [Plugin -> Generation] /\ todo' \subseteq Plugin
    BY <1>7, <2>1 DEF UpdateSubscription, MaySubscribe
  <2> QED
    BY <1>7, <2>2, <2>3 DEF UpdateSubscription, oscVars, outputVars, trackVars, planVars, appVars
<1>8. CASE SetActive
  BY ZenonT(60), <1>8, FirstOfTodo, FailureType DEF SetActive, MaySetActive, Failed, Operations, oscVars, outputVars, trackVars, planVars, appVars
<1>9. CASE Compensate
  <2>1. outcome' \in Outcome
    BY <1>9, FirstOfTodo, FailureType DEF Compensate, Operations
  <2>2. active' \in [Plugin -> BOOLEAN] /\ todo' \subseteq Plugin
    BY <1>9 DEF Compensate, MaySetActive
  <2> QED
    BY <1>9, <2>1, <2>2 DEF Compensate, oscVars, outputVars, trackVars, planVars, appVars
<1>10. CASE InstallCatalog
  BY <1>10, PlanFields, CoordinatorAssumption DEF InstallCatalog, Install, Outcome, Generation,
     oscVars, outputVars, trackVars, pluginVars, planVars, installVars, appVars
<1>11. CASE PublishInstallStatus
  <2> DEFINE used == outcome.plan = NoPlan
             bad  == outcome.plan.kind \in {"none", "failed"}
             s    == [status EXCEPT !.avatar = outcome.avatar, !.gen = outcome.plan.gen, !.exhausted = used,
                         !.failures = outcome.failures, !.planErr = bad, !.runtimeErr = outcome.runtimeErr]
  <2>1. s \in Status
    <3>1. used \in BOOLEAN /\ bad \in BOOLEAN
      OBVIOUS
    <3> HIDE DEF used, bad
    <3>2. /\ outcome.avatar \in Avatar \cup {NoAvatar} /\ outcome.plan.gen \in Generation
          /\ outcome.failures \in Failures /\ outcome.runtimeErr \in BOOLEAN
      BY PlanFields DEF Outcome
    <3> QED BY <3>1, <3>2 DEF Status
  <2>2. status' = WithLifecycle(s)
    BY <1>11 DEF PublishInstallStatus
  <2>3. status' \in Status
    BY <2>1, <2>2, LifecycleOnly
  <2> QED
    BY <1>11, <2>3, PlanFields DEF PublishInstallStatus, Outcome, oscVars, outputVars, trackVars, pluginVars, appVars
<1> QED
  BY <1>1, <1>2, <1>3, <1>4, <1>5, <1>6, <1>7, <1>8, <1>9, <1>10, <1>11 DEF Installing


LEMMA ReportedType ==
    ASSUME TypeOK, NEW err \in BOOLEAN
    PROVE  WithLifecycle([status EXCEPT !.runtimeErr = err]) \in Status
<1>1. [status EXCEPT !.runtimeErr = err] \in Status
  BY DEF TypeOK, Status
<1> QED BY <1>1, LifecycleOnly

LEMMA ProcessTypes ==
    ASSUME TypeInv, NEW f \in Frame, Process(f), latest' \subseteq Frame, merged' \subseteq Frame
    PROVE  TypeInv'
<1>1. status' \in Status
  BY ReportedType DEF Process, FailRuntime, Publish, TypeInv, TypeOK
<1>2. current.gen \in Generation
  BY PlanFields DEF TypeInv, TypeOK
<1>3. oscGen' \in Generation /\ oscSource' \in Generation /\ suspended' \in BOOLEAN
  BY <1>2, PlanFields DEF Process, FailRuntime, Publish, Clear, outputVars, TypeInv, TypeOK, Frame
<1> QED
  BY <1>1, <1>3 DEF Process, oscVars, pluginVars, installVars, appVars, TypeInv, TypeOK, TodoLeft

LEMMA ProcessingTypes ==
    ASSUME TypeInv, Processing PROVE TypeInv'
<1>1. CASE ReceiveMerged
  BY <1>1, ProcessTypes DEF ReceiveMerged, TypeInv, TypeOK
<1>2. CASE Tick
  BY <1>2, ProcessTypes DEF Tick, TypeInv, TypeOK
<1>3. CASE ObserveOSC
  BY <1>3, ReportedType DEF ObserveOSC, TypeInv, TypeOK, TodoLeft, outputVars, trackVars, pluginVars,
     planVars, installVars, appVars
<1> QED BY <1>1, <1>2, <1>3 DEF Processing

LEMMA StopTypes ==
    ASSUME TypeInv, Stop PROVE TypeInv'
  BY CoordinatorAssumption DEF Stop, Step, Clear, Generation, TypeInv, TypeOK, TodoLeft, oscVars, trackVars,
     pluginVars, planVars, installVars, appVars

LEMMA EnvironmentTypes ==
    ASSUME TypeInv, Environment PROVE TypeInv'
<1> USE DEF TypeInv, TypeOK, TodoLeft
<1>1. ASSUME NEW a \in Avatar, AvatarChange(a) PROVE TypeInv'
  BY <1>1 DEF AvatarChange, outputVars, trackVars, pluginVars, planVars, installVars, appVars
<1>2. CASE SendFails
  BY <1>2 DEF SendFails, outputVars, trackVars, pluginVars, planVars, installVars, appVars
<1>3. ASSUME NEW p \in Plugin, NEW g \in 1 .. MaxGeneration, Submit(p, g) PROVE TypeInv'
  <2>1. g \in Generation
    BY CoordinatorAssumption DEF Generation
  <2>2. merged' \subseteq Frame
    BY <1>3, <2>1 DEF Submit, Frame
  <2> QED
    BY <1>3, <2>2 DEF Submit, oscVars, outputVars, pluginVars, planVars, installVars, appVars
<1> QED BY <1>1, <1>2, <1>3 DEF Environment

LEMMA LifecycleTypes ==
    ASSUME TypeInv, Lifecycle PROVE TypeInv'
<1> USE DEF TypeInv, TypeOK, TodoLeft, rest, oscVars, outputVars, trackVars, pluginVars, planVars, installVars, appVars
<1>1. CASE StartReturns
  <2>1. status' \in Status
    BY <1>1 DEF StartReturns, Status, Lifecycles
  <2> QED
    BY <1>1, <2>1 DEF StartReturns
<1>2. CASE Close
  BY <1>2 DEF Close, Status, Lifecycles
<1>3. CASE CloseOSC
  BY <1>3 DEF CloseOSC
<1>4. CASE Cancel
  BY <1>4 DEF Cancel
<1>5. CASE FinishClose
  <2>1. PICK joined \in BOOLEAN :
           status' = [status EXCEPT !.lifecycle = "closed", !.runtimeErr = @ \/ ~joined]
    BY <1>5, Zenon DEF FinishClose
  <2> DEFINE err == status.runtimeErr \/ ~joined
  <2>2. err \in BOOLEAN
    OBVIOUS
  <2> HIDE DEF err
  <2>3. [status EXCEPT !.lifecycle = "closed", !.runtimeErr = err] \in Status
    BY <2>2 DEF Status, Lifecycles
  <2>4. status' \in Status
    BY <2>1, <2>3, Zenon DEF err
  <2> QED
    BY <1>5, <2>4 DEF FinishClose
<1> QED BY <1>1, <1>2, <1>3, <1>4, <1>5 DEF Lifecycle

LEMMA TypeStep == TypeInv /\ [Next]_vars => TypeInv'
<1> SUFFICES ASSUME TypeInv, [Next]_vars PROVE TypeInv'
  OBVIOUS
<1>1. CASE UNCHANGED vars
  BY <1>1 DEF vars, oscVars, outputVars, trackVars, pluginVars, planVars, installVars, appVars, TypeInv, TypeOK, TodoLeft
<1> QED
  BY <1>1, InstallingTypes, ProcessingTypes, StopTypes, EnvironmentTypes, LifecycleTypes DEF Next

LEMMA Types == Spec => []TypeInv
  BY TypeInit, TypeStep, PTL DEF Spec

-----------------------------------------------------------------------------
(* The output. *)

\* Merged frames are those of the generation they were merged in, a new plan is
\* newer than what tracking is in, and tracking is in its generation from
\* SetGeneration on, also once the plan is installed.
InGeneration ==
    /\ \A f \in merged \cup latest : f.content = f.gen
    /\ trackGen <= allocated /\ outcome.plan.gen <= allocated
    /\ ~outcome.runtimeErr
    /\ pc \in {"clear", "generation"} => outcome.plan.gen = 0 \/ outcome.plan.gen > trackGen
    /\ pc \in Enlisting \cup {"deactivate", "publish"} => outcome.plan.gen = 0 \/ outcome.plan.gen = trackGen
    /\ pc \in Enlisting => outcome.plan.kind = "ready"
    /\ pc \in Settled /\ current.kind = "ready" => trackGen = current.gen

\* Values go out under a catalog; the catalog is the one of the plan in force, or
\* of the plan whose installation is about to be published.
OutputInPlan ==
    /\ oscSource # 0 => oscGen = oscSource /\ pc \in Settled
    /\ oscGen # 0 => pc \in Settled \cup {"publish"}
    /\ oscGen # 0 /\ pc \in Settled =>
          current.kind = "ready" /\ oscGen = current.gen /\ ~blocked /\ ~suspended
    /\ oscGen # 0 /\ pc = "publish" =>
          outcome.plan.kind = "ready" /\ oscGen = outcome.plan.gen /\ ~outcome.blocked

OutputInv == InGeneration /\ OutputInPlan

LEMMA OutputInit == Init => OutputInv
  BY PlanFields DEF Init, OutputInv, InGeneration, OutputInPlan, Settled, Enlisting

LEMMA OutputFollows == TypeInv /\ OutputInv => OutputFailsClosed
<1> SUFFICES ASSUME TypeInv, OutputInv PROVE OutputFailsClosed
  OBVIOUS
<1>1. oscGen # 0 => oscGen = trackGen
  BY PlanFields DEF OutputInv, InGeneration, OutputInPlan, Settled, TypeInv, TypeOK, Outcome
<1>2. OutputOfInstalledPlan
  BY <1>1 DEF OutputOfInstalledPlan, OutputInv, InGeneration, OutputInPlan, Settled
<1>3. CatalogFailsClosed
  BY <1>1 DEF CatalogFailsClosed, OutputInv, OutputInPlan, Settled
<1> QED BY <1>2, <1>3 DEF OutputFailsClosed, TypeInv

\* The generation of a plan is never older than that of tracking.
LEMMA GenerationSet ==
    ASSUME TypeInv, SetGeneration, outcome.plan.gen = 0 \/ outcome.plan.gen > trackGen
    PROVE  \/ /\ outcome.plan.gen > trackGen /\ trackGen' = outcome.plan.gen /\ outcome' = outcome
              /\ merged' = {[gen |-> outcome.plan.gen, content |-> outcome.plan.gen]}
           \/ /\ outcome.plan.gen = 0 /\ UNCHANGED trackVars /\ outcome'.plan = outcome.plan
              /\ ~outcome'.runtimeErr /\ outcome'.failures = outcome.failures
              /\ outcome'.avatar = outcome.avatar /\ outcome'.blocked = outcome.blocked
<1>1. outcome.plan.gen \in Nat /\ trackGen \in Nat
  BY PlanFields DEF TypeInv, TypeOK, Outcome, Generation
<1>2. CASE outcome.plan.gen > trackGen
  BY <1>2 DEF SetGeneration
<1>3. CASE outcome.plan.gen = 0
  <2> DEFINE older == outcome.plan.gen # 0 /\ outcome.plan.gen < trackGen
  <2>1. older = FALSE /\ ~(outcome.plan.gen > trackGen)
    BY <1>1, <1>3
  <2>2. outcome' = [outcome EXCEPT !.runtimeErr = older] /\ UNCHANGED trackVars
    BY <2>1, Zenon DEF SetGeneration
  <2> HIDE DEF older
  <2> QED
    BY <1>3, <2>1, <2>2 DEF TypeInv, TypeOK, Outcome
<1> QED BY <1>2, <1>3

\* Processing gives OSC the values of a frame of the plan in force.
LEMMA ProcessOutput ==
    ASSUME TypeInv, OutputInv, NEW f \in merged \cup latest, pc = "idle", Process(f),
           merged' \cup latest' \subseteq merged \cup latest
    PROVE  OutputInv'
<1>1. UNCHANGED <<trackGen, allocated, outcome, pc, current, blocked>>
  BY DEF Process, installVars
<1>2. InGeneration'
  BY <1>1 DEF OutputInv, InGeneration
<1>3. current \in Plan \cup {NoPlan}
  BY DEF TypeInv, TypeOK
<1>4. CASE Usable(f) /\ FailRuntime
  BY <1>1, <1>2, <1>4 DEF FailRuntime, Clear, OutputInv, OutputInPlan, Settled
<1>5. CASE Usable(f) /\ Publish(f)
  BY <1>1, <1>2, <1>3, <1>5, PlanFields DEF Usable, Publish, OutputInv, InGeneration, OutputInPlan, Settled
<1>6. CASE UNCHANGED <<outputVars, suspended>>
  BY <1>1, <1>2, <1>6 DEF outputVars, OutputInv, OutputInPlan
<1> QED
  BY <1>2, <1>4, <1>5, <1>6 DEF Process, OutputInv

LEMMA OutputStep == TypeInv /\ OutputInv /\ [Next]_vars => OutputInv'
<1> SUFFICES ASSUME TypeInv, OutputInv, [Next]_vars PROVE OutputInv'
  OBVIOUS
<1> USE DEF OutputInv, InGeneration, OutputInPlan, Settled, Enlisting
<1>0. /\ outcome.plan \in Plan \cup {NoPlan} /\ outcome.plan.gen \in Nat /\ allocated \in Nat /\ trackGen \in Nat
      /\ outcome.plan.kind = "ready" => outcome.plan.gen # 0
  BY PlanFields DEF TypeInv, TypeOK, Outcome, Generation
<1>1. CASE Activate
  BY <1>0, <1>1, Activated DEF outputVars, trackVars, planVars
<1>2. CASE Abandon
  BY <1>0, <1>2, PlanFields DEF Abandon, Step, outputVars, trackVars, planVars
<1>3. CASE ClearRuntime
  BY <1>3 DEF ClearRuntime, Step, Clear, trackVars, planVars
<1>4. CASE SetGeneration
  <2>1. \/ outcome' = outcome /\ outcome.plan.gen > trackGen /\ trackGen' = outcome.plan.gen
           /\ merged' = {[gen |-> outcome.plan.gen, content |-> outcome.plan.gen]}
        \/ outcome'.plan = outcome.plan /\ outcome.plan.gen = 0 /\ ~outcome'.runtimeErr /\ UNCHANGED trackVars
    BY <1>0, <1>4, GenerationSet DEF SetGeneration, Step
  <2> QED
    BY <1>0, <1>4, <2>1 DEF SetGeneration, Step, outputVars, trackVars, planVars
<1>5. ASSUME outcome'.plan = outcome.plan, ~outcome'.runtimeErr, UNCHANGED <<outputVars, trackVars, allocated, planVars>>,
             \/ pc' = pc
             \/ pc = "deactivate" /\ pc' = "publish"
             \/ pc = "deactivate" /\ outcome.plan.kind = "ready" /\ pc' \in Enlisting
             \/ pc \in Enlisting /\ pc' \in Enlisting,
             pc \in {"deactivate"} \cup Enlisting
      PROVE  OutputInv'
  BY <1>5 DEF outputVars, trackVars, planVars
<1>6. CASE Deactivate
  BY <1>5, <1>6 DEF Deactivate, Failed, TypeInv, TypeOK, Outcome
<1>7. CASE Deactivated
  BY <1>5, <1>7 DEF Deactivated
<1>8. CASE UpdateSubscription
  BY <1>5, <1>8 DEF UpdateSubscription, Failed, TypeInv, TypeOK, Outcome
<1>9. CASE SetActive
  BY <1>5, <1>9 DEF SetActive, Failed, TypeInv, TypeOK, Outcome
<1>10. CASE Compensate
  BY <1>5, <1>10 DEF Compensate, Step, TypeInv, TypeOK, Outcome
<1>11. CASE InstallCatalog
  BY <1>0, <1>11 DEF InstallCatalog, Install, Step, outputVars, trackVars, planVars, installVars
<1>12. CASE PublishInstallStatus
  <2>1. suspended' = FALSE
    BY <1>12 DEF PublishInstallStatus
  <2> QED
    BY <1>0, <1>12, <2>1, PlanFields DEF PublishInstallStatus, Step, outputVars, trackVars
<1>13. CASE ReceiveMerged
  BY <1>13, ProcessOutput DEF ReceiveMerged
<1>14. CASE Tick
  BY <1>14, ProcessOutput DEF Tick
<1>15. CASE ObserveOSC
  BY <1>15 DEF ObserveOSC, outputVars, trackVars, planVars, installVars
<1>16. CASE Stop
  BY <1>16 DEF Stop, Step, Clear, trackVars, planVars, installVars
<1>17. CASE Environment
  <2>1. CASE SendFails \/ \E a \in Avatar : AvatarChange(a)
    BY <2>1 DEF SendFails, AvatarChange, outputVars, trackVars, planVars, installVars
  <2>2. ASSUME NEW p \in Plugin, NEW g \in 1 .. MaxGeneration, Submit(p, g) PROVE OutputInv'
    BY <2>2 DEF Submit, Fenced, outputVars, planVars, installVars
  <2> QED BY <1>17, <2>1, <2>2 DEF Environment
<1>18. CASE Lifecycle
  <2>1. UNCHANGED rest
    BY <1>18, Zenon DEF Lifecycle, StartReturns, Close, CloseOSC, Cancel, FinishClose
  <2> QED
    BY <2>1 DEF rest, outputVars, trackVars, planVars, installVars
<1>19. CASE UNCHANGED vars
  BY <1>19 DEF vars, outputVars, trackVars, planVars, installVars
<1> QED
  BY <1>1, <1>2, <1>3, <1>4, <1>6, <1>7, <1>8, <1>9, <1>10, <1>11, <1>12, <1>13, <1>14, <1>15, <1>16, <1>17, <1>18,
     <1>19 DEF Next, Installing, Processing

LEMMA OutputIsInvariant == Spec => []OutputInv
  BY Types, OutputInit, OutputStep, PTL DEF Spec

\* What OSC can send belongs to the plan that is installed as a whole, whatever
\* frames arrive late and wherever installing is interrupted.
THEOREM OutputClosed == Spec => []OutputFailsClosed
  BY Types, OutputIsInvariant, OutputFollows, PTL

-----------------------------------------------------------------------------
(* The status. *)

\* Recording whether the runtime failed is about nothing else.
LEMMA RuntimeRecorded ==
    ASSUME NEW s \in Status, NEW failed \in BOOLEAN
    PROVE  LET new == WithLifecycle([s EXCEPT !.runtimeErr = failed])
           IN  /\ new.avatar = s.avatar /\ new.failures = s.failures
               /\ s.lifecycle \in {"closing", "closed"} => new.lifecycle = s.lifecycle
               /\ s.lifecycle \notin {"closing", "closed"} => new.lifecycle \notin {"closing", "closed"}
<1> DEFINE recorded == [s EXCEPT !.runtimeErr = failed]
<1>1. /\ recorded \in Status /\ recorded.avatar = s.avatar /\ recorded.failures = s.failures
      /\ recorded.lifecycle = s.lifecycle
  BY DEF Status
<1> DEFINE new == WithLifecycle(recorded)
<1> HIDE DEF recorded
<1>2. /\ new.avatar = s.avatar /\ new.failures = s.failures
      /\ s.lifecycle \in {"closing", "closed"} => new.lifecycle = s.lifecycle
      /\ s.lifecycle \notin {"closing", "closed"} => new.lifecycle \notin {"closing", "closed"}
  BY <1>1, LifecycleOnly
<1> QED BY <1>2, Zenon DEF recorded

\* Processing records nothing but that.
LEMMA ProcessingStatus ==
    ASSUME TypeOK, Processing
    PROVE  /\ status'.avatar = status.avatar /\ status'.failures = status.failures
           /\ status.lifecycle \in {"closing", "closed"} => status'.lifecycle = status.lifecycle
           /\ status.lifecycle \notin {"closing", "closed"} =>
                 status'.lifecycle \notin {"closing", "closed"}
           /\ pc = "idle"
           /\ UNCHANGED <<mailbox, oscRunning, newest, trackGen, pluginVars, pc, current, blocked,
                          installVars, appVars>>
<1>1. /\ \/ status' = status
         \/ \E failed \in BOOLEAN : status' = WithLifecycle([status EXCEPT !.runtimeErr = failed])
      /\ pc = "idle"
      /\ UNCHANGED <<mailbox, oscRunning, newest, trackGen, pluginVars, pc, current, blocked,
                     installVars, appVars>>
  <2>1. CASE ObserveOSC
    BY <2>1, Zenon DEF ObserveOSC, trackVars, planVars
  <2>2. ASSUME NEW f, Process(f)
        PROVE  /\ \/ status' = status
                  \/ \E failed \in BOOLEAN : status' = WithLifecycle([status EXCEPT !.runtimeErr = failed])
               /\ UNCHANGED <<mailbox, oscRunning, newest, trackGen, pluginVars, pc, current, blocked,
                              installVars, appVars>>
    BY <2>2, Zenon DEF Process, FailRuntime, Publish, oscVars
  <2> QED BY <2>1, <2>2, Zenon DEF Processing, ReceiveMerged, Tick
<1>2. status \in Status
  BY DEF TypeOK
<1> QED BY <1>1, <1>2, RuntimeRecorded

\* Publishing the status of an installation sets what the outcome says.
LEMMA InstallStatus ==
    ASSUME TypeOK, PublishInstallStatus
    PROVE  /\ status'.avatar = outcome.avatar /\ status'.failures = outcome.failures
           /\ status.lifecycle \in {"closing", "closed"} => status'.lifecycle = status.lifecycle
           /\ status.lifecycle \notin {"closing", "closed"} =>
                 status'.lifecycle \notin {"closing", "closed"}
<1> DEFINE exhausted == outcome.plan = NoPlan
           planErr   == outcome.plan.kind \in {"none", "failed"}
           installed == [status EXCEPT
                            !.avatar = outcome.avatar, !.gen = outcome.plan.gen,
                            !.exhausted = exhausted, !.failures = outcome.failures,
                            !.planErr = planErr, !.runtimeErr = outcome.runtimeErr]
<1>1. status' = WithLifecycle(installed)
  BY Zenon DEF PublishInstallStatus
<1>2. exhausted \in BOOLEAN /\ planErr \in BOOLEAN
  OBVIOUS
<1>3. /\ outcome.avatar \in Avatar \cup {NoAvatar} /\ outcome.plan.gen \in Generation
      /\ outcome.failures \in Failures /\ outcome.runtimeErr \in BOOLEAN /\ status \in Status
  BY PlanFields DEF TypeOK, Outcome
<1> HIDE DEF exhausted, planErr
<1>4. /\ installed \in Status /\ installed.avatar = outcome.avatar
      /\ installed.failures = outcome.failures /\ installed.lifecycle = status.lifecycle
  BY <1>2, <1>3 DEF Status
<1> HIDE DEF installed
<1> QED BY <1>1, <1>4, LifecycleOnly

\* Start and Close set how far they are; the rest of the status is kept.
LEMMA LifecycleStatus ==
    ASSUME TypeOK, Lifecycle
    PROVE  /\ status'.avatar = status.avatar /\ status'.failures = status.failures
           /\ UNCHANGED <<mailbox, newest, rest>>
           /\ oscRunning' => oscRunning
           /\ cancelled' => cancelled \/ ~oscRunning
           /\ \/ appState = "starting" /\ appState' = "running" /\ status'.lifecycle = "running"
              \/ appState \in {"starting", "running"} /\ appState' = "closing" /\ status'.lifecycle = "closing"
              \/ UNCHANGED appState /\ status'.lifecycle = status.lifecycle
              \/ appState = "closing" /\ appState' = "closed" /\ status'.lifecycle = "closed"
<1>1. CASE StartReturns
  BY <1>1 DEF StartReturns, TypeOK, Status, oscVars
<1>2. CASE Close
  BY <1>2 DEF Close, TypeOK, Status, oscVars
<1>3. CASE CloseOSC \/ Cancel
  BY <1>3 DEF CloseOSC, Cancel, oscVars, appVars, TypeOK
<1>4. CASE FinishClose
  <2>1. /\ UNCHANGED <<oscVars, rest, cancelled>>
        /\ appState = "closing" /\ appState' = "closed"
    BY <1>4, Zenon DEF FinishClose
  <2>2. PICK joined \in BOOLEAN :
             status' = [status EXCEPT !.lifecycle = "closed", !.runtimeErr = @ \/ ~joined]
    BY <1>4, Zenon DEF FinishClose
  <2> DEFINE failed == status.runtimeErr \/ ~joined
  <2>3. status' = [status EXCEPT !.lifecycle = "closed", !.runtimeErr = failed]
    BY <2>2, Zenon
  <2> HIDE DEF failed
  <2>4. /\ status'.lifecycle = "closed" /\ status'.avatar = status.avatar
        /\ status'.failures = status.failures
    BY <2>3 DEF TypeOK, Status
  <2> QED BY <2>1, <2>4 DEF oscVars
<1> QED BY <1>1, <1>2, <1>3, <1>4, Zenon DEF Lifecycle

\* No other step changes how far the application is with closing.
LEMMA OtherStatus ==
    ASSUME TypeInv, Installing \/ Processing \/ Stop \/ Environment \/ UNCHANGED vars
    PROVE  /\ status.lifecycle \in {"closing", "closed"} => status'.lifecycle = status.lifecycle
           /\ status.lifecycle \notin {"closing", "closed"} =>
                 status'.lifecycle \notin {"closing", "closed"}
           /\ UNCHANGED appVars
<1> USE DEF TypeInv
<1>1. CASE PublishInstallStatus
  BY <1>1, InstallStatus, Zenon DEF PublishInstallStatus
<1>2. CASE Processing
  BY <1>2, ProcessingStatus, Zenon
<1>3. CASE Installing /\ ~PublishInstallStatus
  <2>1. UNCHANGED <<status, appVars>>
    BY <1>3, Zenon DEF Installing, Activate, Abandon, ClearRuntime, SetGeneration, Deactivate, Deactivated,
       UpdateSubscription, SetActive, Compensate, InstallCatalog
  <2> QED BY <2>1, Zenon
<1>4. CASE Stop \/ Environment \/ UNCHANGED vars
  <2>1. UNCHANGED <<status, appVars>>
    BY <1>4, Zenon DEF Stop, Environment, AvatarChange, SendFails, Submit, vars
  <2> QED BY <2>1, Zenon
<1> QED BY <1>1, <1>2, <1>3, <1>4, Zenon

\* The application and its status agree on how far Close has come.
PhasesAgree ==
    /\ appState = "closing" <=> status.lifecycle = "closing"
    /\ appState = "closed" <=> status.lifecycle = "closed"

LEMMA PhasesInit == Init => PhasesAgree
  BY DEF Init, PhasesAgree

LEMMA PhasesStep == TypeInv /\ PhasesAgree /\ [Next]_vars => PhasesAgree'
<1> SUFFICES ASSUME TypeInv, PhasesAgree, [Next]_vars PROVE PhasesAgree'
  OBVIOUS
<1>1. CASE Lifecycle
  BY <1>1, LifecycleStatus DEF TypeInv, PhasesAgree
<1>2. CASE ~Lifecycle
  <2>1. /\ status.lifecycle \in {"closing", "closed"} => status'.lifecycle = status.lifecycle
        /\ status.lifecycle \notin {"closing", "closed"} =>
              status'.lifecycle \notin {"closing", "closed"}
        /\ UNCHANGED appVars
    BY <1>2, OtherStatus, Zenon DEF Next
  <2> QED BY <2>1 DEF appVars, PhasesAgree
<1> QED BY <1>1, <1>2

\* After Close has begun, updates that are still under way in the coordinator or
\* in Start do not take the status back.
THEOREM ClosingStays == Spec => ClosingIsFinal
<1>1. Spec => []PhasesAgree
  BY Types, PhasesInit, PhasesStep, PTL DEF Spec
<1>2. TypeInv /\ PhasesAgree /\ [Next]_vars =>
         [/\ status.lifecycle = "closing" => status'.lifecycle \in {"closing", "closed"}
          /\ status.lifecycle = "closed" => status'.lifecycle = "closed"]_vars
  <2> SUFFICES ASSUME TypeInv, PhasesAgree, [Next]_vars
               PROVE  /\ status.lifecycle = "closing" => status'.lifecycle \in {"closing", "closed"}
                      /\ status.lifecycle = "closed" => status'.lifecycle = "closed"
    OBVIOUS
  <2>1. CASE Lifecycle
    BY <2>1, LifecycleStatus DEF TypeInv, PhasesAgree
  <2>2. CASE ~Lifecycle
    BY <2>2, OtherStatus DEF Next
  <2> QED BY <2>1, <2>2
<1> QED BY Types, <1>1, <1>2, PTL DEF Spec, ClosingIsFinal

-----------------------------------------------------------------------------
(* What comes to rest. *)

\* The coordinator is installing a plan.
Busy == {"clear", "generation", "deactivate", "publish"} \cup Enlisting

\* The last avatar change waits in the mailbox, is being installed or is in the
\* status; what was abandoned was abandoned after OSC stopped.
RestInv ==
    /\ mailbox \subseteq {newest}
    /\ cancelled => ~oscRunning
    /\ pc = "idle" /\ mailbox = {} /\ oscRunning /\ newest # NoAvatar => status.avatar = newest
    /\ pc \in Busy /\ mailbox = {} /\ oscRunning => outcome.avatar = newest
    /\ pc = "done" => oscGen = 0 /\ oscSource = 0

LEMMA RestInit == Init => RestInv
  BY DEF Init, RestInv, Busy, Enlisting

\* Steps that leave the installation where it is, and the change it is for.
LEMMA RestKept ==
    ASSUME RestInv, mailbox' = mailbox, newest' = newest, oscRunning' => oscRunning,
           cancelled' => cancelled \/ ~oscRunning, status'.avatar = status.avatar,
           outcome'.avatar = outcome.avatar,
           \/ pc' = pc /\ pc # "done"
           \/ pc \in Busy /\ pc' \in Busy
           \/ pc' = pc /\ UNCHANGED outputVars
    PROVE  RestInv'
  BY DEF RestInv, Busy, Enlisting, outputVars

LEMMA RestStep == TypeInv /\ RestInv /\ [Next]_vars => RestInv'
<1> SUFFICES ASSUME TypeInv, RestInv, [Next]_vars PROVE RestInv'
  OBVIOUS
<1>1. CASE Activate
  BY <1>1, Activated, CoordinatorAssumption DEF RestInv, Busy, Enlisting, appVars
<1>2. CASE Abandon
  <2>1. /\ cancelled /\ pc' = "idle"
        /\ UNCHANGED <<oscVars, status, appVars>>
    BY <1>2, Zenon DEF Abandon, Step
  <2> QED BY <2>1 DEF RestInv, Busy, Enlisting, oscVars, appVars
<1>3. ASSUME pc' \in Busy, pc \in Busy, outcome'.avatar = outcome.avatar,
             UNCHANGED <<oscVars, status, appVars>>
      PROVE  RestInv'
  BY <1>3, RestKept DEF oscVars, appVars
<1>4. CASE ClearRuntime \/ Deactivated \/ InstallCatalog
  <2>1. pc' \in Busy /\ pc \in Busy /\ UNCHANGED <<outcome, oscVars, status, appVars>>
    BY <1>4 DEF ClearRuntime, Deactivated, InstallCatalog, Step, Busy, Enlisting, installVars
  <2> QED BY <1>3, <2>1, Zenon
<1>5. CASE SetGeneration
  <2>1. /\ pc = "generation" /\ pc' = "deactivate"
        /\ UNCHANGED <<oscVars, status, appVars>>
        /\ \/ outcome' = outcome
           \/ \E failed \in BOOLEAN : outcome' = [outcome EXCEPT !.runtimeErr = failed]
    BY <1>5, Zenon DEF SetGeneration, Step
  <2>2. outcome'.avatar = outcome.avatar
    BY <2>1 DEF TypeInv, TypeOK, Outcome
  <2> QED BY <1>3, <2>1, <2>2 DEF Busy, Enlisting
<1>6. CASE Deactivate \/ UpdateSubscription \/ SetActive \/ Compensate
  <2>1. /\ pc \in Busy /\ pc' \in Busy
        /\ UNCHANGED <<oscVars, status, appVars>>
    BY <1>6 DEF Deactivate, UpdateSubscription, SetActive, Compensate, Step, Busy, Enlisting
  <2>2. outcome'.avatar = outcome.avatar
    BY <1>6 DEF Deactivate, UpdateSubscription, SetActive, Compensate, Failed, TypeInv, TypeOK, Outcome
  <2> QED BY <1>3, <2>1, <2>2
<1>7. CASE PublishInstallStatus
  <2>1. pc = "publish" /\ pc' = "idle" /\ UNCHANGED <<oscVars, appVars>>
    BY <1>7, Zenon DEF PublishInstallStatus, Step
  <2>2. status'.avatar = outcome.avatar
    BY <1>7, InstallStatus DEF TypeInv
  <2> QED BY <2>1, <2>2 DEF RestInv, Busy, Enlisting, oscVars, appVars
<1>8. CASE Processing
  <2>1. /\ status'.avatar = status.avatar /\ pc = "idle"
        /\ UNCHANGED <<mailbox, oscRunning, newest, pc, installVars, appVars>>
    BY <1>8, ProcessingStatus, Zenon DEF TypeInv
  <2> QED BY <2>1, RestKept DEF installVars, appVars
<1>9. CASE Stop
  <2>1. /\ cancelled /\ pc' = "done" /\ Clear /\ UNCHANGED <<oscVars, appVars>>
    BY <1>9, Zenon DEF Stop, Step
  <2> QED BY <2>1 DEF Clear, RestInv, Busy, Enlisting, oscVars, appVars
<1>10. CASE Environment
  <2>1. ASSUME NEW a \in Avatar, AvatarChange(a) PROVE RestInv'
    BY <2>1 DEF AvatarChange, RestInv, Busy, Enlisting, outputVars, installVars, appVars
  <2>2. CASE SendFails \/ \E p \in Plugin, g \in 1 .. MaxGeneration : Submit(p, g)
    <3>1. UNCHANGED <<mailbox, oscRunning, newest, outputVars, pc, installVars, status, appVars>>
      BY <2>2, Zenon DEF SendFails, Submit, oscVars
    <3> QED BY <3>1, RestKept DEF installVars, appVars
  <2> QED BY <1>10, <2>1, <2>2 DEF Environment
<1>11. CASE Lifecycle
  BY <1>11, LifecycleStatus, RestKept DEF TypeInv, rest, installVars
<1>12. CASE UNCHANGED vars
  BY <1>12, RestKept DEF vars, oscVars, installVars, appVars
<1> QED
  BY <1>1, <1>2, <1>4, <1>5, <1>6, <1>7, <1>8, <1>9, <1>10, <1>11, <1>12 DEF Next, Installing

\* When nothing is under way the plan is that of the last avatar change, and a
\* coordinator that returned left OSC nothing to send.
THEOREM RestCompletes == Spec => []RestIsComplete
<1>1. Spec => []RestInv
  BY Types, RestInit, RestStep, PTL DEF Spec
<1>2. RestInv => RestIsComplete
  BY DEF RestInv, RestIsComplete
<1> QED BY <1>1, <1>2, PTL

-----------------------------------------------------------------------------
(* Plugins that escape the installer. *)

\* The plugin is named in the failures of the plan that is being installed.
FailureOf(p) == \E op \in Operations : <<p, op>> \in outcome.failures

\* The plugin failed to activate, and its compensation is still to be made.
Compensating(p) == pc = "compensate" /\ p = Least(todo)

\* Deactivation goes through all plugins, and remembers those it failed for.
Disengaged ==
    /\ pc \in {"clear", "generation", "deactivate"} =>
          \A p \in Plugin : <<p, "activate">> \notin outcome.failures
    /\ pc = "generation" => todo = Plugin /\ failedDeactivation = {}
    /\ pc = "deactivate" => \A p \in Plugin \ todo : active[p] => p \in failedDeactivation
    /\ pc \in {"deactivate"} \cup Enlisting =>
          \A p \in failedDeactivation : <<p, "deactivate">> \in outcome.failures

\* A plugin whose turn has not come is known to be inactive.
Waiting ==
    pc \in Enlisting =>
        /\ todo \subseteq Subscribers
        /\ \A p \in todo : Compensating(p) \/ (~active[p] /\ <<p, "activate">> \notin outcome.failures)

\* A plugin that is active during the installation is active for the new plan,
\* or there is a failure of its own; when activating it failed, output is blocked.
Engaged ==
    /\ pc = "activate" => subscribed[Least(todo)] = outcome.plan.gen
    /\ pc = "compensate" => <<Least(todo), "activate">> \in outcome.failures
    /\ pc \in Enlisting \cup {"publish"} =>
          \A p \in Plugin : active[p] =>
             /\ FailureOf(p) \/ (p \in outcome.plan.matches /\ subscribed[p] = outcome.plan.gen)
             /\ <<p, "activate">> \in outcome.failures => outcome.blocked \/ Compensating(p)

\* The same of the plan in force, with the failures the status reports.
Contained ==
    pc \in Settled =>
        \A p \in Plugin : active[p] =>
           /\ \/ \E op \in Operations : <<p, op>> \in status.failures
              \/ p \in current.matches /\ subscribed[p] = current.gen
           /\ <<p, "activate">> \in status.failures => blocked

StrayInv == Disengaged /\ Waiting /\ Engaged /\ Contained

LEMMA StrayInit == Init => StrayInv
  BY DEF Init, StrayInv, Disengaged, Waiting, Engaged, Contained, FailureOf, Settled, Enlisting, NoOutcome

LEMMA StrayFollows == TypeInv /\ OutputInv /\ StrayInv => StraysAreContained
<1> SUFFICES ASSUME TypeInv, OutputInv, StrayInv PROVE StraysAreContained
  OBVIOUS
<1>1. StrayPluginsReported
  BY DEF StrayInv, Contained, Settled, StrayPluginsReported
<1>2. BlockedWhenUncertain
  BY DEF StrayInv, Contained, Settled, BlockedWhenUncertain, OutputInv, OutputInPlan
<1> QED BY <1>1, <1>2 DEF StraysAreContained

\* The plan in force and the plugins are kept while the next plan is not touched.
LEMMA ContainedKept ==
    ASSUME Contained, UNCHANGED <<active, subscribed, current, blocked>>,
           status'.failures = status.failures, pc' \in Settled => pc \in Settled
    PROVE  Contained'
  BY DEF Contained, Settled

\* Steps that are not of the installation.
LEMMA StrayKept ==
    ASSUME StrayInv, UNCHANGED <<pluginVars, current, blocked, installVars>>,
           status'.failures = status.failures,
           pc' = pc \/ pc' = "done" \/ (pc = "idle" /\ pc' = "idle")
    PROVE  StrayInv'
  BY DEF StrayInv, Disengaged, Waiting, Engaged, Contained, FailureOf, Compensating, Subscribers,
     Settled, Enlisting, pluginVars, installVars

\* A failure is added to those of the outcome; the plan is kept.
LEMMA FailureAdded ==
    ASSUME TypeOK, NEW p, NEW op, Failed(p, op)
    PROVE  /\ outcome'.failures = outcome.failures \cup {<<p, op>>}
           /\ outcome'.plan = outcome.plan /\ outcome'.blocked = outcome.blocked
  BY DEF Failed, TypeOK, Outcome

LEMMA StrayDeactivate ==
    ASSUME TypeInv, StrayInv, Deactivate PROVE StrayInv'
<1>0. PICK p \in Plugin : p = Least(todo) /\ p \in todo
  BY FirstOfTodo DEF Deactivate, TypeInv
<1>1. p \in todo /\ todo' = todo \ {p}
  BY <1>0 DEF Deactivate
<1>2. pc = "deactivate" /\ pc' = pc
  BY DEF Deactivate
<1>3. /\ \A q \in Plugin \ {p} : active'[q] = active[q]
      /\ \/ ~active'[p] /\ UNCHANGED <<outcome, failedDeactivation>>
         \/ failedDeactivation' = failedDeactivation \cup {p} /\ Failed(p, "deactivate")
  BY <1>0 DEF Deactivate, MaySetActive, TypeInv, TypeOK
<1>4. CASE UNCHANGED <<outcome, failedDeactivation>> /\ ~active'[p]
  BY <1>1, <1>2, <1>3, <1>4 DEF StrayInv, Disengaged, Waiting, Engaged, Contained, Settled, Enlisting
<1>5. CASE failedDeactivation' = failedDeactivation \cup {p} /\ Failed(p, "deactivate")
  <2>1. outcome'.failures = outcome.failures \cup {<<p, "deactivate">>}
    BY <1>5, FailureAdded DEF TypeInv
  <2> QED
    BY <1>1, <1>2, <1>3, <1>5, <2>1 DEF StrayInv, Disengaged, Waiting, Engaged, Contained, Settled, Enlisting
<1> QED BY <1>3, <1>4, <1>5

LEMMA StraySubscription ==
    ASSUME TypeInv, StrayInv, UpdateSubscription PROVE StrayInv'
<1>1. PICK p \in Plugin : p = Least(todo) /\ p \in todo
  BY FirstOfTodo DEF UpdateSubscription, TypeInv
<1>2. pc = "subscribe" /\ UNCHANGED <<active, current, blocked, failedDeactivation, status>>
  BY DEF UpdateSubscription, planVars
<1>3. /\ \A q \in Plugin \ {p} : subscribed'[q] = subscribed[q]
      /\ \/ /\ subscribed'[p] = outcome.plan.gen
            /\ pc' = "activate" /\ UNCHANGED <<outcome, todo>>
         \/ Failed(p, "subscription") /\ todo' = todo \ {p} /\ pc' = pc
  BY <1>1 DEF UpdateSubscription, MaySubscribe, TypeInv, TypeOK
<1>4. p \in Subscribers /\ ~active[p] /\ <<p, "activate">> \notin outcome.failures
  BY <1>1, <1>2 DEF StrayInv, Waiting, Enlisting, Compensating
<1>5. CASE subscribed'[p] = outcome.plan.gen /\ pc' = "activate" /\ UNCHANGED <<outcome, todo>>
  <2>1. Least(todo)' = p
    BY <1>1, <1>5
  <2> QED
    BY <1>1, <1>2, <1>3, <1>4, <1>5, <2>1 DEF StrayInv, Disengaged, Waiting, Engaged, Contained, FailureOf,
       Compensating, Subscribers, Settled, Enlisting
<1>6. CASE Failed(p, "subscription") /\ todo' = todo \ {p} /\ pc' = pc
  <2>1. /\ outcome'.failures = outcome.failures \cup {<<p, "subscription">>}
        /\ outcome'.plan = outcome.plan /\ outcome'.blocked = outcome.blocked
    BY <1>6, FailureAdded DEF TypeInv
  <2>2. Disengaged' /\ Contained'
    BY <1>2, <1>6, <2>1 DEF StrayInv, Disengaged, Contained, Settled, Enlisting
  <2>3. Waiting'
    BY <1>2, <1>6, <2>1 DEF StrayInv, Waiting, Subscribers, Compensating, Enlisting
  <2>4. Engaged'
    <3>1. FailureOf(p)'
      BY <2>1 DEF FailureOf, Operations
    <3> QED
      BY <1>2, <1>3, <1>4, <1>6, <2>1, <3>1 DEF StrayInv, Engaged, FailureOf, Compensating, Enlisting
  <2> QED BY <2>2, <2>3, <2>4 DEF StrayInv
<1> QED BY <1>3, <1>5, <1>6

LEMMA StraySetActive ==
    ASSUME TypeInv, StrayInv, SetActive PROVE StrayInv'
<1>1. PICK p \in Plugin : p = Least(todo) /\ p \in todo
  BY FirstOfTodo DEF SetActive, TypeInv, TodoLeft
<1>2. pc = "activate" /\ UNCHANGED <<subscribed, current, blocked, failedDeactivation, status>>
  BY DEF SetActive, planVars
<1>3. /\ \A q \in Plugin \ {p} : active'[q] = active[q]
      /\ \/ UNCHANGED outcome /\ todo' = todo \ {p} /\ pc' = "subscribe"
         \/ Failed(p, "activate") /\ todo' = todo /\ pc' = "compensate"
  BY <1>1 DEF SetActive, MaySetActive, TypeInv, TypeOK
<1>4. /\ p \in Subscribers /\ ~active[p] /\ <<p, "activate">> \notin outcome.failures
      /\ subscribed[p] = outcome.plan.gen
  BY <1>1, <1>2 DEF StrayInv, Waiting, Engaged, Enlisting, Compensating
<1>5. CASE UNCHANGED outcome /\ todo' = todo \ {p} /\ pc' = "subscribe"
  <2>1. Disengaged' /\ Contained'
    BY <1>2, <1>5 DEF StrayInv, Disengaged, Contained, Settled, Enlisting
  <2>2. Waiting'
    BY <1>1, <1>2, <1>3, <1>5 DEF StrayInv, Waiting, Subscribers, Compensating, Enlisting, TypeInv, TypeOK
  <2>3. Engaged'
    BY <1>2, <1>3, <1>4, <1>5 DEF StrayInv, Engaged, FailureOf, Compensating, Subscribers, Enlisting
  <2> QED BY <2>1, <2>2, <2>3 DEF StrayInv
<1>6. CASE Failed(p, "activate") /\ todo' = todo /\ pc' = "compensate"
  <2>1. Least(todo)' = p
    BY <1>1, <1>6
  <2>2. /\ outcome'.failures = outcome.failures \cup {<<p, "activate">>}
        /\ outcome'.plan = outcome.plan /\ outcome'.blocked = outcome.blocked
    BY <1>6, FailureAdded DEF TypeInv
  <2>3. Disengaged' /\ Contained'
    BY <1>2, <1>6, <2>2 DEF StrayInv, Disengaged, Contained, Settled, Enlisting
  <2>4. Waiting'
    BY <1>1, <1>2, <1>3, <1>6, <2>1, <2>2 DEF StrayInv, Waiting, Subscribers, Compensating, Enlisting, TypeInv, TypeOK
  <2>5. Engaged'
    <3>1. FailureOf(p)'
      BY <2>2 DEF FailureOf, Operations
    <3> QED
      BY <1>2, <1>3, <1>4, <1>6, <2>1, <2>2, <3>1 DEF StrayInv, Engaged, FailureOf, Compensating, Enlisting
  <2> QED BY <2>3, <2>4, <2>5 DEF StrayInv
<1> QED BY <1>3, <1>5, <1>6

LEMMA StrayCompensate ==
    ASSUME TypeInv, StrayInv, Compensate PROVE StrayInv'
<1>0. PICK p \in Plugin : p = Least(todo) /\ p \in todo
  BY FirstOfTodo DEF Compensate, Step, TypeInv, TodoLeft
<1>1. p \in todo /\ todo' = todo \ {p}
  BY <1>0 DEF Compensate
<1>2. pc = "compensate" /\ pc' = "subscribe" /\ UNCHANGED <<subscribed, current, blocked, failedDeactivation, status>>
  BY DEF Compensate, Step, planVars
<1>3. /\ \A q \in Plugin \ {p} : active'[q] = active[q]
      /\ outcome'.plan = outcome.plan /\ outcome.failures \subseteq outcome'.failures
      /\ outcome'.failures \subseteq outcome.failures \cup {<<p, "deactivate">>}
      /\ \/ ~active'[p] /\ outcome'.blocked = outcome.blocked
         \/ outcome'.blocked
  <2>1. \/ ~active'[p] /\ UNCHANGED outcome
        \/ outcome' = [outcome EXCEPT !.failures = @ \cup {<<p, "deactivate">>}, !.blocked = TRUE]
    BY <1>0 DEF Compensate, TypeInv, TypeOK
  <2>2. \A q \in Plugin \ {p} : active'[q] = active[q]
    BY <1>0 DEF Compensate, MaySetActive, TypeInv, TypeOK
  <2> QED BY <2>1, <2>2 DEF TypeInv, TypeOK, Outcome
<1>4. \A q \in todo \ {p} : ~active[q] /\ <<q, "activate">> \notin outcome.failures
  BY <1>0, <1>2 DEF StrayInv, Waiting, Enlisting, Compensating
<1>5. <<p, "activate">> \in outcome.failures
  BY <1>0, <1>2 DEF StrayInv, Engaged
<1>6. \A q \in Plugin : active[q] /\ <<q, "activate">> \in outcome.failures => outcome.blocked \/ q = p
  BY <1>0, <1>2 DEF StrayInv, Engaged, Compensating, Enlisting
<1>7. Disengaged' /\ Contained'
  BY <1>2, <1>3 DEF StrayInv, Disengaged, Contained, Settled, Enlisting
<1>8. Waiting'
  BY <1>1, <1>2, <1>3, <1>4 DEF StrayInv, Waiting, Subscribers, Compensating, Enlisting, TypeInv, TypeOK
<1>9. Engaged'
  BY <1>1, <1>2, <1>3, <1>5, <1>6 DEF StrayInv, Engaged, FailureOf, Operations, Compensating, Enlisting
<1> QED BY <1>7, <1>8, <1>9 DEF StrayInv

LEMMA StrayStep == TypeInv /\ OutputInv /\ StrayInv /\ [Next]_vars => StrayInv'
<1> SUFFICES ASSUME TypeInv, OutputInv, StrayInv, [Next]_vars PROVE StrayInv'
  OBVIOUS
<1>1. CASE Activate
  <2>1. /\ pc = "idle" /\ pc' = "clear" /\ outcome'.failures = {}
        /\ UNCHANGED <<active, subscribed, current, blocked, status>>
    BY <1>1, Activated DEF pluginVars, planVars
  <2> QED
    BY <2>1, ContainedKept DEF StrayInv, Disengaged, Waiting, Engaged, Settled, Enlisting
<1>2. CASE Abandon
  <2>1. /\ pc = "clear" /\ pc' = "idle"
        /\ UNCHANGED <<active, subscribed, current, blocked, status>>
    BY <1>2 DEF Abandon, Step, pluginVars, planVars
  <2> QED
    BY <2>1, ContainedKept DEF StrayInv, Disengaged, Waiting, Engaged, Settled, Enlisting
<1>3. CASE ClearRuntime
  <2>1. /\ pc = "clear" /\ pc' = "generation" /\ todo' = Plugin /\ failedDeactivation' = {}
        /\ UNCHANGED <<active, subscribed, current, blocked, status, outcome>>
    BY <1>3 DEF ClearRuntime, Step, pluginVars, planVars
  <2> QED
    BY <2>1 DEF StrayInv, Disengaged, Waiting, Engaged, Contained, Settled, Enlisting
<1>4. CASE SetGeneration
  <2>1. /\ pc = "generation" /\ pc' = "deactivate"
        /\ UNCHANGED <<active, subscribed, current, blocked, status, todo, failedDeactivation>>
    BY <1>4 DEF SetGeneration, Step, pluginVars, planVars
  <2>2. outcome'.failures = outcome.failures
    BY <1>4, <2>1, GenerationSet DEF OutputInv, InGeneration
  <2> QED
    BY <2>1, <2>2 DEF StrayInv, Disengaged, Waiting, Engaged, Contained, Settled, Enlisting
<1>5. CASE Deactivated
  <2>1. /\ pc = "deactivate" /\ todo = {}
        /\ \/ pc' = "publish"
           \/ pc' = "subscribe" /\ todo' = Subscribers
        /\ UNCHANGED <<active, subscribed, current, blocked, status, outcome, failedDeactivation>>
    BY <1>5, Zenon DEF Deactivated, pluginVars, planVars
  <2>2. \A p \in Plugin : active[p] =>
           p \in failedDeactivation /\ FailureOf(p) /\ <<p, "activate">> \notin outcome.failures
    BY <2>1 DEF StrayInv, Disengaged, FailureOf, Operations
  <2>3. \A p \in Plugin : <<p, "activate">> \notin outcome.failures
    BY <2>1 DEF StrayInv, Disengaged
  <2>4. Disengaged' /\ Contained'
    BY <2>1 DEF StrayInv, Disengaged, Contained, Settled, Enlisting
  <2>5. Waiting'
    BY <2>1, <2>2, <2>3 DEF Waiting, Subscribers, Compensating, Enlisting, TypeInv, TypeOK, Outcome, Plan, NoPlan
  <2>6. Engaged'
    BY <2>1, <2>2 DEF Engaged, FailureOf, Enlisting
  <2> QED BY <2>4, <2>5, <2>6 DEF StrayInv
<1>6. CASE InstallCatalog
  <2>1. /\ pc = "subscribe" /\ pc' = "publish"
        /\ UNCHANGED <<active, subscribed, current, blocked, status, outcome, todo, failedDeactivation>>
    BY <1>6 DEF InstallCatalog, Step, pluginVars, planVars, installVars
  <2> QED
    BY <2>1 DEF StrayInv, Disengaged, Waiting, Engaged, Contained, FailureOf, Compensating, Settled, Enlisting
<1>7. CASE PublishInstallStatus
  <2>1. /\ pc = "publish" /\ pc' = "idle" /\ current' = outcome.plan /\ blocked' = outcome.blocked
        /\ UNCHANGED <<active, subscribed>>
    BY <1>7 DEF PublishInstallStatus, Step, pluginVars
  <2>2. status'.failures = outcome.failures
    BY <1>7, InstallStatus DEF TypeInv
  <2> QED
    BY <2>1, <2>2 DEF StrayInv, Disengaged, Waiting, Engaged, Contained, FailureOf, Compensating, Settled, Enlisting
<1>8. CASE Processing
  BY <1>8, ProcessingStatus, StrayKept DEF TypeInv
<1>9. CASE Stop
  BY <1>9, StrayKept DEF Stop, Step, planVars
<1>10. CASE Environment
  <2>1. UNCHANGED <<pluginVars, current, blocked, installVars, status, pc>>
    BY <1>10, Zenon DEF Environment, AvatarChange, SendFails, Submit, planVars
  <2> QED BY <2>1, StrayKept
<1>11. CASE Lifecycle
  BY <1>11, LifecycleStatus, StrayKept DEF TypeInv, rest, planVars
<1>12. CASE UNCHANGED vars
  BY <1>12, StrayKept DEF vars, planVars
<1> QED
  BY <1>1, <1>2, <1>3, <1>4, <1>5, <1>6, <1>7, <1>8, <1>9, <1>10, <1>11, <1>12, StrayDeactivate,
     StraySubscription, StraySetActive, StrayCompensate DEF Next, Installing

\* A plugin that a control failed for never goes unnoticed: it is in the status,
\* and OSC has no catalog while its activation is uncertain.
THEOREM StraysContained == Spec => []StraysAreContained
<1>1. Spec => []StrayInv
  BY Types, OutputIsInvariant, StrayInit, StrayStep, PTL DEF Spec
<1> QED BY Types, OutputIsInvariant, <1>1, StrayFollows, PTL

=============================================================================
