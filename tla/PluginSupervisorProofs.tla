------------------------ MODULE PluginSupervisorProofs ------------------------
(***************************************************************************)
(* Proofs about PluginSupervisor, for any number of commands, sessions,    *)
(* versions and failures: its sessions and their timers first, then the    *)
(* commands and the control state: every command is answered once, the     *)
(* published value is the loop's own, a control never rolls the state      *)
(* back, and a settled session knows it.                                   *)
(***************************************************************************)
EXTENDS PluginSupervisor, TLAPS

\* Identities above the last one handed out have never been launched.
FreshAbove == \A id \in Sessions : id > instance => sess[id].phase = "none"

\* The part of the type invariant the argument about live sessions needs.
SessionTypes ==
    /\ instance \in 0 .. MaxSession
    /\ session \in BOOLEAN
    /\ sess \in [Sessions -> SessionRecords]

LiveInv == SessionTypes /\ FreshAbove /\ SingleLiveSession

\* The variables LiveInv depends on.
liveVars == <<session, instance, sess>>

LEMMA LiveInvInit == Init => LiveInv
<1> SUFFICES ASSUME Init PROVE LiveInv
  OBVIOUS
<1>1. PICK on \in BOOLEAN :
        LET go == on /\ MaxSession > 0
        IN  /\ session = go
            /\ instance = IF go THEN 1 ELSE 0
            /\ sess = [i \in Sessions |->
                        [phase |-> IF go /\ i = 1 THEN "launching" ELSE "none",
                         ran |-> FALSE, result |-> "ok", steady |-> FALSE]]
  BY DEF Init
<1>2. SessionTypes
  BY <1>1, SupervisorAssumption DEF SessionTypes, Sessions, SessionRecords
<1>3. FreshAbove
  BY <1>1, SupervisorAssumption DEF FreshAbove, Sessions
<1>4. SingleLiveSession
  BY <1>1, SupervisorAssumption DEF SingleLiveSession, Live, Sessions
<1> QED
  BY <1>2, <1>3, <1>4 DEF LiveInv

\* Launching a session with a fresh identity is safe once no session is alive.
LEMMA StartSessionLive ==
    ASSUME SessionTypes, FreshAbove, \A id \in Sessions : ~Live(id),
           NEW s, StartSession(s)
    PROVE  LiveInv'
<1>1. CASE Exhausted
  BY <1>1 DEF StartSession, LiveInv, SessionTypes, FreshAbove, SingleLiveSession, Live
<1>2. CASE ~Exhausted
  <2>1. /\ session' = TRUE
        /\ instance' = instance + 1
        /\ sess' = [sess EXCEPT ![instance + 1].phase = "launching"]
    BY <1>2 DEF StartSession
  <2>2. instance + 1 \in Sessions
    BY <1>2, SupervisorAssumption DEF Exhausted, SessionTypes, Sessions
  <2>3. SessionTypes'
    BY <2>1, <2>2 DEF SessionTypes, Sessions, SessionRecords
  <2>4. FreshAbove'
    BY <2>1, <2>2 DEF FreshAbove, SessionTypes, Sessions, SessionRecords
  <2>5. SingleLiveSession'
    BY <2>1, <2>2 DEF SingleLiveSession, Live, SessionTypes, SessionRecords
  <2> QED BY <2>3, <2>4, <2>5 DEF LiveInv
<1> QED BY <1>1, <1>2

LEMMA LiveInvStutter == LiveInv /\ UNCHANGED liveVars => LiveInv'
  BY DEF LiveInv, liveVars, SessionTypes, FreshAbove, SingleLiveSession, Live

\* Every step of the loop, of the sessions and of the callers keeps LiveInv.
LEMMA LiveInvNext == LiveInv /\ [Next]_vars => LiveInv'
<1> SUFFICES ASSUME LiveInv, [Next]_vars PROVE LiveInv'
  OBVIOUS
<1> USE DEF LiveInv
<1> DEFINE NoneLive == \A id \in Sessions : ~Live(id)
<1>0. ~session => NoneLive
  BY DEF SingleLiveSession
<1>1. ASSUME NEW c \in Cmd, HandleCommand(c) PROVE LiveInv'
  <2>1. CASE RejectCommand(c)
    BY <2>1, LiveInvStutter DEF RejectCommand, loopVars, liveVars
  <2>2. CASE EnableCommand(c)
    <3>1. CASE ~session /\ (~snap.enabled \/ snap.state = "stopped")
      BY <1>0, <2>2, <3>1, StartSessionLive DEF EnableCommand
    <3>2. CASE ~(~session /\ (~snap.enabled \/ snap.state = "stopped"))
      BY <2>2, <3>2, LiveInvStutter DEF EnableCommand, sessionVars, liveVars
    <3> QED BY <3>1, <3>2
  <2>3. CASE DisableCommand(c)
    BY <2>3, LiveInvStutter DEF DisableCommand, BeginStop, sessionVars, liveVars
  <2>4. CASE RestartCommand(c)
    <3>1. CASE snap.enabled /\ ~session
      BY <1>0, <2>4, <3>1, StartSessionLive DEF RestartCommand
    <3>2. CASE ~(snap.enabled /\ ~session)
      BY <2>4, <3>2, LiveInvStutter DEF RestartCommand, BeginStop, sessionVars, liveVars
    <3> QED BY <3>1, <3>2
  <2>5. CASE CloseCommand(c)
    BY <2>5, LiveInvStutter DEF CloseCommand, BeginStop, sessionVars, liveVars
  <2>6. CASE ConfigCommand(c)
    BY <2>6, LiveInvStutter DEF ConfigCommand, sessionVars, liveVars
  <2>7. CASE ControlCommand(c)
    BY <2>7, LiveInvStutter DEF ControlCommand, sessionVars, liveVars
  <2> QED BY <1>1, <2>1, <2>2, <2>3, <2>4, <2>5, <2>6, <2>7 DEF HandleCommand
<1>2. ASSUME NEW r \in ctlResults, HandleControlResult(r) PROVE LiveInv'
  BY <1>2, LiveInvStutter DEF HandleControlResult, sessionVars, liveVars
<1>3. ASSUME NEW id \in stopCalls, HandleStopResult(id) PROVE LiveInv'
  <2>1. CASE id # instance \/ intent = "none"
    BY <1>3, <2>1, LiveInvStutter DEF HandleStopResult, sessionVars, liveVars
  <2>2. CASE id = instance /\ intent # "none"
    \* The session that was asked to stop is the only one that could be alive.
    <3>1. NoneLive
      BY <1>3, <2>2 DEF HandleStopResult, StopReturned, SingleLiveSession, Live
    <3>2. CASE intent = "restart" /\ snap.enabled
      BY <1>3, <2>2, <3>1, <3>2, StartSessionLive DEF HandleStopResult
    <3>3. CASE ~(intent = "restart" /\ snap.enabled)
      BY <1>3, <2>2, <3>1, <3>3
      DEF HandleStopResult, SessionTypes, FreshAbove, SingleLiveSession, Live
    <3> QED BY <3>2, <3>3
  <2> QED BY <2>1, <2>2
<1>4. ASSUME NEW id \in watching, HandleSessionResult(id) PROVE LiveInv'
  <2>1. CASE id # instance \/ ~session \/ intent # "none"
    BY <1>4, <2>1, LiveInvStutter DEF HandleSessionResult, liveVars
  <2>2. CASE ~(id # instance \/ ~session \/ intent # "none")
    BY <1>4, <2>2
    DEF HandleSessionResult, SessionTypes, FreshAbove, SingleLiveSession, Live
  <2> QED BY <2>1, <2>2
<1>5. CASE HandleCritical
  BY <1>5, LiveInvStutter DEF HandleCritical, liveVars
<1>6. CASE HandleTelemetry
  BY <1>6, LiveInvStutter DEF HandleTelemetry, liveVars
<1>7. CASE RestartTimerFires
  <2>1. CASE snap.enabled /\ ~closing /\ ~session
    BY <1>0, <1>7, <2>1, StartSessionLive DEF RestartTimerFires
  <2>2. CASE ~(snap.enabled /\ ~closing /\ ~session)
    BY <1>7, <2>2, LiveInvStutter DEF RestartTimerFires, sessionVars, liveVars
  <2> QED BY <2>1, <2>2
<1>8. CASE StableTimerFires
  BY <1>8, LiveInvStutter DEF StableTimerFires, sessionVars, liveVars
<1>9. ASSUME NEW id \in Sessions, SessionStep(id) PROVE LiveInv'
  <2> USE DEF SessionTypes, FreshAbove, SingleLiveSession, Live, SessionRecords,
              sessionOnly, restOfLoop, loopVars
  <2>1. CASE ProcessStarted(id)
    BY <2>1 DEF ProcessStarted
  <2>2. CASE Ready(id)
    BY ZenonT(60), <2>2 DEF Ready
  <2>3. CASE Unresponsive(id)
    BY <2>3 DEF Unresponsive
  <2>4. CASE SessionFails(id)
    BY <2>4 DEF SessionFails
  <2>5. ASSUME NEW result \in {"ok", "retryable", "fatal"}, NEW steady \in BOOLEAN,
               SessionEnds(id, result, steady)
        PROVE  LiveInv'
    BY <2>5 DEF SessionEnds
  <2>6. CASE Telemetry(id)
    BY <2>6 DEF Telemetry
  <2> QED BY <1>9, <2>1, <2>2, <2>3, <2>4, <2>5, <2>6 DEF SessionStep
<1>10. ASSUME NEW o \in ops, ControlSucceeds(o) \/ ControlFails(o) PROVE LiveInv'
  BY <1>10, LiveInvStutter
  DEF ControlSucceeds, ControlFails, ControlReturns, sessionOnly, restOfLoop, loopVars, liveVars
<1>11. ASSUME NEW c \in Cmd, NEW k \in Command, SendCommand(c, k) PROVE LiveInv'
  BY <1>11, LiveInvStutter DEF SendCommand, restOfLoop, loopVars, liveVars
<1>12. ASSUME NEW c \in Cmd, CancelCommand(c) PROVE LiveInv'
  BY <1>12, LiveInvStutter DEF CancelCommand, restOfLoop, loopVars, liveVars
<1>13. CASE UNCHANGED vars
  BY <1>13, LiveInvStutter DEF vars, loopVars, liveVars
<1> QED
  BY <1>1, <1>2, <1>3, <1>4, <1>5, <1>6, <1>7, <1>8, <1>9, <1>10, <1>11, <1>12, <1>13
  DEF Next, LoopStep

\* The supervisor never has two live sessions, and the live one is its own,
\* whatever the interleaving of commands, crashes, timers and stop results
\* (supervisor.go: startSession, beginStop, handleStopResult, handleSessionResult).
THEOREM SingleLive == Spec => []SingleLiveSession
<1>1. Init => LiveInv
  BY LiveInvInit
<1>2. LiveInv /\ [Next]_vars => LiveInv'
  BY LiveInvNext
<1>3. LiveInv => SingleLiveSession
  BY DEF LiveInv
<1> QED
  BY <1>1, <1>2, <1>3, PTL DEF Spec

-----------------------------------------------------------------------------
(* Type correctness: first what the shared fragments of the handlers do. *)

LEMMA ZeroSession == 0 \in 0 .. MaxSession /\ MaxSession \in Nat
  BY SupervisorAssumption

LEMMA UnsetType == Unset \in Versioned
  BY DEF Unset, Versioned

LEMMA NoOpType == NoOp \in Ops /\ NoOp.op = 0
  BY UnsetType, ZeroSession DEF NoOp, Ops, Control

LEMMA SnapshotFields ==
    ASSUME NEW s \in Snapshot
    PROVE  /\ s.enabled \in BOOLEAN /\ s.failures \in Nat
           /\ Cleared(s) \in Snapshot /\ TimerOff(s) \in Snapshot
           /\ \A x \in BOOLEAN : [s EXCEPT !.enabled = x] \in Snapshot
           /\ \A x \in States : [s EXCEPT !.state = x] \in Snapshot
           /\ \A x \in {"", "failed", "limit"} : [s EXCEPT !.error = x] \in Snapshot
           /\ \A x \in Nat : [s EXCEPT !.failures = x] \in Snapshot
<1>1. Cleared(s) \in Snapshot
  BY ZeroSession DEF Cleared, Snapshot
<1>2. TimerOff(s) \in Snapshot
  BY DEF TimerOff, Snapshot
<1> QED BY <1>1, <1>2 DEF Snapshot

LEMMA AnswerType ==
    ASSUME reply \in [Cmd -> Seq(Replies)], NEW f,
           \A c \in DOMAIN f : f[c] \in Replies, Answer(f)
    PROVE  reply' \in [Cmd -> Seq(Replies)]
  BY DEF Answer

LEMMA CommandType ==
    ASSUME NEW c \in Command \cup {NoCommand} PROVE c.version \in Versioned /\ c.active \in BOOLEAN
<1>1. CASE c = NoCommand
  BY <1>1, UnsetType DEF NoCommand
<1>2. CASE c \in Command
  BY <1>2, UnsetType DEF Command
<1> QED BY <1>1, <1>2

LEMMA ApplyVersionType ==
    \A u, v : ApplyVersion(u, v) \in {"changed", "same", "rejected"}
  BY DEF ApplyVersion

LEMMA ApplyControlType ==
    ASSUME NEW ctl \in Control, NEW c \in Command \cup {NoCommand}
    PROVE  /\ ApplyControl(ctl, c).next \in Control
           /\ ApplyControl(ctl, c).verdict \in {"changed", "same", "rejected"}
<1>0. /\ [ctl EXCEPT !.config = c.version] \in Control
      /\ [ctl EXCEPT !.sub = c.version] \in Control
      /\ [ctl EXCEPT !.active = c.active] \in Control
  BY CommandType DEF Control
<1>1. CASE c.kind = "config"
  <2> DEFINE v == ApplyVersion(ctl.config, c.version)
  <2>1. ApplyControl(ctl, c) =
          [verdict |-> v,
           next |-> IF v = "changed" THEN [ctl EXCEPT !.config = c.version] ELSE ctl]
    BY <1>1 DEF ApplyControl
  <2>2. v \in {"changed", "same", "rejected"}
    BY ApplyVersionType
  <2> HIDE DEF v
  <2> QED BY <1>0, <2>1, <2>2
<1>2. CASE c.kind = "subscription"
  <2> DEFINE v == IF ctl.active /\ c.version.ver = 0 THEN "rejected"
                  ELSE ApplyVersion(ctl.sub, c.version)
  <2>1. ApplyControl(ctl, c) =
          [verdict |-> v,
           next |-> IF v = "changed" THEN [ctl EXCEPT !.sub = c.version] ELSE ctl]
    BY <1>2 DEF ApplyControl
  <2>2. v \in {"changed", "same", "rejected"}
    BY ApplyVersionType
  <2> HIDE DEF v
  <2> QED BY <1>0, <2>1, <2>2
<1>3. CASE c.kind # "config" /\ c.kind # "subscription"
  <2>1. ApplyControl(ctl, c) =
          [verdict |-> IF ctl.active # c.active \/ ~c.active THEN "changed" ELSE "same",
           next |-> [ctl EXCEPT !.active = c.active]]
    BY <1>3 DEF ApplyControl
  <2> QED BY <1>0, <2>1
<1> QED BY <1>1, <1>2, <1>3

LEMMA PublishType ==
    ASSUME snap' \in Snapshot, control' \in Control, Publish
    PROVE  published' \in [snap : Snapshot, control : Control]
  BY DEF Publish

LEMMA StartSessionType ==
    ASSUME TypeOK, NEW s \in Snapshot, StartSession(s)
    PROVE  /\ snap' \in Snapshot /\ session' \in BOOLEAN /\ stable' \in 0 .. MaxSession
           /\ instance' \in 0 .. MaxSession /\ instance' >= instance
           /\ session' => instance' \in Sessions
           /\ sess' \in [Sessions -> SessionRecords]
           /\ told' \in [Sessions -> Control]
           /\ watching' \in SUBSET Sessions
<1> DEFINE fresh == TimerOff(Cleared(s))
<1>1. fresh \in Snapshot
  BY SnapshotFields
<1>0. stable' \in 0 .. MaxSession
  BY ZeroSession DEF StartSession
<1>2. CASE Exhausted
  <2>1. snap' = [fresh EXCEPT !.state = "incompatible", !.error = "failed"]
    BY <1>2 DEF StartSession
  <2>2. "incompatible" \in States
    BY DEF States
  <2>3. snap' \in Snapshot
    <3> HIDE DEF fresh
    <3> QED BY <1>1, <2>1, <2>2 DEF Snapshot
  <2>4. session' = FALSE /\ UNCHANGED <<instance, sess, told, watching>>
    BY <1>2 DEF StartSession
  <2>5. session' \in BOOLEAN /\ (session' => instance' \in Sessions)
    BY <2>4
  <2>6. instance' \in 0 .. MaxSession /\ instance' >= instance
    BY <2>4, ZeroSession DEF TypeOK, TypeLoop
  <2>7. /\ sess' \in [Sessions -> SessionRecords] /\ told' \in [Sessions -> Control]
        /\ watching' \in SUBSET Sessions
    BY <2>4 DEF TypeOK, TypeSessions
  <2> QED BY <1>0, <2>3, <2>5, <2>6, <2>7
<1>3. CASE ~Exhausted
  <2>1. instance + 1 \in Sessions /\ instance + 1 \in 0 .. MaxSession /\ instance + 1 >= instance
    BY <1>3, ZeroSession DEF Exhausted, TypeOK, TypeLoop, Sessions
  <2>2. snap' = [fresh EXCEPT !.state = "starting", !.session = instance + 1]
    BY <1>3 DEF StartSession
  <2>3. "starting" \in States
    BY DEF States
  <2>4. snap' \in Snapshot
    <3> HIDE DEF fresh
    <3> QED BY <1>1, <2>1, <2>2, <2>3 DEF Snapshot
  <2>5. sess' \in [Sessions -> SessionRecords]
    <3>1. sess' = [sess EXCEPT ![instance + 1].phase = "launching"]
      BY <1>3 DEF StartSession
    <3>2. \A r \in SessionRecords : [r EXCEPT !.phase = "launching"] \in SessionRecords
      BY DEF SessionRecords
    <3> QED BY <2>1, <3>1, <3>2 DEF TypeOK, TypeSessions
  <2>6. told' \in [Sessions -> Control]
    BY <1>3, <2>1 DEF StartSession, TypeOK, TypeSessions, TypeControls
  <2>7. session' = TRUE /\ instance' = instance + 1 /\ watching' = watching \cup {instance + 1}
    BY <1>3 DEF StartSession
  <2> QED BY <1>0, <2>1, <2>4, <2>5, <2>6, <2>7 DEF TypeOK, TypeSessions
<1> QED BY <1>2, <1>3

LEMMA RetiredType == TypeOK => Retired \subseteq Cmd
  BY DEF TypeOK, TypeControls, Retired, Queued

LEMMA RetireControlsType ==
    TypeOK /\ RetireControls =>
        queue' \in Seq(Cmd) /\ controlID' \in Nat /\ inFlight' \in Ops /\ inFlight'.op = 0
  BY NoOpType DEF RetireControls, TypeOK, TypeControls

LEMMA BeginStopType ==
    ASSUME TypeOK, session, NEW s \in Snapshot,
           NEW why \in {"disable", "restart", "close"}, BeginStop(s, why)
    PROVE  /\ snap' \in Snapshot /\ stable' \in 0 .. MaxSession
           /\ intent' \in {"none", "disable", "restart", "close"}
           /\ reply' \in [Cmd -> Seq(Replies)]
           /\ queue' \in Seq(Cmd) /\ controlID' \in Nat /\ inFlight' \in Ops /\ inFlight'.op = 0
           /\ stopCalls' \in SUBSET Sessions
<1>1. snap' \in Snapshot
  <2>1. "stopping" \in States
    BY DEF States
  <2>2. Cleared(s) \in Snapshot
    BY SnapshotFields
  <2>3. [Cleared(s) EXCEPT !.state = "stopping"] \in Snapshot
    BY <2>1, <2>2, SnapshotFields
  <2> QED BY <2>3 DEF BeginStop
<1>2. reply' \in [Cmd -> Seq(Replies)]
  <2> DEFINE f == [c \in Retired |-> "invalid_state"]
  <2>1. \A c \in DOMAIN f : f[c] \in Replies
    BY DEF Replies
  <2>2. Answer(f)
    BY DEF BeginStop
  <2> HIDE DEF f
  <2> QED BY <2>1, <2>2, AnswerType DEF TypeOK, TypeCallers
<1>3. stopCalls' \in SUBSET Sessions
  BY DEF BeginStop, TypeOK, TypeLoop, TypeSessions
<1> QED BY <1>1, <1>2, <1>3, RetireControlsType, ZeroSession DEF BeginStop

LEMMA DispatchType ==
    ASSUME TypeOK, instance \in Sessions, NEW q \in Seq(Cmd), NEW ctl \in Control, NEW f,
           \A c \in DOMAIN f : f[c] \in Replies, Dispatch(q, ctl, f)
    PROVE  /\ reply' \in [Cmd -> Seq(Replies)]
           /\ queue' \in Seq(Cmd) /\ controlID' \in Nat
           /\ inFlight' \in Ops /\ (inFlight'.op # 0 => inFlight'.cmd \in Cmd)
           /\ ops' \in SUBSET Ops /\ \A o \in ops' : o.cmd \in Cmd /\ o.instance \in Sessions
<1>1. PICK n \in 0 .. Len(q) : Dispatch(q, ctl, f)!(n)
  BY DEF Dispatch
<1> DEFINE skipped == {q[i] : i \in 1 .. n}
           g == [x \in skipped \cup DOMAIN f |->
                   IF x \in DOMAIN f THEN f[x] ELSE DispatchVerdict(x, ctl)]
<1>2. reply' \in [Cmd -> Seq(Replies)]
  <2>1. \A x \in skipped : DispatchVerdict(x, ctl) \in Replies
    <3> SUFFICES ASSUME NEW i \in 1 .. n PROVE DispatchVerdict(q[i], ctl) \in Replies
      OBVIOUS
    <3>1. DispatchVerdict(q[i], ctl) # "run"
      BY <1>1
    <3> QED BY <3>1 DEF DispatchVerdict, Replies
  <2>2. \A x \in DOMAIN g : g[x] \in Replies
    BY <2>1
  <2>3. Answer(g)
    BY <1>1
  <2> HIDE DEF g
  <2> QED BY <2>2, <2>3, AnswerType DEF TypeOK, TypeCallers
<1>3. CASE n = Len(q)
  <2>1. queue' = << >> /\ inFlight' = NoOp /\ UNCHANGED <<controlID, ops>>
    BY <1>1, <1>3
  <2> QED BY <1>2, <2>1, NoOpType DEF TypeOK, TypeControls
<1>4. CASE n < Len(q)
  <2> DEFINE c == q[n + 1]
             nx == IF Durable(c) THEN ctl ELSE ApplyControl(ctl, cmd[c]).next
             o == [op |-> controlID + 1, instance |-> instance, cmd |-> c, next |-> nx]
  <2>1. /\ queue' = SubSeq(q, n + 2, Len(q))
        /\ inFlight' = o /\ controlID' = controlID + 1 /\ ops' = ops \cup {o}
    BY <1>1, <1>4
  <2>2. c \in Cmd
    BY <1>4
  <2>3. nx \in Control
    BY <2>2, ApplyControlType DEF TypeOK, TypeCallers
  <2>4. controlID + 1 \in Nat /\ controlID + 1 # 0 /\ instance \in 0 .. MaxSession
    BY DEF TypeOK, TypeControls, TypeLoop
  <2>5. o \in Ops /\ o.cmd \in Cmd /\ o.instance \in Sessions
    <3> HIDE DEF c, nx
    <3> QED BY <2>2, <2>3, <2>4 DEF Ops
  <2>6. SubSeq(q, n + 2, Len(q)) \in Seq(Cmd)
    BY <1>4
  <2> HIDE DEF o
  <2> QED BY <1>2, <2>1, <2>4, <2>5, <2>6 DEF TypeOK, TypeControls
<1> QED BY <1>3, <1>4

-----------------------------------------------------------------------------
(* Type correctness: one lemma per family of actions. *)

\* Every handler of a command takes it from the channel and leaves the callers,
\* the sessions' channels and the Control results alone.
LEMMA TakeType ==
    ASSUME TypeOK, NEW c \in Cmd, Take(c), reply' \in [Cmd -> Seq(Replies)]
    PROVE  /\ TypeCallers'
           /\ UNCHANGED <<critical, telemetry, ctlResults, cmd, cancelled>>
<1>1. commands' \in Seq(Cmd)
  BY DEF Take, TypeOK, TypeCallers
<1> QED BY <1>1 DEF Take, envVars, TypeOK, TypeCallers

LEMMA OneType ==
    ASSUME TypeOK, NEW c \in Cmd, NEW r \in Replies, Answer(One(c, r))
    PROVE  reply' \in [Cmd -> Seq(Replies)]
<1>1. \A x \in DOMAIN One(c, r) : One(c, r)[x] \in Replies
  BY DEF One
<1> QED BY <1>1, AnswerType DEF TypeOK, TypeCallers

LEMMA RejectCommandType ==
    ASSUME TypeOK, NEW c \in Cmd, RejectCommand(c) PROVE TypeOK'
<1>1. reply' \in [Cmd -> Seq(Replies)]
  <2>1. PICK r \in Replies : Answer(One(c, r))
    BY DEF RejectCommand, Replies
  <2> QED BY <2>1, OneType
<1>2. TypeCallers' /\ UNCHANGED <<critical, telemetry, ctlResults, cmd, cancelled>>
  BY <1>1, TakeType DEF RejectCommand
<1> QED BY <1>2 DEF RejectCommand, loopVars, TypeOK, TypeLoop, TypeControls, TypeSessions

LEMMA EnableCommandType ==
    ASSUME TypeOK, NEW c \in Cmd, EnableCommand(c) PROVE TypeOK'
<1> DEFINE on == [snap EXCEPT !.enabled = TRUE, !.error = ""]
           base == IF snap.enabled THEN snap ELSE on
           starts == ~session /\ (~snap.enabled \/ snap.state = "stopped")
<1>1. base \in Snapshot
  <2>1. [snap EXCEPT !.enabled = TRUE] \in Snapshot
    BY SnapshotFields DEF TypeOK, TypeLoop
  <2>2. on \in Snapshot
    BY <2>1, SnapshotFields
  <2> QED BY <2>2 DEF TypeOK, TypeLoop
<1>2. reply' \in [Cmd -> Seq(Replies)]
  BY OneType DEF EnableCommand, Replies
<1>3. TypeCallers' /\ UNCHANGED <<critical, telemetry, ctlResults, cmd, cancelled>>
  BY <1>2, TakeType DEF EnableCommand
<1>4. /\ snap' \in Snapshot /\ session' \in BOOLEAN /\ stable' \in 0 .. MaxSession
      /\ instance' \in 0 .. MaxSession
      /\ session' \/ inFlight.op # 0 => instance' \in Sessions
      /\ sess' \in [Sessions -> SessionRecords]
      /\ told' \in [Sessions -> Control]
      /\ watching' \in SUBSET Sessions
  <2>1. CASE starts
    <3>1. StartSession(base)
      BY <2>1 DEF EnableCommand
    <3>2. instance \in Sessions /\ instance' \in 0 .. MaxSession /\ instance' >= instance
             => instance' \in Sessions
      BY ZeroSession DEF Sessions
    <3> HIDE DEF base
    <3> QED BY <1>1, <3>1, <3>2, StartSessionType DEF TypeOK, TypeLoop
  <2>2. CASE ~starts
    <3>1. snap' = base /\ UNCHANGED <<session, instance, sess, told, watching, stable>>
      BY <2>2 DEF EnableCommand, sessionVars
    <3> HIDE DEF base
    <3> QED BY <1>1, <3>1 DEF TypeOK, TypeLoop, TypeSessions
  <2> QED BY <2>1, <2>2
<1>5. /\ UNCHANGED <<control, intent, disableReply, restartReply, closeReply, closing,
                     queue, controlID, inFlight, ops, done, stopCalls>>
      /\ timer' \in BOOLEAN
  BY DEF EnableCommand, queueVars
<1>6. published' \in [snap : Snapshot, control : Control]
  BY <1>4, <1>5, PublishType DEF EnableCommand, TypeOK, TypeControls
<1> QED BY <1>3, <1>4, <1>5, <1>6 DEF TypeOK, TypeLoop, TypeControls, TypeSessions

LEMMA StateNames == {"disabled", "stopped", "stopping", "incompatible", "crashed",
                     "backoff", "handshaking", "running", "unresponsive"} \subseteq States
  BY DEF States

\* The snapshot a plugin without a session shows after a disable or a close.
LEMMA DisabledType ==
    ASSUME NEW s \in Snapshot PROVE [Cleared(s) EXCEPT !.state = "disabled"] \in Snapshot
  BY SnapshotFields, StateNames

LEMMA DisableCommandType ==
    ASSUME TypeOK, NEW c \in Cmd, DisableCommand(c) PROVE TypeOK'
<1> DEFINE off == TimerOff([snap EXCEPT !.enabled = FALSE])
<1>1. off \in Snapshot
  BY SnapshotFields DEF TypeOK, TypeLoop
<1>2. /\ UNCHANGED <<control, session, instance, sess, told, watching, ops,
                     restartReply, closeReply, closing, done>>
      /\ timer' = FALSE
  BY DEF DisableCommand, BeginStop, sessionVars, queueVars
<1>3. /\ snap' \in Snapshot /\ stable' \in 0 .. MaxSession
      /\ intent' \in {"none", "disable", "restart", "close"}
      /\ reply' \in [Cmd -> Seq(Replies)]
      /\ queue' \in Seq(Cmd) /\ controlID' \in Nat /\ inFlight' \in Ops
      /\ inFlight'.op # 0 => inFlight'.op = inFlight.op /\ inFlight'.cmd \in Cmd
      /\ stopCalls' \in SUBSET Sessions
      /\ disableReply' \in Cmd \cup {NoCmd}
  <2>1. CASE session
    <3>1. BeginStop(off, "disable") /\ disableReply' = c
      BY <2>1 DEF DisableCommand
    <3> HIDE DEF off
    <3> QED BY <1>1, <2>1, <3>1, BeginStopType
  <2>2. CASE ~session
    <3>1. /\ snap' = [Cleared(off) EXCEPT !.state = "disabled"]
          /\ Answer(One(c, "ok"))
          /\ UNCHANGED <<queue, controlID, inFlight, stable, intent, stopCalls, disableReply>>
      BY <2>2 DEF DisableCommand, queueVars
    <3>2. reply' \in [Cmd -> Seq(Replies)]
      BY <3>1, OneType DEF Replies
    <3> HIDE DEF off
    <3> QED BY <1>1, <3>1, <3>2, DisabledType
            DEF TypeOK, TypeLoop, TypeControls, TypeSessions
  <2> QED BY <2>1, <2>2
<1>4. TypeCallers' /\ UNCHANGED <<critical, telemetry, ctlResults, cmd, cancelled>>
  BY <1>3, TakeType DEF DisableCommand
<1>5. published' \in [snap : Snapshot, control : Control]
  BY <1>2, <1>3, PublishType DEF DisableCommand, TypeOK, TypeControls
<1>6. session' \/ inFlight'.op # 0 => instance' \in Sessions
  BY <1>2, <1>3 DEF TypeOK, TypeLoop
<1> HIDE DEF off
<1> QED BY <1>2, <1>3, <1>4, <1>5, <1>6 DEF TypeOK, TypeLoop, TypeControls, TypeSessions

LEMMA RestartCommandType ==
    ASSUME TypeOK, NEW c \in Cmd, RestartCommand(c) PROVE TypeOK'
<1> DEFINE s == TimerOff([snap EXCEPT !.failures = 0, !.error = ""])
<1>1. s \in Snapshot
  <2>1. [snap EXCEPT !.failures = 0] \in Snapshot
    BY SnapshotFields DEF TypeOK, TypeLoop
  <2> QED BY <2>1, SnapshotFields
<1>2. /\ UNCHANGED <<control, disableReply, closeReply, closing, done, ops>>
      /\ timer' = FALSE
  BY DEF RestartCommand, BeginStop, queueVars
<1>3. /\ snap' \in Snapshot /\ stable' \in 0 .. MaxSession
      /\ intent' \in {"none", "disable", "restart", "close"}
      /\ reply' \in [Cmd -> Seq(Replies)]
      /\ queue' \in Seq(Cmd) /\ controlID' \in Nat /\ inFlight' \in Ops
      /\ inFlight'.op # 0 => inFlight'.op = inFlight.op /\ inFlight'.cmd \in Cmd
      /\ stopCalls' \in SUBSET Sessions
      /\ restartReply' \in Cmd \cup {NoCmd}
      /\ session' \in BOOLEAN /\ instance' \in 0 .. MaxSession /\ instance' >= instance
      /\ session' => instance' \in Sessions
      /\ sess' \in [Sessions -> SessionRecords]
      /\ told' \in [Sessions -> Control]
      /\ watching' \in SUBSET Sessions
  <2>1. CASE ~snap.enabled
    <3>1. /\ snap' = [Cleared(s) EXCEPT !.state = "disabled"]
          /\ Answer(One(c, "ok"))
          /\ UNCHANGED <<session, instance, sess, told, watching, queue, controlID,
                         inFlight, stable, intent, stopCalls, restartReply>>
      BY <2>1 DEF RestartCommand, sessionVars, queueVars
    <3>2. reply' \in [Cmd -> Seq(Replies)]
      BY <3>1, OneType DEF Replies
    <3> HIDE DEF s
    <3>3. instance' >= instance
      BY <3>1, ZeroSession DEF TypeOK, TypeLoop
    <3> QED BY <1>1, <3>1, <3>2, <3>3, DisabledType
            DEF TypeOK, TypeLoop, TypeControls, TypeSessions
  <2>2. CASE snap.enabled /\ ~session
    <3>1. /\ StartSession(s)
          /\ Answer(One(c, "ok"))
          /\ UNCHANGED <<queue, controlID, inFlight, intent, stopCalls, restartReply>>
      BY <2>2 DEF RestartCommand, queueVars
    <3>2. reply' \in [Cmd -> Seq(Replies)]
      BY <3>1, OneType DEF Replies
    <3> HIDE DEF s
    <3> QED BY <1>1, <3>1, <3>2, StartSessionType
            DEF TypeOK, TypeLoop, TypeControls, TypeSessions
  <2>3. CASE snap.enabled /\ session
    <3>1. BeginStop(s, "restart") /\ restartReply' = c
      BY <2>3 DEF RestartCommand
    <3>2. UNCHANGED <<session, instance, sess, told, watching>>
      BY <3>1 DEF BeginStop
    <3>3. instance' >= instance
      BY <3>2, ZeroSession DEF TypeOK, TypeLoop
    <3> HIDE DEF s
    <3> QED BY <1>1, <2>3, <3>1, <3>2, <3>3, BeginStopType DEF TypeOK, TypeLoop, TypeSessions
  <2> QED BY <2>1, <2>2, <2>3
<1>4. TypeCallers' /\ UNCHANGED <<critical, telemetry, ctlResults, cmd, cancelled>>
  BY <1>3, TakeType DEF RestartCommand
<1>5. published' \in [snap : Snapshot, control : Control]
  BY <1>2, <1>3, PublishType DEF RestartCommand, TypeOK, TypeControls
<1>6. session' \/ inFlight'.op # 0 => instance' \in Sessions
  <2>1. CASE inFlight'.op # 0
    BY <1>3, <2>1, ZeroSession DEF TypeOK, TypeLoop, Sessions
  <2>2. CASE ~(inFlight'.op # 0)
    BY <1>3, <2>2
  <2> QED BY <2>1, <2>2
<1> HIDE DEF s
<1> QED BY <1>2, <1>3, <1>4, <1>5, <1>6 DEF TypeOK, TypeLoop, TypeControls, TypeSessions

LEMMA CloseCommandType ==
    ASSUME TypeOK, NEW c \in Cmd, CloseCommand(c) PROVE TypeOK'
<1> DEFINE off == TimerOff([snap EXCEPT !.enabled = FALSE])
<1>1. off \in Snapshot
  BY SnapshotFields DEF TypeOK, TypeLoop
<1>2. /\ UNCHANGED <<control, session, instance, sess, told, watching, ops, disableReply>>
      /\ timer' = FALSE /\ closing' = TRUE
  BY DEF CloseCommand, BeginStop, sessionVars
<1>3. /\ snap' \in Snapshot /\ stable' \in 0 .. MaxSession
      /\ intent' \in {"none", "disable", "restart", "close"}
      /\ reply' \in [Cmd -> Seq(Replies)]
      /\ queue' \in Seq(Cmd) /\ controlID' \in Nat /\ inFlight' \in Ops /\ inFlight'.op = 0
      /\ stopCalls' \in SUBSET Sessions
      /\ restartReply' \in Cmd \cup {NoCmd} /\ closeReply' \in Cmd \cup {NoCmd}
      /\ done' \in BOOLEAN
      /\ published' \in [snap : Snapshot, control : Control]
  <2>1. CASE intent # "none"
    <3> DEFINE f == [x \in Retired \cup ({restartReply} \ {NoCmd}) |-> "invalid_state"]
    <3>1. /\ intent' = "close" /\ closeReply' = c /\ restartReply' = NoCmd
          /\ Answer(f) /\ RetireControls /\ snap' = off
          /\ UNCHANGED <<stable, stopCalls, done, published>>
      BY <2>1 DEF CloseCommand
    <3>2. \A x \in DOMAIN f : f[x] \in Replies
      BY DEF Replies
    <3> HIDE DEF off, f
    <3>3. reply' \in [Cmd -> Seq(Replies)]
      BY <3>1, <3>2, AnswerType DEF TypeOK, TypeCallers
    <3> QED BY <1>1, <3>1, <3>3, RetireControlsType DEF TypeOK, TypeLoop, TypeSessions
  <2>2. CASE intent = "none" /\ ~session
    <3> DEFINE f == [x \in Retired \cup {c} |-> IF x = c THEN "ok" ELSE "invalid_state"]
    <3>1. /\ Answer(f) /\ RetireControls
          /\ snap' = [Cleared(off) EXCEPT !.state = "disabled"]
          /\ done' = TRUE /\ Publish
          /\ UNCHANGED <<stable, intent, stopCalls, restartReply, closeReply>>
      BY <2>2 DEF CloseCommand
    <3>2. \A x \in DOMAIN f : f[x] \in Replies
      BY DEF Replies
    <3> HIDE DEF off, f
    <3>3. reply' \in [Cmd -> Seq(Replies)]
      BY <3>1, <3>2, AnswerType DEF TypeOK, TypeCallers
    <3>4. snap' \in Snapshot
      BY <1>1, <3>1, DisabledType
    <3>5. published' \in [snap : Snapshot, control : Control]
      BY <1>2, <3>1, <3>4, PublishType DEF TypeOK, TypeControls
    <3> QED BY <3>1, <3>3, <3>4, <3>5, RetireControlsType DEF TypeOK, TypeLoop, TypeSessions
  <2>3. CASE intent = "none" /\ session
    <3>1. BeginStop(off, "close") /\ closeReply' = c /\ Publish /\ UNCHANGED <<done, restartReply>>
      BY <2>3 DEF CloseCommand
    <3> HIDE DEF off
    <3>2. snap' \in Snapshot
      BY <1>1, <2>3, <3>1, BeginStopType
    <3>3. published' \in [snap : Snapshot, control : Control]
      BY <1>2, <3>1, <3>2, PublishType DEF TypeOK, TypeControls
    <3> QED BY <1>1, <2>3, <3>1, <3>3, BeginStopType DEF TypeOK, TypeLoop
  <2> QED BY <2>1, <2>2, <2>3
<1>4. TypeCallers' /\ UNCHANGED <<critical, telemetry, ctlResults, cmd, cancelled>>
  BY <1>3, TakeType DEF CloseCommand
<1>5. session' \/ inFlight'.op # 0 => instance' \in Sessions
  BY <1>2, <1>3 DEF TypeOK, TypeLoop
<1> HIDE DEF off
<1> QED BY <1>2, <1>3, <1>4, <1>5 DEF TypeOK, TypeLoop, TypeControls, TypeSessions

\* What the control actions may do to the queue of controls and the replies.
ControlsTyped ==
    /\ reply' \in [Cmd -> Seq(Replies)]
    /\ queue' \in Seq(Cmd) /\ controlID' \in Nat
    /\ inFlight' \in Ops /\ (inFlight'.op # 0 => inFlight'.cmd \in Cmd)
    /\ ops' \in SUBSET Ops /\ \A o \in ops' : o.cmd \in Cmd /\ o.instance \in Sessions

LEMMA AnswerOnlyType ==
    ASSUME TypeOK, NEW c \in Cmd, NEW r \in Replies, Answer(One(c, r)), UNCHANGED queueVars
    PROVE  ControlsTyped
  BY OneType DEF ControlsTyped, queueVars, TypeOK, TypeControls

\* A control of a plugin with a session is queued, and dispatched when no other
\* control is in flight.
LEMMA EnqueueType ==
    ASSUME TypeOK, session, NEW c \in Cmd, NEW ctl \in Control,
           IF inFlight.op # 0
           THEN queue' = Append(queue, c) /\ UNCHANGED <<controlID, inFlight, ops, reply>>
           ELSE Dispatch(Append(queue, c), ctl, << >>)
    PROVE  ControlsTyped
<1>1. Append(queue, c) \in Seq(Cmd) /\ instance \in Sessions
  BY DEF TypeOK, TypeControls, TypeLoop
<1>2. CASE inFlight.op # 0
  BY <1>1, <1>2 DEF ControlsTyped, TypeOK, TypeControls, TypeCallers
<1>3. CASE ~(inFlight.op # 0)
  <2>1. Dispatch(Append(queue, c), ctl, << >>)
    BY <1>3
  <2>2. \A x \in DOMAIN << >> : << >>[x] \in Replies
    OBVIOUS
  <2> QED BY <1>1, <2>1, <2>2, DispatchType DEF ControlsTyped
<1> QED BY <1>2, <1>3

LEMMA ConfigCommandType ==
    ASSUME TypeOK, NEW c \in Cmd, ConfigCommand(c) PROVE TypeOK'
<1> DEFINE a == ApplyControl(control, cmd[c])
<1>1. a.next \in Control
  BY ApplyControlType DEF TypeOK, TypeControls, TypeCallers
<1>2. UNCHANGED <<snap, session, instance, sess, told, watching, timer, stable, intent,
                  disableReply, restartReply, closeReply, closing, done, stopCalls>>
  BY DEF ConfigCommand, sessionVars
<1>3. /\ ControlsTyped /\ control' \in Control
      /\ published' \in [snap : Snapshot, control : Control]
  <2>1. CASE a.verdict # "changed"
    <3>1. PICK r \in Replies : Answer(One(c, r))
      BY <2>1 DEF ConfigCommand, Replies
    <3>2. UNCHANGED <<control, queueVars, published>>
      BY <2>1 DEF ConfigCommand
    <3> QED BY <3>1, <3>2, AnswerOnlyType DEF TypeOK, TypeLoop, TypeControls
  <2>2. CASE a.verdict = "changed"
    <3>1. control' = a.next /\ Publish
      BY <2>2 DEF ConfigCommand
    <3>2. published' \in [snap : Snapshot, control : Control]
      BY <1>1, <1>2, <3>1, PublishType DEF TypeOK, TypeLoop
    <3>3. CASE ~session \/ Len(queue) >= Capacity
      <4>1. PICK r \in Replies : Answer(One(c, r))
        BY <2>2, <3>3 DEF ConfigCommand, Replies
      <4>2. UNCHANGED queueVars
        BY <2>2, <3>3 DEF ConfigCommand
      <4> QED BY <1>1, <3>1, <3>2, <4>1, <4>2, AnswerOnlyType
    <3>4. CASE ~(~session \/ Len(queue) >= Capacity)
      <4>1. IF inFlight.op # 0
            THEN queue' = Append(queue, c) /\ UNCHANGED <<controlID, inFlight, ops, reply>>
            ELSE Dispatch(Append(queue, c), control', << >>)
        BY <2>2, <3>4 DEF ConfigCommand
      <4> HIDE DEF a
      <4>2. IF inFlight.op # 0
            THEN queue' = Append(queue, c) /\ UNCHANGED <<controlID, inFlight, ops, reply>>
            ELSE Dispatch(Append(queue, c), a.next, << >>)
        BY <3>1, <4>1
      <4>3. session
        BY <3>4
      <4> QED BY <1>1, <3>1, <3>2, <4>2, <4>3, EnqueueType
    <3> QED BY <3>3, <3>4
  <2> QED BY <2>1, <2>2
<1>4. TypeCallers' /\ UNCHANGED <<critical, telemetry, ctlResults, cmd, cancelled>>
  BY <1>3, TakeType DEF ConfigCommand, ControlsTyped
<1>5. inFlight'.op # 0 => instance' \in Sessions
  <2>1. CASE session
    BY <1>2, <2>1 DEF TypeOK, TypeLoop
  <2>2. CASE ~session
    BY <1>2, <2>2 DEF ConfigCommand, queueVars, TypeOK, TypeLoop
  <2> QED BY <2>1, <2>2
<1> HIDE DEF a
<1> QED BY SMTT(60), <1>2, <1>3, <1>4, <1>5
        DEF TypeOK, TypeLoop, TypeControls, TypeSessions, ControlsTyped

LEMMA ControlCommandType ==
    ASSUME TypeOK, NEW c \in Cmd, ControlCommand(c) PROVE TypeOK'
<1> DEFINE a == ApplyControl(control, cmd[c])
<1>1. a.next \in Control
  BY ApplyControlType DEF TypeOK, TypeControls, TypeCallers
<1>2. UNCHANGED <<snap, session, instance, sess, told, watching, timer, stable, intent,
                  disableReply, restartReply, closeReply, closing, done, stopCalls>>
  BY DEF ControlCommand, sessionVars
<1>3. /\ ControlsTyped /\ control' \in Control
      /\ published' \in [snap : Snapshot, control : Control]
      /\ inFlight'.op # 0 => inFlight.op # 0 \/ session
  <2>1. CASE ~session
    <3>1. PICK r \in Replies : Answer(One(c, r))
      BY <2>1 DEF ControlCommand, Replies
    <3>2. /\ control' = IF a.verdict = "changed" THEN a.next ELSE control
          /\ Publish /\ UNCHANGED queueVars
      BY <2>1 DEF ControlCommand
    <3> HIDE DEF a
    <3>3. control' \in Control
      BY <1>1, <3>2 DEF TypeOK, TypeControls
    <3>4. published' \in [snap : Snapshot, control : Control]
      BY <1>2, <3>2, <3>3, PublishType DEF TypeOK, TypeLoop
    <3> QED BY <3>1, <3>2, <3>3, <3>4, AnswerOnlyType DEF queueVars
  <2>2. CASE session /\ Len(queue) >= Capacity
    <3>1. Answer(One(c, "backpressure")) /\ UNCHANGED <<control, queueVars, published>>
      BY <2>2, SupervisorAssumption DEF ControlCommand, TypeOK, TypeControls
    <3>2. "backpressure" \in Replies
      BY DEF Replies
    <3> QED BY <2>2, <3>1, <3>2, AnswerOnlyType DEF TypeOK, TypeLoop, TypeControls
  <2>3. CASE session /\ ~(Len(queue) >= Capacity)
    <3>1. /\ UNCHANGED <<control, published>>
          /\ IF inFlight.op # 0
             THEN queue' = Append(queue, c) /\ UNCHANGED <<controlID, inFlight, ops, reply>>
             ELSE Dispatch(Append(queue, c), control, << >>)
      BY <2>3 DEF ControlCommand
    <3>2. session /\ control \in Control
      BY <2>3 DEF TypeOK, TypeControls
    <3>3. ControlsTyped
      BY <3>1, <3>2, EnqueueType
    <3> QED BY <2>3, <3>1, <3>3 DEF TypeOK, TypeLoop, TypeControls
  <2> QED BY <2>1, <2>2, <2>3
<1>4. TypeCallers' /\ UNCHANGED <<critical, telemetry, ctlResults, cmd, cancelled>>
  BY <1>3, TakeType DEF ControlCommand, ControlsTyped
<1>5. inFlight'.op # 0 => instance' \in Sessions
  BY <1>2, <1>3 DEF TypeOK, TypeLoop
<1> HIDE DEF a
<1> QED BY SMTT(60), <1>2, <1>3, <1>4, <1>5
        DEF TypeOK, TypeLoop, TypeControls, TypeSessions, ControlsTyped

LEMMA HandleControlResultType ==
    ASSUME TypeOK, NEW r \in ctlResults, HandleControlResult(r) PROVE TypeOK'
<1>1. /\ UNCHANGED <<session, instance, sess, told, watching, timer, stable, intent,
                     disableReply, restartReply, closeReply, closing, commands, critical,
                     telemetry, done, stopCalls, cmd, cancelled>>
      /\ ctlResults' \in SUBSET [op : Nat, instance : 0 .. MaxSession, ok : BOOLEAN]
  BY DEF HandleControlResult, sessionVars, TypeOK, TypeControls
<1>2. CASE inFlight.op = 0 \/ r.op # inFlight.op \/ r.instance # inFlight.instance
  <2>1. UNCHANGED <<snap, control, published, queue, controlID, inFlight, ops, reply>>
    BY <1>2 DEF HandleControlResult, queueVars
  <2> QED BY SMTT(60), <1>1, <2>1 DEF TypeOK, TypeLoop, TypeControls, TypeCallers, TypeSessions
<1>3. CASE ~(inFlight.op = 0 \/ r.op # inFlight.op \/ r.instance # inFlight.instance)
  <2> DEFINE f == One(inFlight.cmd, IF r.ok THEN "ok" ELSE "failed")
  <2>1. /\ snap' = IF Durable(inFlight.cmd)
                   THEN [snap EXCEPT !.error = IF r.ok THEN "" ELSE "failed"] ELSE snap
        /\ control' = Committed(r) /\ Publish /\ Dispatch(queue, control', f)
    BY <1>3 DEF HandleControlResult
  <2>2. snap' \in Snapshot
    BY <2>1, SnapshotFields DEF TypeOK, TypeLoop
  <2>3. control' \in Control
    BY <2>1 DEF Committed, Control, Ops, TypeOK, TypeControls
  <2>4. published' \in [snap : Snapshot, control : Control]
    BY <2>1, <2>2, <2>3, PublishType
  <2>5. \A x \in DOMAIN f : f[x] \in Replies
    BY DEF One, Replies
  <2>6. instance \in Sessions /\ queue \in Seq(Cmd)
    BY <1>3 DEF TypeOK, TypeLoop, TypeControls
  <2> HIDE DEF f
  <2>7. PICK ctl \in Control : ctl = control' /\ Dispatch(queue, ctl, f)
    BY <2>1, <2>3
  <2>8. ControlsTyped
    BY <2>5, <2>6, <2>7, DispatchType DEF ControlsTyped
  <2> QED BY <1>1, <2>2, <2>3, <2>4, <2>6, <2>8
          DEF TypeOK, TypeLoop, TypeControls, TypeCallers, TypeSessions, ControlsTyped
<1> QED BY <1>2, <1>3

LEMMA HandleStopResultType ==
    ASSUME TypeOK, NEW id \in stopCalls, HandleStopResult(id) PROVE TypeOK'
<1>1. /\ UNCHANGED <<control, timer, closing, queue, controlID, inFlight, ops, commands,
                     critical, telemetry, ctlResults, cmd, cancelled>>
      /\ stopCalls' \in SUBSET Sessions
  BY DEF HandleStopResult, queueVars, TypeOK, TypeSessions
<1>2. CASE id # instance \/ intent = "none"
  <2>1. UNCHANGED <<snap, published, session, instance, sess, told, watching, stable,
                    intent, disableReply, restartReply, closeReply, done, reply>>
    BY <1>2 DEF HandleStopResult, sessionVars
  <2> QED BY <1>1, <2>1 DEF TypeOK, TypeLoop, TypeControls, TypeCallers, TypeSessions
<1>3. CASE ~(id # instance \/ intent = "none")
  <2>1. /\ intent' = "none" /\ Publish
        /\ disableReply' = NoCmd /\ restartReply' = NoCmd /\ closeReply' = NoCmd
        /\ done' \in BOOLEAN
        /\ Answer([c \in StopReplies |-> Outcome(id)])
    BY <1>3 DEF HandleStopResult
  <2>2. reply' \in [Cmd -> Seq(Replies)]
    <3> DEFINE f == [c \in StopReplies |-> Outcome(id)]
    <3>1. \A c \in DOMAIN f : f[c] \in Replies
      BY DEF Outcome, Replies
    <3>2. Answer(f)
      BY <2>1
    <3> HIDE DEF f
    <3> QED BY <3>1, <3>2, AnswerType DEF TypeOK, TypeCallers
  <2>3. /\ snap' \in Snapshot /\ session' \in BOOLEAN /\ stable' \in 0 .. MaxSession
        /\ instance' \in 0 .. MaxSession /\ instance' >= instance
        /\ session' => instance' \in Sessions
        /\ sess' \in [Sessions -> SessionRecords]
        /\ told' \in [Sessions -> Control]
        /\ watching' \in SUBSET Sessions
    <3>1. CASE intent = "restart" /\ snap.enabled
      <4>1. StartSession([snap EXCEPT !.state = "stopped"])
        BY <1>3, <3>1 DEF HandleStopResult
      <4>2. [snap EXCEPT !.state = "stopped"] \in Snapshot
        BY SnapshotFields, StateNames DEF TypeOK, TypeLoop
      <4> QED BY <4>1, <4>2, StartSessionType
    <3>2. CASE ~(intent = "restart" /\ snap.enabled)
      <4>1. /\ snap' = [Cleared(snap) EXCEPT !.state = "disabled"]
            /\ session' = FALSE /\ UNCHANGED <<instance, sess, told, watching, stable>>
        BY <1>3, <3>2 DEF HandleStopResult
      <4>2. snap' \in Snapshot
        BY <4>1, DisabledType DEF TypeOK, TypeLoop
      <4>3. session' \in BOOLEAN /\ (session' => instance' \in Sessions)
        BY <4>1
      <4>4. instance' >= instance
        BY <4>1, ZeroSession DEF TypeOK, TypeLoop
      <4> QED BY <4>1, <4>2, <4>3, <4>4 DEF TypeOK, TypeLoop, TypeSessions
    <3> QED BY <3>1, <3>2
  <2>4. published' \in [snap : Snapshot, control : Control]
    BY <1>1, <2>1, <2>3, PublishType DEF TypeOK, TypeControls
  <2>5. session' \/ inFlight'.op # 0 => instance' \in Sessions
    <3>1. CASE inFlight'.op # 0
      BY <1>1, <2>3, <3>1, ZeroSession DEF TypeOK, TypeLoop, Sessions
    <3>2. CASE ~(inFlight'.op # 0)
      BY <2>3, <3>2
    <3> QED BY <3>1, <3>2
  <2> QED BY <1>1, <2>1, <2>2, <2>3, <2>4, <2>5
          DEF TypeOK, TypeLoop, TypeControls, TypeCallers, TypeSessions
<1> QED BY <1>2, <1>3

LEMMA AfterFailureType ==
    ASSUME NEW s \in Snapshot, NEW id PROVE AfterFailure(s, id) \in Snapshot
<1> DEFINE n == (IF sess[id].steady THEN 0 ELSE s.failures) + 1
           cl == Cleared(s)
<1>0. s.failures \in Nat
  BY DEF Snapshot
<1>1. n \in Nat /\ cl \in Snapshot
  <2>1. (IF sess[id].steady THEN 0 ELSE s.failures) \in Nat
    BY <1>0
  <2>2. n \in Nat
    BY <2>1
  <2> QED BY <2>2, SnapshotFields
<1> DEFINE Outcomes ==
        { [cl EXCEPT !.state = "stopped", !.error = ""],
          [cl EXCEPT !.state = "incompatible", !.error = "failed", !.nextRestart = FALSE],
          [cl EXCEPT !.state = "crashed", !.error = "limit", !.failures = n],
          [cl EXCEPT !.state = "crashed", !.error = "failed", !.failures = n],
          [cl EXCEPT !.state = "backoff", !.error = "failed", !.failures = n,
                     !.nextRestart = TRUE] }
<1>2. AfterFailure(s, id) \in Outcomes
  <2>1. CASE sess[id].result = "ok"
    BY <2>1 DEF AfterFailure
  <2>2. CASE sess[id].result # "ok" /\ sess[id].result = "fatal"
    BY <2>2 DEF AfterFailure
  <2>3. CASE sess[id].result # "ok" /\ sess[id].result # "fatal" /\ LimitReached(n)
    BY <2>3 DEF AfterFailure
  <2>4. CASE sess[id].result # "ok" /\ sess[id].result # "fatal" /\ ~LimitReached(n) /\ ~s.enabled
    BY <2>4 DEF AfterFailure
  <2>5. CASE sess[id].result # "ok" /\ sess[id].result # "fatal" /\ ~LimitReached(n) /\ s.enabled
    BY <2>5 DEF AfterFailure
  <2> QED BY <2>1, <2>2, <2>3, <2>4, <2>5
<1> HIDE DEF n, cl
<1>3. \A x \in {"stopped", "incompatible", "crashed", "backoff"} : [cl EXCEPT !.state = x] \in Snapshot
  BY <1>1, SnapshotFields, StateNames
<1> QED BY ZenonT(60), <1>1, <1>2, <1>3, StateNames DEF Snapshot

LEMMA HandleSessionResultType ==
    ASSUME TypeOK, NEW id \in watching, HandleSessionResult(id) PROVE TypeOK'
<1>1. /\ UNCHANGED <<control, instance, intent, disableReply, restartReply, closeReply,
                     closing, commands, critical, telemetry, done, stopCalls, ops,
                     ctlResults, cmd, cancelled, sess, told>>
      /\ watching' \in SUBSET Sessions
  BY DEF HandleSessionResult, TypeOK, TypeSessions
<1>2. CASE id # instance \/ ~session \/ intent # "none"
  <2>1. UNCHANGED <<snap, published, session, timer, stable, queue, controlID, inFlight, reply>>
    BY <1>2 DEF HandleSessionResult
  <2> QED BY <1>1, <2>1 DEF TypeOK, TypeLoop, TypeControls, TypeCallers, TypeSessions
<1>3. CASE ~(id # instance \/ ~session \/ intent # "none")
  <2>1. /\ stable' = 0 /\ RetireControls /\ session' = FALSE
        /\ snap' = AfterFailure(snap, id) /\ timer' \in BOOLEAN /\ Publish
        /\ Answer([c \in Retired |-> "invalid_state"])
    BY <1>3 DEF HandleSessionResult
  <2>2. reply' \in [Cmd -> Seq(Replies)]
    <3> DEFINE f == [c \in Retired |-> "invalid_state"]
    <3>1. \A c \in DOMAIN f : f[c] \in Replies
      BY DEF Replies
    <3>2. Answer(f)
      BY <2>1
    <3> HIDE DEF f
    <3> QED BY <3>1, <3>2, AnswerType DEF TypeOK, TypeCallers
  <2>3. snap' \in Snapshot
    BY <2>1, AfterFailureType DEF TypeOK, TypeLoop
  <2>4. published' \in [snap : Snapshot, control : Control]
    BY <1>1, <2>1, <2>3, PublishType DEF TypeOK, TypeControls
  <2>5. queue' \in Seq(Cmd) /\ controlID' \in Nat /\ inFlight' \in Ops /\ inFlight'.op = 0
    BY <2>1, RetireControlsType
  <2>6. session' \in BOOLEAN /\ (session' \/ inFlight'.op # 0 => instance' \in Sessions)
    BY <2>1, <2>5
  <2> QED BY <1>1, <2>1, <2>2, <2>3, <2>4, <2>5, <2>6, ZeroSession
          DEF TypeOK, TypeLoop, TypeControls, TypeCallers, TypeSessions
<1> QED BY <1>2, <1>3

LEMMA HandleCriticalType == ASSUME TypeOK, HandleCritical PROVE TypeOK'
<1>1. /\ UNCHANGED <<control, session, instance, timer, intent, disableReply,
                     restartReply, closeReply, closing, queue, controlID, inFlight,
                     commands, telemetry, done, watching, stopCalls, ops, ctlResults,
                     cmd, reply, cancelled, sess, told>>
      /\ critical # << >> /\ critical' = Tail(critical)
  BY DEF HandleCritical
<1> DEFINE Callback == [kind : {"started", "ready", "unresponsive"}, id : Sessions]
<1>0. critical \in Seq(Callback)
  BY DEF TypeOK, TypeSessions
<1>2. critical' \in Seq(Callback)
  <2> HIDE DEF Callback
  <2> QED BY <1>0, <1>1
<1>3. Head(critical) \in Callback
  <2> HIDE DEF Callback
  <2> QED BY <1>0, <1>1
<1> DEFINE m == Head(critical)
<1>4. /\ snap' \in Snapshot /\ stable' \in 0 .. MaxSession
      /\ published' \in [snap : Snapshot, control : Control]
  <2>1. m.id \in 0 .. MaxSession
    BY <1>3, ZeroSession DEF Sessions
  <2>2. CASE snap' = [snap EXCEPT !.pid = m.id, !.state = "handshaking"]
             /\ UNCHANGED stable /\ Publish
    <3>1. snap' \in Snapshot
      <4> HIDE DEF m
      <4> QED BY <2>1, <2>2, StateNames DEF TypeOK, TypeLoop, Snapshot
    <3> QED BY <1>1, <2>2, <3>1, PublishType DEF TypeOK, TypeLoop, TypeControls
  <2>3. CASE /\ snap' = [snap EXCEPT !.state = "running"]
             /\ stable' = (IF snap.failures = 0 THEN 0 ELSE instance) /\ Publish
    <3>1. snap' \in Snapshot
      BY <2>3, SnapshotFields, StateNames DEF TypeOK, TypeLoop
    <3> QED BY <1>1, <2>3, <3>1, ZeroSession, PublishType DEF TypeOK, TypeLoop, TypeControls
  <2>4. CASE snap' = [snap EXCEPT !.state = "unresponsive"] /\ stable' = 0 /\ Publish
    <3>1. snap' \in Snapshot
      BY <2>4, SnapshotFields, StateNames DEF TypeOK, TypeLoop
    <3> QED BY <1>1, <2>4, <3>1, ZeroSession, PublishType DEF TypeOK, TypeLoop, TypeControls
  <2>5. CASE UNCHANGED <<snap, stable, published>>
    BY <2>5 DEF TypeOK, TypeLoop
  <2> QED BY <2>2, <2>3, <2>4, <2>5 DEF HandleCritical
<1> QED BY SMTT(60), <1>1, <1>2, <1>4
        DEF TypeOK, TypeLoop, TypeControls, TypeCallers, TypeSessions

LEMMA HandleTelemetryType == ASSUME TypeOK, HandleTelemetry PROVE TypeOK'
<1>1. /\ UNCHANGED <<control, session, instance, timer, stable, intent, disableReply,
                     restartReply, closeReply, closing, queue, controlID, inFlight,
                     commands, critical, done, watching, stopCalls, ops, ctlResults,
                     cmd, reply, cancelled, sess, told>>
      /\ telemetry # << >> /\ telemetry' = Tail(telemetry)
  BY DEF HandleTelemetry
<1>2. telemetry' \in Seq(Sessions) /\ Head(telemetry) \in 0 .. MaxSession
  BY <1>1, ZeroSession DEF TypeOK, TypeSessions, Sessions
<1>3. snap' \in Snapshot /\ published' \in [snap : Snapshot, control : Control]
  <2>1. CASE snap' = [snap EXCEPT !.metric = Head(telemetry)] /\ Publish
    <3>1. snap' \in Snapshot
      BY <1>2, <2>1 DEF TypeOK, TypeLoop, Snapshot
    <3> QED BY <1>1, <2>1, <3>1, PublishType DEF TypeOK, TypeControls
  <2>2. CASE UNCHANGED <<snap, published>>
    BY <2>2 DEF TypeOK, TypeLoop
  <2> QED BY <2>1, <2>2 DEF HandleTelemetry
<1> QED BY SMTT(60), <1>1, <1>2, <1>3
        DEF TypeOK, TypeLoop, TypeControls, TypeCallers, TypeSessions

LEMMA TimersType == ASSUME TypeOK, RestartTimerFires \/ StableTimerFires PROVE TypeOK'
<1>1. CASE RestartTimerFires
  <2>1. /\ UNCHANGED <<control, intent, disableReply, restartReply, closeReply, closing,
                       queue, controlID, inFlight, ops, commands, critical, telemetry,
                       ctlResults, cmd, cancelled, done, stopCalls, reply>>
        /\ timer' = FALSE
    BY <1>1 DEF RestartTimerFires, queueVars, envVars
  <2>2. CASE snap.enabled /\ ~closing /\ ~session
    <3>1. StartSession(snap) /\ Publish
      BY <1>1, <2>2 DEF RestartTimerFires
    <3>2. /\ snap' \in Snapshot /\ session' \in BOOLEAN /\ stable' \in 0 .. MaxSession
          /\ instance' \in 0 .. MaxSession /\ instance' >= instance
          /\ session' => instance' \in Sessions
          /\ sess' \in [Sessions -> SessionRecords]
          /\ told' \in [Sessions -> Control]
          /\ watching' \in SUBSET Sessions
      BY <3>1, StartSessionType DEF TypeOK, TypeLoop
    <3>3. published' \in [snap : Snapshot, control : Control]
      BY <2>1, <3>1, <3>2, PublishType DEF TypeOK, TypeControls
    <3>4. inFlight'.op # 0 => instance' \in Sessions
      BY <2>1, <3>2, ZeroSession DEF TypeOK, TypeLoop, Sessions
    <3> QED BY <2>1, <3>2, <3>3, <3>4
            DEF TypeOK, TypeLoop, TypeControls, TypeCallers, TypeSessions
  <2>3. CASE ~(snap.enabled /\ ~closing /\ ~session)
    <3>1. UNCHANGED <<snap, published, session, instance, sess, told, watching, stable>>
      BY <1>1, <2>3 DEF RestartTimerFires, sessionVars
    <3> QED BY ZenonT(60), <2>1, <3>1 DEF TypeOK, TypeLoop, TypeControls, TypeCallers, TypeSessions
  <2> QED BY <2>2, <2>3
<1>2. CASE StableTimerFires
  <2>1. /\ UNCHANGED <<control, session, instance, sess, told, watching, timer, intent,
                       disableReply, restartReply, closeReply, closing, queue, controlID,
                       inFlight, ops, commands, critical, telemetry, ctlResults, cmd,
                       cancelled, done, stopCalls, reply>>
        /\ stable' = 0
    BY <1>2 DEF StableTimerFires, sessionVars, queueVars, envVars
  <2>2. snap' \in Snapshot /\ published' \in [snap : Snapshot, control : Control]
    <3>1. CASE snap' = [snap EXCEPT !.failures = 0] /\ Publish
      <4>1. snap' \in Snapshot
        BY <3>1, SnapshotFields DEF TypeOK, TypeLoop
      <4> QED BY <2>1, <3>1, <4>1, PublishType DEF TypeOK, TypeControls
    <3>2. CASE UNCHANGED <<snap, published>>
      BY <3>2 DEF TypeOK, TypeLoop
    <3> QED BY <1>2, <3>1, <3>2 DEF StableTimerFires
  <2> QED BY <2>1, <2>2, ZeroSession
          DEF TypeOK, TypeLoop, TypeControls, TypeCallers, TypeSessions
<1> QED BY <1>1, <1>2

LEMMA SessionStepType ==
    ASSUME TypeOK, NEW id \in Sessions, SessionStep(id) PROVE TypeOK'
<1>1. UNCHANGED <<snap, control, session, instance, timer, stable, intent, disableReply,
                  restartReply, closeReply, closing, queue, controlID, inFlight, done,
                  published, commands, watching, stopCalls, cmd, reply, cancelled, ops,
                  ctlResults, told>>
  BY DEF SessionStep, ProcessStarted, Ready, Unresponsive, SessionFails, SessionEnds,
         Telemetry, sessionOnly, restOfLoop, loopVars
<1>2. telemetry' \in Seq(Sessions)
  <2>1. CASE Telemetry(id)
    BY <2>1 DEF Telemetry, TypeOK, TypeSessions
  <2>2. CASE UNCHANGED telemetry
    BY <2>2 DEF TypeOK, TypeSessions
  <2> QED BY <2>1, <2>2 DEF SessionStep, ProcessStarted, Ready, Unresponsive,
                            SessionFails, SessionEnds
<1>3. critical' \in Seq([kind : {"started", "ready", "unresponsive"}, id : Sessions])
  <2> DEFINE Callback == [kind : {"started", "ready", "unresponsive"}, id : Sessions]
  <2>1. ASSUME NEW k \in {"started", "ready", "unresponsive"}, SendCritical(k, id)
        PROVE  critical' \in Seq(Callback)
    <3>1. [kind |-> k, id |-> id] \in Callback /\ critical \in Seq(Callback)
      BY DEF TypeOK, TypeSessions
    <3> HIDE DEF Callback
    <3> QED BY <2>1, <3>1 DEF SendCritical
  <2>2. CASE UNCHANGED critical
    BY <2>2 DEF TypeOK, TypeSessions
  <2> QED BY <2>1, <2>2 DEF SessionStep, ProcessStarted, Ready, Unresponsive,
                            SessionFails, SessionEnds, Telemetry
<1>4. sess' \in [Sessions -> SessionRecords]
  <2>0. /\ sess[id] \in SessionRecords
        /\ \A p \in {"handshaking", "running", "dying"} :
             [sess[id] EXCEPT !.phase = p] \in SessionRecords
    BY DEF TypeOK, TypeSessions, SessionRecords
  <2>1. CASE ProcessStarted(id) \/ Unresponsive(id) \/ SessionFails(id)
    BY <2>0, <2>1 DEF ProcessStarted, Unresponsive, SessionFails, TypeOK, TypeSessions
  <2>2. CASE Ready(id)
    BY ZenonT(60), <2>2 DEF Ready, TypeOK, TypeSessions, SessionRecords
  <2>3. ASSUME NEW result \in {"ok", "retryable", "fatal"}, NEW steady \in BOOLEAN,
               SessionEnds(id, result, steady)
        PROVE  sess' \in [Sessions -> SessionRecords]
    <3>1. [phase |-> "ended", ran |-> sess[id].ran, result |-> result, steady |-> steady]
            \in SessionRecords
      BY <2>0 DEF SessionRecords
    <3> QED BY <2>3, <3>1 DEF SessionEnds, TypeOK, TypeSessions
  <2>4. CASE Telemetry(id)
    BY <2>4 DEF Telemetry, TypeOK, TypeSessions
  <2> QED BY <2>1, <2>2, <2>3, <2>4 DEF SessionStep
<1> QED BY SMTT(60), <1>1, <1>2, <1>3, <1>4
        DEF TypeOK, TypeLoop, TypeControls, TypeCallers, TypeSessions

LEMMA ControlReturnType ==
    ASSUME TypeOK, NEW o \in ops, ControlSucceeds(o) \/ ControlFails(o) PROVE TypeOK'
<1>1. PICK ok \in BOOLEAN : ControlReturns(o, ok)
  BY DEF ControlSucceeds, ControlFails
<1>2. UNCHANGED <<snap, control, session, instance, timer, stable, intent, disableReply,
                  restartReply, closeReply, closing, queue, controlID, inFlight, done,
                  published, commands, watching, stopCalls, cmd, reply, cancelled,
                  critical, telemetry, sess>>
  BY <1>1 DEF ControlReturns, sessionOnly, restOfLoop, loopVars
<1>3. o \in Ops /\ o.cmd \in Cmd /\ o.instance \in Sessions
  BY DEF TypeOK, TypeControls
<1>4. /\ ops' \in SUBSET Ops /\ \A x \in ops' : x.cmd \in Cmd /\ x.instance \in Sessions
      /\ ctlResults' \in SUBSET [op : Nat, instance : 0 .. MaxSession, ok : BOOLEAN]
  BY <1>1, <1>3 DEF ControlReturns, Ops, TypeOK, TypeControls
<1>5. told' \in [Sessions -> Control]
  <2>1. ApplyControl(told[o.instance], cmd[o.cmd]).next \in Control
    BY <1>3, ApplyControlType DEF TypeOK, TypeSessions, TypeCallers
  <2> QED BY <1>3, <2>1 DEF ControlSucceeds, ControlFails, TypeOK, TypeSessions
<1> QED BY <1>2, <1>4, <1>5
        DEF TypeOK, TypeLoop, TypeControls, TypeCallers, TypeSessions

LEMMA CallerType ==
    ASSUME TypeOK, NEW c \in Cmd,
           CancelCommand(c) \/ \E k \in Command : SendCommand(c, k)
    PROVE  TypeOK'
<1>1. UNCHANGED <<snap, control, session, instance, timer, stable, intent, disableReply,
                  restartReply, closeReply, closing, queue, controlID, inFlight, done,
                  published, critical, telemetry, watching, stopCalls, ops, ctlResults,
                  reply, sess, told>>
  BY DEF CancelCommand, SendCommand, restOfLoop, loopVars
<1>2. TypeCallers'
  <2>1. CASE CancelCommand(c)
    BY <1>1, <2>1 DEF CancelCommand, TypeOK, TypeCallers
  <2>2. ASSUME NEW k \in Command, SendCommand(c, k) PROVE TypeCallers'
    <3>1. commands' \in Seq(Cmd)
      BY <2>2 DEF SendCommand, TypeOK, TypeCallers
    <3>2. cmd' \in [Cmd -> Command \cup {NoCommand}] /\ UNCHANGED cancelled
      BY <2>2 DEF SendCommand, TypeOK, TypeCallers
    <3> QED BY <1>1, <3>1, <3>2 DEF TypeOK, TypeCallers
  <2> QED BY <2>1, <2>2
<1> QED BY <1>1, <1>2 DEF TypeOK, TypeLoop, TypeControls, TypeSessions

LEMMA TypeInit == Init => TypeOK
<1> SUFFICES ASSUME Init PROVE TypeOK
  OBVIOUS
<1>1. PICK on \in BOOLEAN, cfg \in Versioned :
        LET go  == on /\ MaxSession > 0
            ctl == [active |-> FALSE, config |-> cfg, sub |-> Unset]
        IN  /\ control = ctl
            /\ snap = [enabled |-> on, session |-> IF go THEN 1 ELSE 0, failures |-> 0,
                       state |-> IF go THEN "starting" ELSE IF on THEN "incompatible" ELSE "disabled",
                       error |-> IF on /\ ~go THEN "failed" ELSE "",
                       pid |-> 0, metric |-> 0, nextRestart |-> FALSE]
            /\ session = go
            /\ instance = IF go THEN 1 ELSE 0
            /\ watching = IF go THEN {1} ELSE {}
            /\ sess = [i \in Sessions |->
                        [phase |-> IF go /\ i = 1 THEN "launching" ELSE "none",
                         ran |-> FALSE, result |-> "ok", steady |-> FALSE]]
            /\ told = [i \in Sessions |-> ctl]
  BY DEF Init
<1> DEFINE go == on /\ MaxSession > 0
<1>2. go => 1 \in Sessions /\ 1 \in 0 .. MaxSession
  BY ZeroSession DEF Sessions
<1>3. control \in Control
  BY <1>1, UnsetType DEF Control
<1>4. snap \in Snapshot
  <2>1. (IF go THEN 1 ELSE 0) \in 0 .. MaxSession
    BY <1>2, ZeroSession
  <2>2. (IF go THEN "starting" ELSE IF on THEN "incompatible" ELSE "disabled") \in States
    BY DEF States
  <2> QED BY <1>1, <2>1, <2>2, ZeroSession DEF Snapshot
<1>5. published \in [snap : Snapshot, control : Control]
  BY <1>3, <1>4 DEF Init
<1>6. TypeLoop
  <2>1. instance \in 0 .. MaxSession /\ (session => instance \in Sessions) /\ session \in BOOLEAN
    BY <1>1, <1>2, ZeroSession
  <2>2. inFlight.op = 0
    BY NoOpType DEF Init
  <2> QED BY <1>4, <1>5, <2>1, <2>2, ZeroSession DEF Init, TypeLoop
<1>7. TypeControls
  <2>1. queue = << >> /\ controlID = 0 /\ inFlight = NoOp /\ ops = {} /\ ctlResults = {}
    BY DEF Init
  <2> QED BY <1>3, <2>1, NoOpType DEF TypeControls
<1>8. TypeCallers
  <2>1. /\ commands = << >> /\ cancelled = {}
        /\ cmd = [c \in Cmd |-> NoCommand] /\ reply = [c \in Cmd |-> << >>]
    BY DEF Init
  <2> QED BY <2>1 DEF TypeCallers
<1>9. TypeSessions
  <2>1. sess \in [Sessions -> SessionRecords]
    BY <1>1 DEF SessionRecords
  <2>2. told \in [Sessions -> Control] /\ watching \in SUBSET Sessions
    BY <1>1, <1>2, <1>3
  <2>3. critical = << >> /\ telemetry = << >> /\ stopCalls = {}
    BY DEF Init
  <2> QED BY <2>1, <2>2, <2>3 DEF TypeSessions
<1> QED BY <1>6, <1>7, <1>8, <1>9 DEF TypeOK

LEMMA TypeNext == TypeOK /\ [Next]_vars => TypeOK'
<1> SUFFICES ASSUME TypeOK, [Next]_vars PROVE TypeOK'
  OBVIOUS
<1>1. ASSUME NEW c \in Cmd, HandleCommand(c) PROVE TypeOK'
  BY <1>1, RejectCommandType, EnableCommandType, DisableCommandType, RestartCommandType,
     CloseCommandType, ConfigCommandType, ControlCommandType DEF HandleCommand
<1>2. CASE LoopStep
  BY <1>1, <1>2, HandleControlResultType, HandleStopResultType, HandleSessionResultType,
     HandleCriticalType, HandleTelemetryType, TimersType DEF LoopStep
<1>3. CASE UNCHANGED vars
  BY <1>3 DEF vars, loopVars, TypeOK, TypeLoop, TypeControls, TypeCallers, TypeSessions
<1> QED BY <1>2, <1>3, SessionStepType, ControlReturnType, CallerType DEF Next

\* Every variable of the supervisor keeps its type: in particular no handler
\* launches past the last session identity (startSession on an exhausted
\* NextSessionID) or leaves a control in flight without its command.
THEOREM TypeCorrect == Spec => []TypeOK
<1>1. Init => TypeOK
  BY TypeInit
<1>2. TypeOK /\ [Next]_vars => TypeOK'
  BY TypeNext
<1> QED BY <1>1, <1>2, PTL DEF Spec

-----------------------------------------------------------------------------
(* The published state and the metrics tell the truth about the session.    *)
(* StateMatchesSession is inductive together with one fact about Close: a   *)
(* closing supervisor that still runs is waiting for the stop it owns.      *)

CloseOwnsStop == closing /\ ~done => intent = "close"

StateInv == StateMatchesSession /\ MetricsOfCurrentSession /\ CloseOwnsStop

\* The variables StateInv depends on.
stateVars == <<snap, session, instance, timer, intent, closing, done>>

\* A snapshot without PID and telemetry
NoMetrics(s) == s.pid = 0 /\ s.metric = 0

LEMMA ClearedFields ==
    ASSUME NEW s \in Snapshot
    PROVE  /\ NoMetrics(Cleared(s)) /\ Cleared(s).enabled = s.enabled
           /\ Cleared(s).failures = s.failures /\ Cleared(s).state = s.state
           /\ TimerOff(s).enabled = s.enabled /\ TimerOff(s).failures = s.failures
           /\ TimerOff(s).state = s.state
           /\ TimerOff(s).pid = s.pid /\ TimerOff(s).metric = s.metric
  BY DEF Cleared, TimerOff, NoMetrics, Snapshot

LEMMA StartSessionState ==
    ASSUME TypeOK, NEW s \in Snapshot, StartSession(s)
    PROVE  /\ NoMetrics(snap') /\ snap'.enabled = s.enabled
           /\ \/ session' = TRUE /\ snap'.state = "starting"
              \/ session' = FALSE /\ snap'.state = "incompatible"
<1> DEFINE fresh == TimerOff(Cleared(s))
<1>1. /\ fresh \in Snapshot /\ NoMetrics(fresh) /\ fresh.enabled = s.enabled
  BY ZenonT(60), SnapshotFields, ClearedFields DEF NoMetrics
<1>2. \/ /\ snap' = [fresh EXCEPT !.state = "incompatible", !.error = "failed"]
         /\ session' = FALSE
      \/ /\ snap' = [fresh EXCEPT !.state = "starting", !.session = instance + 1]
         /\ session' = TRUE
  BY DEF StartSession
<1> HIDE DEF fresh
<1> QED BY <1>1, <1>2 DEF NoMetrics, Snapshot

LEMMA BeginStopState ==
    ASSUME NEW s \in Snapshot, NEW why, BeginStop(s, why)
    PROVE  /\ NoMetrics(snap') /\ snap'.state = "stopping" /\ intent' = why
           /\ UNCHANGED <<session, instance>>
<1>1. snap' = [Cleared(s) EXCEPT !.state = "stopping"]
  BY DEF BeginStop
<1>2. Cleared(s) \in Snapshot /\ NoMetrics(Cleared(s))
  BY SnapshotFields, ClearedFields
<1> QED BY <1>1, <1>2 DEF BeginStop, NoMetrics, Snapshot

LEMMA DisabledState ==
    ASSUME NEW s \in Snapshot
    PROVE  LET d == [Cleared(s) EXCEPT !.state = "disabled"]
           IN  NoMetrics(d) /\ d.state = "disabled"
<1>1. Cleared(s) \in Snapshot /\ NoMetrics(Cleared(s))
  BY SnapshotFields, ClearedFields
<1> QED BY <1>1 DEF NoMetrics, Snapshot

LEMMA AfterFailureState ==
    ASSUME NEW s \in Snapshot, NEW id
    PROVE  /\ NoMetrics(AfterFailure(s, id))
           /\ AfterFailure(s, id).state \in {"stopped", "incompatible", "crashed", "backoff"}
           /\ AfterFailure(s, id).state = "backoff" =>
                /\ AfterFailure(s, id).enabled
                /\ AfterFailure(s, id).failures \in 1 .. MaxFailures - 1
<1> DEFINE n == (IF sess[id].steady THEN 0 ELSE s.failures) + 1
           cl == Cleared(s)
<1>1. cl \in Snapshot /\ NoMetrics(cl) /\ cl.enabled = s.enabled
  BY SnapshotFields, ClearedFields
<1>2. n \in Nat /\ n >= 1
  <2>1. (IF sess[id].steady THEN 0 ELSE s.failures) \in Nat
    BY DEF Snapshot
  <2> QED BY <2>1
<1>3. CASE sess[id].result = "ok"
  <2>1. AfterFailure(s, id) = [cl EXCEPT !.state = "stopped", !.error = ""]
    BY <1>3 DEF AfterFailure
  <2> HIDE DEF cl
  <2> QED BY <1>1, <2>1 DEF NoMetrics, Snapshot
<1>4. CASE sess[id].result # "ok" /\ sess[id].result = "fatal"
  <2>1. AfterFailure(s, id) =
          [cl EXCEPT !.state = "incompatible", !.error = "failed", !.nextRestart = FALSE]
    BY <1>4 DEF AfterFailure
  <2> HIDE DEF cl
  <2> QED BY <1>1, <2>1 DEF NoMetrics, Snapshot
<1>5. CASE sess[id].result # "ok" /\ sess[id].result # "fatal" /\ LimitReached(n)
  <2>1. AfterFailure(s, id) = [cl EXCEPT !.state = "crashed", !.error = "limit", !.failures = n]
    BY <1>5 DEF AfterFailure
  <2> HIDE DEF cl, n
  <2> QED BY <1>1, <1>2, <2>1 DEF NoMetrics, Snapshot
<1>6. CASE sess[id].result # "ok" /\ sess[id].result # "fatal" /\ ~LimitReached(n) /\ ~s.enabled
  <2>1. AfterFailure(s, id) = [cl EXCEPT !.state = "crashed", !.error = "failed", !.failures = n]
    BY <1>6 DEF AfterFailure
  <2> HIDE DEF cl, n
  <2> QED BY <1>1, <1>2, <2>1 DEF NoMetrics, Snapshot
<1>7. CASE sess[id].result # "ok" /\ sess[id].result # "fatal" /\ ~LimitReached(n) /\ s.enabled
  <2>1. AfterFailure(s, id) =
          [cl EXCEPT !.state = "backoff", !.error = "failed", !.failures = n, !.nextRestart = TRUE]
    BY <1>7 DEF AfterFailure
  <2>2. n \in 1 .. MaxFailures - 1
    BY <1>2, <1>7, SupervisorAssumption DEF LimitReached
  <2> HIDE DEF cl, n
  <2> QED BY <1>1, <1>2, <1>7, <2>1, <2>2 DEF NoMetrics, Snapshot
<1> QED BY <1>3, <1>4, <1>5, <1>6, <1>7

\* A step that shows a state without a session, a timer or a stop keeps StateInv
\* when it also clears the metrics.
LEMMA QuietState ==
    ASSUME session' = FALSE, timer' = FALSE, intent' = "none", NoMetrics(snap'),
           snap'.state \in {"disabled", "stopped", "crashed", "incompatible"},
           closing' /\ ~done' => FALSE
    PROVE  StateInv'
  BY DEF StateInv, StateMatchesSession, MetricsOfCurrentSession, CloseOwnsStop, NoMetrics

LEMMA LaunchState ==
    ASSUME TypeOK, NEW s \in Snapshot, StartSession(s), s.enabled, timer' = FALSE,
           intent' = "none", closing' = FALSE
    PROVE  StateInv'
<1>1. CASE session' = TRUE /\ snap'.state = "starting"
  BY <1>1, StartSessionState
  DEF StateInv, StateMatchesSession, MetricsOfCurrentSession, CloseOwnsStop, NoMetrics
<1>2. CASE session' = FALSE /\ snap'.state = "incompatible"
  BY <1>2, StartSessionState
  DEF StateInv, StateMatchesSession, MetricsOfCurrentSession, CloseOwnsStop, NoMetrics
<1> QED BY <1>1, <1>2, StartSessionState

LEMMA StoppingState ==
    ASSUME session, NEW s \in Snapshot, NEW why \in {"disable", "restart", "close"},
           BeginStop(s, why), timer' = FALSE, closing' /\ ~done' => why = "close"
    PROVE  StateInv'
  BY BeginStopState
  DEF StateInv, StateMatchesSession, MetricsOfCurrentSession, CloseOwnsStop, NoMetrics

LEMMA StateStutter == StateInv /\ UNCHANGED stateVars => StateInv'
  BY DEF StateInv, stateVars, StateMatchesSession, MetricsOfCurrentSession, CloseOwnsStop

LEMMA StateInvInit == Init => StateInv
<1> SUFFICES ASSUME Init PROVE StateInv
  OBVIOUS
<1>1. PICK on \in BOOLEAN :
        LET go == on /\ MaxSession > 0
        IN  /\ snap = [enabled |-> on, session |-> IF go THEN 1 ELSE 0, failures |-> 0,
                       state |-> IF go THEN "starting" ELSE IF on THEN "incompatible" ELSE "disabled",
                       error |-> IF on /\ ~go THEN "failed" ELSE "",
                       pid |-> 0, metric |-> 0, nextRestart |-> FALSE]
            /\ session = go
  BY DEF Init
<1>2. timer = FALSE /\ intent = "none" /\ closing = FALSE
  BY DEF Init
<1> QED BY <1>1, <1>2
        DEF StateInv, StateMatchesSession, MetricsOfCurrentSession, CloseOwnsStop

LEMMA CommandState ==
    ASSUME TypeOK, StateInv, NEW c \in Cmd, HandleCommand(c) PROVE StateInv'
<1>0. /\ snap \in Snapshot /\ snap.enabled \in BOOLEAN /\ session \in BOOLEAN
      /\ timer \in BOOLEAN /\ closing \in BOOLEAN /\ done \in BOOLEAN
  BY SnapshotFields DEF TypeOK, TypeLoop
<1>1. CASE RejectCommand(c)
  BY <1>1, StateStutter DEF RejectCommand, loopVars, stateVars
<1>2. CASE EnableCommand(c)
  <2>1. ~closing /\ intent = "none" /\ UNCHANGED <<closing, intent, done>>
    BY <1>2 DEF EnableCommand, Admissible
  <2>2. CASE ~session /\ (~snap.enabled \/ snap.state = "stopped")
    <3> DEFINE on == [snap EXCEPT !.enabled = TRUE, !.error = ""]
               base == IF snap.enabled THEN snap ELSE on
    <3>1. StartSession(base) /\ timer' = (timer /\ snap.enabled)
      BY <1>0, <1>2, <2>2 DEF EnableCommand
    <3>2. [snap EXCEPT !.enabled = TRUE] \in Snapshot
      BY <1>0, SnapshotFields
    <3>3. on \in Snapshot /\ on.enabled = TRUE
      BY <1>0, <3>2 DEF Snapshot
    <3>4. base \in Snapshot /\ base.enabled
      BY <1>0, <3>3
    <3>5. timer' = FALSE
      BY <1>0, <2>2, <3>1 DEF StateInv, StateMatchesSession
    <3>6. intent' = "none" /\ closing' = FALSE
      BY <1>0, <2>1
    <3> HIDE DEF base, on
    <3> QED BY <3>1, <3>4, <3>5, <3>6, LaunchState
  <2>3. CASE ~(~session /\ (~snap.enabled \/ snap.state = "stopped"))
    <3>1. snap.enabled
      BY <2>1, <2>3 DEF StateInv, StateMatchesSession
    <3>2. UNCHANGED <<snap, session, instance, timer>>
      BY <1>0, <1>2, <2>3, <3>1 DEF EnableCommand, sessionVars
    <3> QED BY <2>1, <3>2, StateStutter DEF stateVars
  <2> QED BY <2>2, <2>3
<1>3. CASE DisableCommand(c)
  <2> DEFINE off == TimerOff([snap EXCEPT !.enabled = FALSE])
  <2>1. off \in Snapshot
    BY <1>0, SnapshotFields
  <2>2. ~closing /\ intent = "none" /\ UNCHANGED <<closing, done>> /\ timer' = FALSE
    BY <1>3 DEF DisableCommand, Admissible
  <2>3. CASE session
    <3>1. BeginStop(off, "disable")
      BY <1>3, <2>3 DEF DisableCommand
    <3> HIDE DEF off
    <3> QED BY <2>1, <2>2, <2>3, <3>1, StoppingState
  <2>4. CASE ~session
    <3>1. snap' = [Cleared(off) EXCEPT !.state = "disabled"] /\ UNCHANGED <<session, intent>>
      BY <1>3, <2>4 DEF DisableCommand, sessionVars
    <3> HIDE DEF off
    <3>2. NoMetrics(snap') /\ snap'.state = "disabled"
      BY <2>1, <3>1, DisabledState
    <3>3. session' = FALSE /\ intent' = "none"
      BY <1>0, <2>2, <2>4, <3>1
    <3> QED BY <2>2, <3>2, <3>3, QuietState
  <2> QED BY <2>3, <2>4
<1>4. CASE RestartCommand(c)
  <2> DEFINE s == TimerOff([snap EXCEPT !.failures = 0, !.error = ""])
  <2>1. [snap EXCEPT !.failures = 0] \in Snapshot
    BY <1>0, SnapshotFields
  <2>2. s \in Snapshot /\ s.enabled = snap.enabled
    <3>1. /\ [snap EXCEPT !.failures = 0, !.error = ""] \in Snapshot
          /\ [snap EXCEPT !.failures = 0, !.error = ""].enabled = snap.enabled
      BY <1>0, <2>1 DEF Snapshot
    <3> QED BY <3>1, SnapshotFields, ClearedFields
  <2>3. ~closing /\ intent = "none" /\ UNCHANGED <<closing, done>> /\ timer' = FALSE
    BY <1>4 DEF RestartCommand, Admissible
  <2>4. CASE ~snap.enabled
    <3>1. snap' = [Cleared(s) EXCEPT !.state = "disabled"] /\ UNCHANGED <<session, intent>>
      BY <1>4, <2>4 DEF RestartCommand, sessionVars
    <3> HIDE DEF s
    <3>2. NoMetrics(snap') /\ snap'.state = "disabled"
      BY <2>2, <3>1, DisabledState
    <3>3. session' = FALSE /\ intent' = "none"
      BY <1>0, <2>3, <2>4, <3>1 DEF StateInv, StateMatchesSession
    <3> QED BY <2>3, <3>2, <3>3, QuietState
  <2>5. CASE snap.enabled /\ ~session
    <3>1. StartSession(s) /\ UNCHANGED intent
      BY <1>4, <2>5 DEF RestartCommand
    <3>2. s.enabled /\ intent' = "none" /\ closing' = FALSE
      BY <1>0, <2>2, <2>3, <2>5, <3>1
    <3> HIDE DEF s
    <3> QED BY <2>2, <2>3, <3>1, <3>2, LaunchState
  <2>6. CASE snap.enabled /\ session
    <3>1. BeginStop(s, "restart")
      BY <1>4, <2>6 DEF RestartCommand
    <3> HIDE DEF s
    <3> QED BY <2>2, <2>3, <2>6, <3>1, StoppingState
  <2> QED BY <2>4, <2>5, <2>6
<1>5. CASE CloseCommand(c)
  <2> DEFINE off == TimerOff([snap EXCEPT !.enabled = FALSE])
  <2>1. /\ off \in Snapshot /\ off.state = snap.state
        /\ off.pid = snap.pid /\ off.metric = snap.metric
    <3>1. LET e == [snap EXCEPT !.enabled = FALSE]
          IN  e \in Snapshot /\ e.state = snap.state /\ e.pid = snap.pid /\ e.metric = snap.metric
      BY <1>0 DEF Snapshot
    <3> QED BY <3>1, SnapshotFields, ClearedFields
  <2>2. timer' = FALSE /\ closing' = TRUE
    BY <1>5 DEF CloseCommand
  <2>3. CASE intent # "none"
    <3>1. snap' = off /\ intent' = "close" /\ UNCHANGED <<session, instance, done>>
      BY <1>5, <2>3 DEF CloseCommand, sessionVars
    <3> HIDE DEF off
    <3> QED BY <2>1, <2>2, <2>3, <3>1
            DEF StateInv, StateMatchesSession, MetricsOfCurrentSession, CloseOwnsStop
  <2>4. CASE intent = "none" /\ ~session
    <3>1. /\ snap' = [Cleared(off) EXCEPT !.state = "disabled"] /\ done' = TRUE
          /\ UNCHANGED <<session, intent>>
      BY <1>5, <2>4 DEF CloseCommand, sessionVars
    <3> HIDE DEF off
    <3>2. NoMetrics(snap') /\ snap'.state = "disabled"
      BY <2>1, <3>1, DisabledState
    <3>3. session' = FALSE /\ intent' = "none"
      BY <1>0, <2>4, <3>1
    <3> QED BY <2>2, <3>1, <3>2, <3>3, QuietState
  <2>5. CASE intent = "none" /\ session
    <3>1. BeginStop(off, "close")
      BY <1>5, <2>5 DEF CloseCommand
    <3> HIDE DEF off
    <3> QED BY <2>1, <2>2, <2>5, <3>1, StoppingState
  <2> QED BY <2>3, <2>4, <2>5
<1>6. CASE ConfigCommand(c)
  BY <1>6, StateStutter DEF ConfigCommand, sessionVars, stateVars
<1>7. CASE ControlCommand(c)
  BY <1>7, StateStutter DEF ControlCommand, sessionVars, stateVars
<1> QED BY <1>1, <1>2, <1>3, <1>4, <1>5, <1>6, <1>7 DEF HandleCommand

\* A snapshot that differs in its error only, or in its failures only while no
\* restart is pending, is as good as the old one.
LEMMA SameStateSnapshot ==
    ASSUME StateInv, UNCHANGED <<session, instance, timer, intent, closing, done>>,
           snap'.enabled = snap.enabled, snap'.state = snap.state,
           snap'.pid = snap.pid, snap'.metric = snap.metric,
           snap'.failures = snap.failures \/ snap.state # "backoff"
    PROVE  StateInv'
  BY DEF StateInv, StateMatchesSession, MetricsOfCurrentSession, CloseOwnsStop

LEMMA ResultState ==
    ASSUME TypeOK, StateInv,
           \/ \E r \in ctlResults : HandleControlResult(r)
           \/ \E id \in stopCalls : HandleStopResult(id)
           \/ \E id \in watching : HandleSessionResult(id)
    PROVE  StateInv'
<1>0. /\ snap \in Snapshot /\ snap.enabled \in BOOLEAN /\ session \in BOOLEAN
      /\ timer \in BOOLEAN /\ closing \in BOOLEAN /\ done \in BOOLEAN
  BY SnapshotFields DEF TypeOK, TypeLoop
<1>1. ASSUME NEW r \in ctlResults, HandleControlResult(r) PROVE StateInv'
  <2>1. UNCHANGED <<session, instance, timer, intent, closing, done>>
    BY <1>1 DEF HandleControlResult, sessionVars
  <2>2. \/ UNCHANGED snap
        \/ \E e \in {"", "failed"} : snap' = [snap EXCEPT !.error = e]
    BY <1>1 DEF HandleControlResult
  <2>3. /\ snap'.enabled = snap.enabled /\ snap'.state = snap.state
        /\ snap'.pid = snap.pid /\ snap'.metric = snap.metric /\ snap'.failures = snap.failures
    BY <1>0, <2>2 DEF Snapshot
  <2> QED BY <2>1, <2>3, SameStateSnapshot
<1>2. ASSUME NEW id \in stopCalls, HandleStopResult(id) PROVE StateInv'
  <2>1. ~done /\ UNCHANGED <<timer, closing>>
    BY <1>2 DEF HandleStopResult
  <2>2. CASE id # instance \/ intent = "none"
    BY <1>2, <2>1, <2>2, StateStutter DEF HandleStopResult, sessionVars, stateVars
  <2>3. CASE id = instance /\ intent # "none"
    <3>1. intent' = "none" /\ done' = (intent = "close") /\ timer' = FALSE
      BY <1>0, <1>2, <2>1, <2>3 DEF HandleStopResult, StateInv, StateMatchesSession
    <3>2. CASE intent = "restart" /\ snap.enabled
      <4>1. StartSession([snap EXCEPT !.state = "stopped"])
        BY <1>2, <2>3, <3>2 DEF HandleStopResult
      <4>2. /\ [snap EXCEPT !.state = "stopped"] \in Snapshot
            /\ [snap EXCEPT !.state = "stopped"].enabled
        BY <1>0, <3>2, StateNames DEF Snapshot
      <4>3. closing' = FALSE
        BY <1>0, <2>1, <3>2 DEF StateInv, CloseOwnsStop
      <4> QED BY <3>1, <4>1, <4>2, <4>3, LaunchState
    <3>3. CASE ~(intent = "restart" /\ snap.enabled)
      <4>1. snap' = [Cleared(snap) EXCEPT !.state = "disabled"] /\ session' = FALSE
        BY <1>2, <2>3, <3>3 DEF HandleStopResult
      <4>2. NoMetrics(snap') /\ snap'.state = "disabled"
        BY <1>0, <4>1, DisabledState
      <4>3. ~(closing' /\ ~done')
        BY <2>1, <3>1 DEF StateInv, CloseOwnsStop
      <4> QED BY <3>1, <4>1, <4>2, <4>3, QuietState
    <3> QED BY <3>2, <3>3
  <2> QED BY <2>2, <2>3
<1>3. ASSUME NEW id \in watching, HandleSessionResult(id) PROVE StateInv'
  <2>1. ~done /\ UNCHANGED <<closing, done, intent, instance>>
    BY <1>3 DEF HandleSessionResult
  <2>2. CASE id # instance \/ ~session \/ intent # "none"
    BY <1>3, <2>1, <2>2, StateStutter DEF HandleSessionResult, stateVars
  <2>3. CASE ~(id # instance \/ ~session \/ intent # "none")
    <3>1. /\ session' = FALSE /\ snap' = AfterFailure(snap, id)
          /\ timer' = (timer \/ snap'.state = "backoff")
      BY <1>3, <2>3 DEF HandleSessionResult
    <3>2. /\ NoMetrics(snap')
          /\ snap'.state \in {"stopped", "incompatible", "crashed", "backoff"}
          /\ snap'.state = "backoff" => snap'.enabled /\ snap'.failures \in 1 .. MaxFailures - 1
      BY <1>0, <3>1, AfterFailureState
    <3>3. timer = FALSE /\ ~closing
      BY <1>0, <2>1, <2>3 DEF StateInv, StateMatchesSession
    <3> QED BY <2>1, <2>3, <3>1, <3>2, <3>3
            DEF StateInv, StateMatchesSession, MetricsOfCurrentSession, CloseOwnsStop, NoMetrics
  <2> QED BY <2>2, <2>3
<1> QED BY <1>1, <1>2, <1>3

LEMMA CallbackState ==
    ASSUME TypeOK, StateInv, HandleCritical \/ HandleTelemetry PROVE StateInv'
<1>0. snap \in Snapshot
  BY DEF TypeOK, TypeLoop
<1>1. UNCHANGED <<session, instance, timer, intent, closing, done>>
  BY DEF HandleCritical, HandleTelemetry
<1>2. ASSUME NEW id, NEW p \in {"starting", "handshaking", "running"},
             NEW q \in {"handshaking", "running", "unresponsive"},
             Current(id), snap.state = p,
             \/ p = "starting" /\ q = "handshaking"
                /\ snap' = [snap EXCEPT !.pid = id, !.state = q]
             \/ p # "starting" /\ q # "handshaking" /\ snap' = [snap EXCEPT !.state = q]
      PROVE  StateInv'
  BY <1>0, <1>1, <1>2
  DEF Current, Snapshot, StateInv, StateMatchesSession, MetricsOfCurrentSession, CloseOwnsStop
<1>3. CASE HandleCritical
  <2> DEFINE m == Head(critical)
  <2>1. CASE /\ m.kind = "started" /\ Current(m.id) /\ snap.state = "starting"
             /\ snap' = [snap EXCEPT !.pid = m.id, !.state = "handshaking"]
    BY <1>2, <2>1
  <2>2. CASE /\ m.kind = "ready" /\ Current(m.id) /\ snap.state = "handshaking"
             /\ snap' = [snap EXCEPT !.state = "running"]
    BY <1>2, <2>2
  <2>3. CASE /\ m.kind = "unresponsive" /\ Current(m.id) /\ snap.state = "running"
             /\ snap' = [snap EXCEPT !.state = "unresponsive"]
    BY <1>2, <2>3
  <2>4. CASE UNCHANGED snap
    BY <1>1, <2>4, StateStutter DEF stateVars
  <2> QED BY <1>3, <2>1, <2>2, <2>3, <2>4 DEF HandleCritical
<1>4. CASE HandleTelemetry
  <2>1. CASE /\ Current(Head(telemetry)) /\ snap.state = "running"
             /\ snap' = [snap EXCEPT !.metric = Head(telemetry)]
    BY <1>0, <1>1, <2>1
    DEF Current, Snapshot, StateInv, StateMatchesSession, MetricsOfCurrentSession, CloseOwnsStop
  <2>2. CASE UNCHANGED snap
    BY <1>1, <2>2, StateStutter DEF stateVars
  <2> QED BY <1>4, <2>1, <2>2 DEF HandleTelemetry
<1> QED BY <1>3, <1>4

LEMMA TimerState ==
    ASSUME TypeOK, StateInv, RestartTimerFires \/ StableTimerFires PROVE StateInv'
<1>0. /\ snap \in Snapshot /\ session \in BOOLEAN /\ closing \in BOOLEAN
  BY DEF TypeOK, TypeLoop
<1>1. CASE RestartTimerFires
  <2>1. timer' = FALSE /\ timer /\ ~done /\ UNCHANGED <<intent, closing>>
    BY <1>1 DEF RestartTimerFires
  <2>2. snap.enabled /\ ~closing /\ ~session /\ intent = "none"
    BY <1>0, <2>1 DEF StateInv, StateMatchesSession, CloseOwnsStop
  <2>3. StartSession(snap)
    BY <1>1, <2>2 DEF RestartTimerFires
  <2>4. intent' = "none" /\ closing' = FALSE
    BY <1>0, <2>1, <2>2
  <2> QED BY <1>0, <2>1, <2>2, <2>3, <2>4, LaunchState
<1>2. CASE StableTimerFires
  <2>1. UNCHANGED <<session, instance, timer, intent, closing, done>>
    BY <1>2 DEF StableTimerFires, sessionVars
  <2>2. CASE snap.state = "running" /\ snap' = [snap EXCEPT !.failures = 0]
    <3>1. /\ snap'.enabled = snap.enabled /\ snap'.state = snap.state
          /\ snap'.pid = snap.pid /\ snap'.metric = snap.metric
      BY <1>0, <2>2 DEF Snapshot
    <3> QED BY <2>1, <2>2, <3>1, SameStateSnapshot
  <2>3. CASE UNCHANGED snap
    BY <2>1, <2>3, StateStutter DEF stateVars
  <2> QED BY <1>2, <2>2, <2>3 DEF StableTimerFires
<1> QED BY <1>1, <1>2

LEMMA StateInvNext == TypeOK /\ StateInv /\ [Next]_vars => StateInv'
<1> SUFFICES ASSUME TypeOK, StateInv, [Next]_vars PROVE StateInv'
  OBVIOUS
<1>1. CASE LoopStep
  BY <1>1, CommandState, ResultState, CallbackState, TimerState DEF LoopStep
<1>2. ASSUME NEW id \in Sessions, SessionStep(id) PROVE StateInv'
  BY <1>2, StateStutter
  DEF SessionStep, ProcessStarted, Ready, Unresponsive, SessionFails, SessionEnds,
      Telemetry, sessionOnly, restOfLoop, loopVars, stateVars
<1>3. ASSUME NEW o \in ops, ControlSucceeds(o) \/ ControlFails(o) PROVE StateInv'
  BY <1>3, StateStutter
  DEF ControlSucceeds, ControlFails, ControlReturns, sessionOnly, restOfLoop, loopVars, stateVars
<1>4. ASSUME NEW c \in Cmd, CancelCommand(c) \/ \E k \in Command : SendCommand(c, k)
      PROVE  StateInv'
  BY <1>4, StateStutter DEF CancelCommand, SendCommand, restOfLoop, loopVars, stateVars
<1>5. CASE UNCHANGED vars
  BY <1>5, StateStutter DEF vars, loopVars, stateVars
<1> QED BY <1>1, <1>2, <1>3, <1>4, <1>5 DEF Next

LEMMA StateInvariant == Spec => [](TypeOK /\ StateInv)
<1>1. Init => TypeOK /\ StateInv
  BY TypeInit, StateInvInit
<1>2. (TypeOK /\ StateInv) /\ [Next]_vars => (TypeOK /\ StateInv)'
  BY TypeNext, StateInvNext
<1> QED BY <1>1, <1>2, PTL DEF Spec

\* The state the supervisor shows agrees with the session, the restart timer
\* and the stop in progress after every interleaving of commands, results,
\* callbacks and timers (supervisor.go: handleCommand, handleStopResult,
\* handleSessionResult, handleCallback).
THEOREM StateTruthful == Spec => []StateMatchesSession
<1>1. TypeOK /\ StateInv => StateMatchesSession
  BY DEF StateInv
<1> QED BY <1>1, StateInvariant, PTL

\* PID and telemetry shown belong to the current session and are gone while it
\* is starting, stopping or over (supervisor.go: clearRuntimeMetrics and the
\* fence at the head of handleCallback).
THEOREM MetricsFenced == Spec => []MetricsOfCurrentSession
<1>1. TypeOK /\ StateInv => MetricsOfCurrentSession
  BY DEF StateInv
<1> QED BY <1>1, StateInvariant, PTL

\* The four truths together, as the lifecycle run checks them: well typed, one
\* live session, a state that agrees with it, and metrics of no other session.
THEOREM Truthful == Spec => []SupervisorIsTruthful
<1>1. TypeOK /\ SingleLiveSession /\ StateMatchesSession /\ MetricsOfCurrentSession
      => SupervisorIsTruthful
  BY DEF SupervisorIsTruthful
<1> QED BY <1>1, TypeCorrect, SingleLive, StateTruthful, MetricsFenced, PTL

-----------------------------------------------------------------------------
(* Where the commands are. *)

Distinct(s) == \A i, j \in 1 .. Len(s) : s[i] = s[j] => i = j

\* The commands that wait in the command channel.
Sent == {commands[i] : i \in 1 .. Len(commands)}

ControlKinds == {"config", "subscription", "active"}

\* The lifecycle commands that own the stop in progress.
StopsInv ==
    /\ disableReply # NoCmd => cmd[disableReply].kind = "disable"
    /\ restartReply # NoCmd => cmd[restartReply].kind = "restart"
    /\ closeReply # NoCmd => cmd[closeReply].kind = "close"
    /\ intent = "none" => StopReplies = {}
    /\ ~closing => closeReply = NoCmd

\* An unanswered command is in one place only, once.
PlacesInv ==
    /\ Distinct(commands) /\ Distinct(queue)
    /\ inFlight.op # 0 => inFlight.cmd \notin Queued
    /\ \A c \in Retired : cmd[c].kind \in ControlKinds
    /\ \A c \in Sent : cmd[c].kind # "none" /\ c \notin Retired /\ c \notin StopReplies

\* The commands nobody has answered.
Waiting == Sent \cup Retired \cup StopReplies

RepliesInv ==
    /\ \A c \in Waiting : reply[c] = << >>
    /\ \A c \in Cmd : cmd[c].kind = "none" => reply[c] = << >>
    /\ AtMostOneReply
    /\ NoLostReply

ReplyInv == StopsInv /\ PlacesInv /\ RepliesInv

-----------------------------------------------------------------------------
(* The control in flight, and what its session has been told. *)

\* Two control states with the same active flag and subscription.
Agree(x, y) == x.active = y.active /\ x.sub = y.sub

\* The control state once the control in flight has been applied.
Applied == ApplyControl(control, cmd[inFlight.cmd]).next

\* Controls wait only for a session that nobody is stopping, and the one in
\* flight was computed from the control state that is still the committed one.
FlightInv ==
    /\ Retired # {} => session /\ intent = "none"
    /\ inFlight.op # 0 => /\ inFlight.instance = instance
                          /\ ~Durable(inFlight.cmd) => Agree(inFlight.next, Applied)

\* Identities of Control calls are never used twice, so one call, or one result
\* of it, belongs to the control in flight.
CallsInv ==
    /\ inFlight.op <= controlID
    /\ \A o \in ops : /\ o.op \in 1 .. controlID /\ o.instance <= instance
                      /\ o.op = inFlight.op => o = inFlight
                      /\ o.instance = instance /\ session /\ intent = "none" => o = inFlight
    /\ \A r \in ctlResults :
         /\ r.op \in 1 .. controlID
         /\ r.op = inFlight.op => /\ r.instance = inFlight.instance /\ inFlight \notin ops
                                  /\ \A q \in ctlResults : q.op = r.op => q = r

\* The control in flight has succeeded, and the loop does not know it yet.
Succeeded == \E r \in ctlResults : r.op = inFlight.op /\ r.ok

ToldInv ==
    session /\ intent = "none" =>
        Agree(told[instance], IF inFlight.op # 0 /\ Succeeded THEN Applied ELSE control)

ControlInv == FlightInv /\ CallsInv /\ ToldInv

-----------------------------------------------------------------------------
(* The published value. *)

InSync == published = [snap |-> snap, control |-> control]

LEMMA PublishSync == Publish => InSync'
  BY DEF Publish, InSync

LEMMA SyncStutter ==
    PublishedIsCurrent /\ UNCHANGED <<published, snap, control, closing, intent>>
        => PublishedIsCurrent'
  BY DEF PublishedIsCurrent

LEMMA CommandPublished ==
    ASSUME PublishedIsCurrent, NEW c \in Cmd, HandleCommand(c) PROVE PublishedIsCurrent'
<1>1. CASE RejectCommand(c)
  BY <1>1, SyncStutter DEF RejectCommand, loopVars
<1>2. CASE EnableCommand(c) \/ DisableCommand(c) \/ RestartCommand(c)
  <2>1. Publish
    BY <1>2 DEF EnableCommand, DisableCommand, RestartCommand
  <2> QED BY <2>1 DEF Publish, PublishedIsCurrent
<1>3. CASE CloseCommand(c)
  <2>1. Publish \/ (closing' = TRUE /\ intent' = "close")
    BY <1>3 DEF CloseCommand
  <2> QED BY <2>1 DEF Publish, PublishedIsCurrent
<1>4. CASE ConfigCommand(c)
  <2>1. /\ UNCHANGED <<snap, closing, intent>>
        /\ Publish \/ UNCHANGED <<control, published>>
    BY <1>4 DEF ConfigCommand
  <2> QED BY <2>1, SyncStutter DEF Publish, PublishedIsCurrent
<1>5. CASE ControlCommand(c)
  <2>1. /\ UNCHANGED <<snap, closing, intent>>
        /\ Publish \/ UNCHANGED <<control, published>>
    BY <1>5 DEF ControlCommand
  <2> QED BY <2>1, SyncStutter DEF Publish, PublishedIsCurrent
<1> QED BY <1>1, <1>2, <1>3, <1>4, <1>5 DEF HandleCommand

\* The other handlers publish, or change nothing of what they would publish.
LEMMA HandlerPublished ==
    ASSUME \/ \E r \in ctlResults : HandleControlResult(r)
           \/ \E id \in stopCalls : HandleStopResult(id)
           \/ \E id \in watching : HandleSessionResult(id)
           \/ HandleCritical \/ HandleTelemetry
           \/ RestartTimerFires \/ StableTimerFires
    PROVE  Publish \/ UNCHANGED <<published, snap, control, closing, intent>>
<1>1. ASSUME NEW r \in ctlResults, HandleControlResult(r)
      PROVE  Publish \/ UNCHANGED <<published, snap, control, closing, intent>>
  BY <1>1 DEF HandleControlResult
<1>2. ASSUME NEW id \in stopCalls, HandleStopResult(id)
      PROVE  Publish \/ UNCHANGED <<published, snap, control, closing, intent>>
  BY <1>2 DEF HandleStopResult
<1>3. ASSUME NEW id \in watching, HandleSessionResult(id)
      PROVE  Publish \/ UNCHANGED <<published, snap, control, closing, intent>>
  BY <1>3 DEF HandleSessionResult
<1>4. CASE HandleCritical
  BY <1>4 DEF HandleCritical
<1>5. CASE HandleTelemetry
  BY <1>5 DEF HandleTelemetry
<1>6. CASE RestartTimerFires \/ StableTimerFires
  BY <1>6 DEF RestartTimerFires, StableTimerFires
<1> QED BY <1>1, <1>2, <1>3, <1>4, <1>5, <1>6

\* The steps of the sessions, of the Control calls and of the callers leave the
\* loop alone.
Outside ==
    \/ \E id \in Sessions : SessionStep(id)
    \/ \E o \in ops : ControlSucceeds(o) \/ ControlFails(o)
    \/ \E c \in Cmd, k \in Command : SendCommand(c, k)
    \/ \E c \in Cmd : CancelCommand(c)
    \/ UNCHANGED vars

LEMMA OutsideQuiet == Outside => UNCHANGED restOfLoop
<1>1. ASSUME NEW id \in Sessions, SessionStep(id) PROVE UNCHANGED restOfLoop
  BY <1>1 DEF SessionStep, ProcessStarted, Ready, Unresponsive, SessionFails, SessionEnds,
              Telemetry, sessionOnly
<1>2. ASSUME NEW o \in ops, ControlSucceeds(o) \/ ControlFails(o) PROVE UNCHANGED restOfLoop
  BY <1>2 DEF ControlSucceeds, ControlFails, ControlReturns, sessionOnly
<1>3. ASSUME NEW c \in Cmd, CancelCommand(c) \/ \E k \in Command : SendCommand(c, k)
      PROVE  UNCHANGED restOfLoop
  BY <1>3 DEF CancelCommand, SendCommand
<1>4. CASE UNCHANGED vars
  BY <1>4 DEF vars, restOfLoop
<1> QED BY <1>1, <1>2, <1>3, <1>4 DEF Outside

LEMMA NextCases == [Next]_vars => LoopStep \/ Outside
  BY DEF Next, Outside

LEMMA PublishedNext == PublishedIsCurrent /\ [Next]_vars => PublishedIsCurrent'
<1> SUFFICES ASSUME PublishedIsCurrent, [Next]_vars PROVE PublishedIsCurrent'
  OBVIOUS
<1>1. ASSUME NEW c \in Cmd, HandleCommand(c) PROVE PublishedIsCurrent'
  BY <1>1, CommandPublished
<1>2. CASE Publish
  BY <1>2 DEF Publish, PublishedIsCurrent
<1>3. CASE UNCHANGED <<published, snap, control, closing, intent>>
  BY <1>3, SyncStutter
<1>4. CASE Outside
  BY <1>4, OutsideQuiet, SyncStutter DEF restOfLoop, loopVars
<1> QED BY <1>1, <1>2, <1>3, <1>4, HandlerPublished, NextCases DEF LoopStep

\* Readers of Snapshot and subscribers of Publish are never behind the loop,
\* but for a Close that takes over a stop in progress (supervisor.go:
\* publish, and the branch of handleCommand that does not call it).
THEOREM PublicationsCurrent == Spec => []PublishedIsCurrent
<1>1. Init => PublishedIsCurrent
  BY DEF Init, PublishedIsCurrent
<1> QED BY <1>1, PublishedNext, PTL DEF Spec

-----------------------------------------------------------------------------
(* Launching. *)

Wanted == /\ snap'.enabled /\ ~closing'
          /\ timer => snap.failures < MaxFailures

LEMMA BudgetLeft == TypeOK /\ StateInv => (timer => snap.failures < MaxFailures)
  BY SupervisorAssumption DEF StateInv, StateMatchesSession

LEMMA LaunchWanted ==
    ASSUME TypeOK, StateInv, NEW s \in Snapshot, StartSession(s), s.enabled, closing' = FALSE
    PROVE  Wanted
  BY StartSessionState, BudgetLeft DEF Wanted

LEMMA EnableLaunches ==
    ASSUME TypeOK, StateInv, NEW c \in Cmd, EnableCommand(c)
    PROVE  instance' = instance \/ Wanted
<1> DEFINE on == [snap EXCEPT !.enabled = TRUE, !.error = ""]
           base == IF snap.enabled THEN snap ELSE on
           starts == ~session /\ (~snap.enabled \/ snap.state = "stopped")
<1>1. snap \in Snapshot
  BY DEF TypeOK, TypeLoop
<1>2. base \in Snapshot /\ base.enabled
  BY <1>1 DEF Snapshot
<1>3. IF starts THEN StartSession(base) ELSE UNCHANGED instance
  BY DEF EnableCommand, sessionVars
<1>4. closing' = FALSE
  BY DEF EnableCommand, Admissible, TypeOK, TypeLoop
<1> HIDE DEF base, starts
<1> QED BY <1>2, <1>3, <1>4, LaunchWanted

LEMMA RestartLaunches ==
    ASSUME TypeOK, StateInv, NEW c \in Cmd, RestartCommand(c)
    PROVE  instance' = instance \/ Wanted
<1> DEFINE s == TimerOff([snap EXCEPT !.failures = 0, !.error = ""])
<1>1. snap \in Snapshot
  BY DEF TypeOK, TypeLoop
<1>2. s \in Snapshot /\ s.enabled = snap.enabled
  BY <1>1 DEF Snapshot, TimerOff
<1>3. \/ UNCHANGED instance
      \/ snap.enabled /\ StartSession(s)
  BY DEF RestartCommand, sessionVars, BeginStop
<1>4. closing' = FALSE
  BY DEF RestartCommand, Admissible, TypeOK, TypeLoop
<1> HIDE DEF s
<1> QED BY <1>2, <1>3, <1>4, LaunchWanted

LEMMA StopLaunches ==
    ASSUME TypeOK, StateInv, NEW id \in stopCalls, HandleStopResult(id)
    PROVE  instance' = instance \/ Wanted
<1> DEFINE s == [snap EXCEPT !.state = "stopped"]
<1>1. snap \in Snapshot
  BY DEF TypeOK, TypeLoop
<1>2. s \in Snapshot /\ s.enabled = snap.enabled
  BY <1>1 DEF Snapshot, States
<1>3. \/ UNCHANGED instance
      \/ intent = "restart" /\ snap.enabled /\ StartSession(s)
  BY DEF HandleStopResult, sessionVars
<1>4. intent = "restart" => closing' = FALSE
  BY DEF HandleStopResult, StateInv, CloseOwnsStop, TypeOK, TypeLoop
<1> HIDE DEF s
<1> QED BY <1>2, <1>3, <1>4, LaunchWanted

LEMMA TimerLaunches ==
    ASSUME TypeOK, StateInv, RestartTimerFires
    PROVE  instance' = instance \/ Wanted
<1>1. snap \in Snapshot
  BY DEF TypeOK, TypeLoop
<1>2. \/ UNCHANGED instance
      \/ snap.enabled /\ ~closing /\ StartSession(snap)
  BY DEF RestartTimerFires, sessionVars
<1>3. closing' = closing /\ closing \in BOOLEAN
  BY DEF RestartTimerFires, TypeOK, TypeLoop
<1> QED BY <1>1, <1>2, <1>3, LaunchWanted

LEMMA LaunchStep ==
    TypeOK /\ StateInv /\ [Next]_vars => [instance' # instance => Wanted]_vars
<1> SUFFICES ASSUME TypeOK, StateInv, [Next]_vars PROVE instance' = instance \/ Wanted
  OBVIOUS
<1>1. ASSUME NEW c \in Cmd, HandleCommand(c) PROVE instance' = instance \/ Wanted
  <2>1. CASE RejectCommand(c)
    BY <2>1 DEF RejectCommand, loopVars
  <2>2. CASE DisableCommand(c)
    BY <2>2 DEF DisableCommand, BeginStop, sessionVars
  <2>3. CASE CloseCommand(c)
    BY <2>3 DEF CloseCommand, BeginStop, sessionVars
  <2>4. CASE ConfigCommand(c) \/ ControlCommand(c)
    BY <2>4 DEF ConfigCommand, ControlCommand, sessionVars
  <2> QED BY <1>1, <2>1, <2>2, <2>3, <2>4, EnableLaunches, RestartLaunches DEF HandleCommand
<1>2. ASSUME NEW r \in ctlResults, HandleControlResult(r) PROVE instance' = instance
  BY <1>2 DEF HandleControlResult, sessionVars
<1>3. ASSUME NEW id \in watching, HandleSessionResult(id) PROVE instance' = instance
  BY <1>3 DEF HandleSessionResult
<1>4. CASE HandleCritical \/ HandleTelemetry \/ StableTimerFires
  BY <1>4 DEF HandleCritical, HandleTelemetry, StableTimerFires, sessionVars
<1>5. CASE Outside
  BY <1>5, OutsideQuiet DEF restOfLoop, loopVars
<1> QED BY <1>1, <1>2, <1>3, <1>4, <1>5, StopLaunches, TimerLaunches, NextCases DEF LoopStep

\* Whatever the order of crashes, timers and commands, a session is launched
\* for an enabled plugin of an open supervisor only, and the restart timer
\* launches none once the failures have used the budget up (supervisor.go:
\* startSession and its callers).
THEOREM LaunchesWanted == Spec => LaunchOnlyWhenWanted
<1>1. TypeOK /\ StateInv /\ [Next]_vars
      => [instance' # instance =>
            /\ snap'.enabled /\ ~closing'
            /\ timer => snap.failures < MaxFailures]_vars
  BY LaunchStep DEF Wanted
<1> QED BY <1>1, StateInvariant, PTL DEF Spec, LaunchOnlyWhenWanted

-----------------------------------------------------------------------------
(* What a control does to a control state. *)

\* No control moves a version back, none replaces the content of a version, and
\* a config and the other controls leave each other's part alone.
LEMMA ApplyControlGrows ==
    ASSUME NEW ctl \in Control, NEW c \in Command \cup {NoCommand}
    PROVE  LET n == ApplyControl(ctl, c).next
           IN  /\ n.config.ver >= ctl.config.ver
               /\ n.config.ver = ctl.config.ver => n.config = ctl.config
               /\ n.sub.ver >= ctl.sub.ver
               /\ c.kind = "config" => Agree(n, ctl)
               /\ c.kind # "config" => n.config = ctl.config
<1>0. /\ ctl.config.ver \in Int /\ ctl.sub.ver \in Int
      /\ c.version.ver \in Int
  <2>1. \A v \in Versioned : v.ver \in Int
    BY DEF Versioned
  <2> QED BY <2>1, CommandType DEF Control
<1>1. CASE c.kind = "config"
  <2> DEFINE v == ApplyVersion(ctl.config, c.version)
  <2>1. ApplyControl(ctl, c).next = IF v = "changed" THEN [ctl EXCEPT !.config = c.version] ELSE ctl
    BY <1>1 DEF ApplyControl
  <2>2. v = "changed" => c.version.ver > ctl.config.ver
    BY <1>0 DEF ApplyVersion
  <2> HIDE DEF v
  <2> QED BY <1>0, <1>1, <2>1, <2>2 DEF Control, Agree
<1>2. CASE c.kind = "subscription"
  <2> DEFINE v == IF ctl.active /\ c.version.ver = 0 THEN "rejected"
                  ELSE ApplyVersion(ctl.sub, c.version)
  <2>1. ApplyControl(ctl, c).next = IF v = "changed" THEN [ctl EXCEPT !.sub = c.version] ELSE ctl
    BY <1>2 DEF ApplyControl
  <2>2. v = "changed" => c.version.ver > ctl.sub.ver
    BY <1>0 DEF ApplyVersion
  <2> HIDE DEF v
  <2> QED BY <1>0, <1>2, <2>1, <2>2 DEF Control
<1>3. CASE c.kind # "config" /\ c.kind # "subscription"
  <2>1. ApplyControl(ctl, c).next = [ctl EXCEPT !.active = c.active]
    BY <1>3 DEF ApplyControl
  <2> QED BY <1>0, <1>3, <2>1 DEF Control
<1> QED BY <1>1, <1>2, <1>3

\* The active flag and the subscription after a control depend on those before
\* it only.
LEMMA ApplyControlAgrees ==
    ASSUME NEW x \in Control, NEW y \in Control, Agree(x, y),
           NEW c \in Command \cup {NoCommand}
    PROVE  Agree(ApplyControl(x, c).next, ApplyControl(y, c).next)
<1>1. CASE c.kind = "config"
  BY <1>1, ApplyControlGrows DEF Agree
<1>2. CASE c.kind = "subscription"
  <2> DEFINE V(ctl) == IF ctl.active /\ c.version.ver = 0 THEN "rejected"
                       ELSE ApplyVersion(ctl.sub, c.version)
  <2>1. \A ctl \in Control : ApplyControl(ctl, c).next =
           IF V(ctl) = "changed" THEN [ctl EXCEPT !.sub = c.version] ELSE ctl
    BY <1>2 DEF ApplyControl
  <2>2. V(x) = V(y)
    BY DEF Agree
  <2> HIDE DEF V
  <2> QED BY <2>1, <2>2 DEF Agree, Control
<1>3. CASE c.kind # "config" /\ c.kind # "subscription"
  <2>1. \A ctl \in Control : ApplyControl(ctl, c).next = [ctl EXCEPT !.active = c.active]
    BY <1>3 DEF ApplyControl
  <2> QED BY <2>1 DEF Agree, Control
<1> QED BY <1>1, <1>2, <1>3

LEMMA AgreeTrans ==
    ASSUME NEW x, NEW y, NEW z, Agree(x, y), Agree(y, z) PROVE Agree(x, z) /\ Agree(y, x)
  BY DEF Agree

-----------------------------------------------------------------------------
(* How the steps move the control in flight. *)

LEMMA FlightTypes ==
    ASSUME TypeOK
    PROVE  /\ inFlight \in Ops /\ inFlight.op \in Nat /\ controlID \in Nat /\ instance \in Nat
           /\ \A o \in ops : o \in Ops /\ o.op \in Nat /\ o.instance \in Sessions /\ o.cmd \in Cmd
           /\ \A r \in ctlResults : r.op \in Nat
           /\ \A c \in Cmd : cmd[c] \in Command \cup {NoCommand}
           /\ control \in Control /\ queue \in Seq(Cmd)
           /\ \A id \in Sessions : told[id] \in Control
           /\ session \in BOOLEAN
<1>1. instance \in Nat
  BY SupervisorAssumption DEF TypeOK, TypeLoop
<1>2. /\ inFlight \in Ops /\ controlID \in Nat /\ control \in Control /\ queue \in Seq(Cmd)
      /\ ops \in SUBSET Ops /\ \A o \in ops : o.cmd \in Cmd /\ o.instance \in Sessions
      /\ ctlResults \in SUBSET [op : Nat, instance : 0 .. MaxSession, ok : BOOLEAN]
  BY DEF TypeOK, TypeControls
<1>3. (\A c \in Cmd : cmd[c] \in Command \cup {NoCommand}) /\ \A id \in Sessions : told[id] \in Control
  BY DEF TypeOK, TypeCallers, TypeSessions
<1>4. inFlight.op \in Nat /\ \A o \in ops : o.op \in Nat
  BY <1>2 DEF Ops
<1>5. \A r \in ctlResults : r.op \in Nat
  BY <1>2
<1>6. session \in BOOLEAN
  BY DEF TypeOK, TypeLoop
<1> QED BY <1>1, <1>2, <1>3, <1>4, <1>5, <1>6

LEMMA RetiredFrame == UNCHANGED <<queue, inFlight>> => Retired' = Retired
  BY DEF Retired, Queued

\* Nothing waits and nothing is in flight without a session to tell.
LEMMA EmptyFlight ==
    ASSUME FlightInv, ~session \/ intent # "none" PROVE Retired = {} /\ inFlight.op = 0
  BY DEF FlightInv, Retired

\* A step that leaves the session, its Control calls and what it was told alone.
LEMMA KeepControl ==
    ASSUME TypeOK, TypeOK', ControlInv,
           UNCHANGED <<controlID, inFlight, ops, session, instance, intent, told>>,
           queue' = queue \/ (session /\ intent = "none"),
           inFlight.op # 0 => cmd'[inFlight.cmd] = cmd[inFlight.cmd],
           Agree(control', control),
           ctlResults' \subseteq ctlResults,
           \A r \in ctlResults : r.op = inFlight.op => r \in ctlResults'
    PROVE  ControlInv'
<1>1. inFlight.op # 0 =>
        /\ Durable(inFlight.cmd)' <=> Durable(inFlight.cmd)
        /\ Agree(Applied', Applied)
  <2> SUFFICES ASSUME inFlight.op # 0
               PROVE  /\ Durable(inFlight.cmd)' <=> Durable(inFlight.cmd)
                      /\ Agree(Applied', Applied)
    OBVIOUS
  <2>1. inFlight.cmd \in Cmd /\ cmd[inFlight.cmd] \in Command \cup {NoCommand}
    BY DEF TypeOK, TypeControls, TypeCallers
  <2>2. PICK k \in Command \cup {NoCommand} :
          cmd[inFlight.cmd] = k /\ cmd'[inFlight.cmd'] = k
    BY <2>1
  <2>3. PICK x \in Control : x = control
    BY FlightTypes
  <2>4. PICK y \in Control : y = control'
    BY DEF TypeOK, TypeControls
  <2>5. Agree(ApplyControl(y, k).next, ApplyControl(x, k).next)
    BY <2>3, <2>4, ApplyControlAgrees
  <2>6. Applied = ApplyControl(x, k).next /\ Applied' = ApplyControl(y, k).next
    BY <2>2, <2>3, <2>4 DEF Applied
  <2> QED BY <2>2, <2>5, <2>6 DEF Durable
<1>2. FlightInv'
  <2>1. Retired' # {} => session' /\ intent' = "none"
    BY RetiredFrame DEF ControlInv, FlightInv
  <2>2. inFlight'.op # 0 => /\ inFlight'.instance = instance'
                            /\ ~Durable(inFlight.cmd)' => Agree(inFlight'.next, Applied')
    <3>1. inFlight'.op # 0 => inFlight'.instance = instance'
      BY DEF ControlInv, FlightInv
    <3>2. inFlight.op # 0 /\ ~Durable(inFlight.cmd) => Agree(inFlight.next, Applied)
      BY DEF ControlInv, FlightInv
    <3>3. ASSUME inFlight.op # 0, ~Durable(inFlight.cmd)' PROVE Agree(inFlight'.next, Applied')
      <4>1. Agree(inFlight.next, Applied) /\ Agree(Applied', Applied)
        BY <1>1, <3>2, <3>3
      <4> HIDE DEF Applied
      <4> QED BY <4>1 DEF Agree
    <3> QED BY <3>1, <3>3
  <2> QED BY <2>1, <2>2 DEF FlightInv
<1>3. CallsInv'
  BY DEF ControlInv, CallsInv
<1>4. ToldInv'
  <2>1. inFlight.op # 0 /\ Succeeded' <=> inFlight.op # 0 /\ Succeeded
    BY DEF Succeeded
  <2> SUFFICES ASSUME session, intent = "none"
               PROVE  Agree(told'[instance'], IF inFlight'.op # 0 /\ Succeeded' THEN Applied' ELSE control')
    BY DEF ToldInv
  <2>2. Agree(told[instance], IF inFlight.op # 0 /\ Succeeded THEN Applied ELSE control)
    BY DEF ControlInv, ToldInv
  <2>3. CASE inFlight.op # 0 /\ Succeeded
    BY <1>1, <2>1, <2>2, <2>3, AgreeTrans DEF Agree
  <2>4. CASE ~(inFlight.op # 0 /\ Succeeded)
    BY <2>1, <2>2, <2>4 DEF Agree
  <2> QED BY <2>3, <2>4
<1> QED BY <1>2, <1>3, <1>4 DEF ControlInv

\* A step after which there is no session to tell, and before which nothing was
\* in flight.
LEMMA IdleControl ==
    ASSUME TypeOK, ControlInv, Retired = {}, inFlight.op = 0,
           UNCHANGED <<queue, controlID, inFlight, ops, ctlResults, instance>>,
           ~(session' /\ intent' = "none")
    PROVE  ControlInv'
<1>1. FlightInv'
  BY RetiredFrame DEF FlightInv
<1>2. CallsInv'
  BY DEF ControlInv, CallsInv
<1> QED BY <1>1, <1>2 DEF ControlInv, ToldInv

\* The controls are retired when their session ends or is told to.
LEMMA RetiredControl ==
    ASSUME TypeOK, ControlInv, RetireControls, UNCHANGED <<ops, ctlResults, instance>>,
           ~(session' /\ intent' = "none")
    PROVE  ControlInv'
<1>1. inFlight'.op = 0 /\ queue' = << >> /\ controlID' = controlID + 1
  BY DEF RetireControls, NoOp
<1>2. Retired' = {}
  BY <1>1 DEF Retired, Queued
<1>3. FlightInv'
  BY <1>1, <1>2 DEF FlightInv
<1>4. CallsInv'
  <2>1. \A o \in ops : o.op \in 1 .. controlID' /\ o.op # 0 /\ o.instance <= instance
    BY <1>1, FlightTypes DEF ControlInv, CallsInv
  <2>2. \A r \in ctlResults : r.op \in 1 .. controlID' /\ r.op # 0
    BY <1>1, FlightTypes DEF ControlInv, CallsInv
  <2>3. inFlight'.op <= controlID'
    BY <1>1, FlightTypes
  <2> QED BY <1>1, <2>1, <2>2, <2>3 DEF CallsInv
<1> QED BY <1>3, <1>4 DEF ControlInv, ToldInv

\* A fresh session is told the control state it is launched with, and no call
\* to another session can reach it.
LEMMA LaunchControl ==
    ASSUME TypeOK, ControlInv, NEW s, StartSession(s), Retired = {}, inFlight.op = 0,
           UNCHANGED <<queue, controlID, inFlight, ops, ctlResults, control>>
    PROVE  ControlInv'
<1>1. CASE Exhausted
  <2>1. session' = FALSE /\ instance' = instance
    BY <1>1 DEF StartSession
  <2> QED BY <2>1, IdleControl
<1>2. CASE ~Exhausted
  <2>1. instance' = instance + 1 /\ told' = [told EXCEPT ![instance + 1] = control]
    BY <1>2 DEF StartSession
  <2>2. instance + 1 \in Sessions
    BY <1>2, ZeroSession DEF Exhausted, TypeOK, TypeLoop, Sessions
  <2>3. FlightInv'
    BY RetiredFrame DEF FlightInv
  <2>4. CallsInv'
    <3>1. \A o \in ops : o.instance <= instance' /\ o.instance # instance'
      BY <2>1, FlightTypes DEF ControlInv, CallsInv, Sessions
    <3> QED BY <3>1 DEF ControlInv, CallsInv
  <2>5. told'[instance'] = control'
    BY <2>1, <2>2 DEF TypeOK, TypeSessions
  <2>6. ToldInv'
    BY <2>5 DEF ToldInv, Agree
  <2> QED BY <2>3, <2>4, <2>6 DEF ControlInv
<1> QED BY <1>1, <1>2

\* The two outcomes of dispatchNextControl.
Dispatched(ctl, o) ==
    /\ o.op = controlID + 1 /\ o.instance = instance /\ o.cmd \in Cmd
    /\ ~Durable(o.cmd) => o.next = ApplyControl(ctl, cmd[o.cmd]).next

LEMMA DispatchOutcome ==
    ASSUME TypeOK, NEW q \in Seq(Cmd), NEW ctl, NEW f, Dispatch(q, ctl, f)
    PROVE  \/ queue' = << >> /\ inFlight' = NoOp /\ UNCHANGED <<controlID, ops>>
           \/ /\ controlID' = controlID + 1
              /\ \E o : Dispatched(ctl, o) /\ inFlight' = o /\ ops' = ops \cup {o}
<1>1. PICK n \in 0 .. Len(q) : Dispatch(q, ctl, f)!(n)
  BY DEF Dispatch
<1>2. CASE n = Len(q)
  BY <1>1, <1>2
<1>3. CASE n < Len(q)
  <2> DEFINE c == q[n + 1]
             nx == IF Durable(c) THEN ctl ELSE ApplyControl(ctl, cmd[c]).next
             o == [op |-> controlID + 1, instance |-> instance, cmd |-> c, next |-> nx]
  <2>1. inFlight' = o /\ controlID' = controlID + 1 /\ ops' = ops \cup {o}
    BY <1>1, <1>3
  <2>2. c \in Cmd
    BY <1>3
  <2>3. Dispatched(ctl, o)
    <3> HIDE DEF c
    <3> QED BY <2>2 DEF Dispatched
  <2> HIDE DEF o
  <2> QED BY <2>1, <2>3
<1> QED BY <1>2, <1>3

\* Dispatching for a session that has no call of its own under way.
LEMMA DispatchControl ==
    ASSUME TypeOK, TypeOK', ControlInv, session, intent = "none",
           NEW q \in Seq(Cmd), NEW ctl \in Control, NEW f, Dispatch(q, ctl, f),
           control' = ctl, Agree(told[instance], ctl),
           UNCHANGED <<cmd, session, intent, instance, told>>,
           \A o \in ops : o.instance # instance,
           ctlResults' \subseteq ctlResults
    PROVE  ControlInv'
<1>0. /\ \A o \in ops : o.op \in 1 .. controlID /\ o.instance <= instance
      /\ \A r \in ctlResults' : r.op \in 1 .. controlID
      /\ controlID \in Nat /\ instance \in Nat
  BY FlightTypes DEF ControlInv, CallsInv
<1>1. CASE queue' = << >> /\ inFlight' = NoOp /\ UNCHANGED <<controlID, ops>>
  <2>1. inFlight'.op = 0 /\ Retired' = {}
    BY <1>1 DEF Retired, Queued, NoOp
  <2>2. FlightInv'
    BY <2>1 DEF FlightInv
  <2>3. CallsInv'
    BY <1>0, <1>1, <2>1 DEF CallsInv
  <2>4. ToldInv'
    BY <2>1 DEF ToldInv, Agree
  <2> QED BY <2>2, <2>3, <2>4 DEF ControlInv
<1>2. ASSUME NEW o, Dispatched(ctl, o), inFlight' = o, ops' = ops \cup {o},
             controlID' = controlID + 1
      PROVE  ControlInv'
  <2>1. o.op = controlID + 1 /\ o.op # 0 /\ o.instance = instance
    BY <1>0, <1>2 DEF Dispatched
  <2>2. ~Durable(inFlight.cmd)' => inFlight'.next = Applied'
    BY <1>2 DEF Dispatched, Durable, Applied
  <2>3. FlightInv'
    BY <1>2, <2>1, <2>2 DEF FlightInv, Agree
  <2>4. CallsInv'
    <3>1. \A x \in ops : x.op # o.op /\ x.op \in 1 .. controlID' /\ x.instance # instance'
      BY <1>0, <1>2, <2>1
    <3>2. \A r \in ctlResults' : r.op # o.op /\ r.op \in 1 .. controlID'
      BY <1>0, <1>2, <2>1
    <3>3. o.op \in 1 .. controlID' /\ o.op <= controlID'
      BY <1>0, <1>2, <2>1
    <3> QED BY <1>0, <1>2, <2>1, <3>1, <3>2, <3>3 DEF CallsInv
  <2>5. ~Succeeded'
    BY <1>0, <1>2, <2>1 DEF Succeeded
  <2>6. ToldInv'
    BY <2>5 DEF ToldInv, Agree
  <2> QED BY <2>3, <2>4, <2>6 DEF ControlInv
<1> QED BY <1>1, <1>2, DispatchOutcome

-----------------------------------------------------------------------------
(* Who answers whom. *)

LEMMA WaitingType == TypeOK => Sent \subseteq Cmd /\ Retired \subseteq Cmd /\ StopReplies \subseteq Cmd
<1> SUFFICES ASSUME TypeOK PROVE Sent \subseteq Cmd /\ StopReplies \subseteq Cmd
  BY RetiredType
<1>1. Sent \subseteq Cmd
  BY DEF Sent, TypeOK, TypeCallers
<1>2. StopReplies \subseteq Cmd
  BY DEF StopReplies, TypeOK, TypeLoop
<1> QED BY <1>1, <1>2

\* What a waiting command is tells where it waits.
LEMMA WaitingKinds ==
    ASSUME ReplyInv
    PROVE  /\ \A c \in Waiting : cmd[c].kind # "none"
           /\ \A c \in StopReplies : cmd[c].kind \in LifecycleKinds /\ c \notin Retired
<1>1. \A c \in StopReplies : cmd[c].kind \in {"disable", "restart", "close"}
  BY DEF ReplyInv, StopsInv, StopReplies
<1>2. \A c \in Retired : cmd[c].kind \in ControlKinds
  BY DEF ReplyInv, PlacesInv
<1>3. \A c \in Sent : cmd[c].kind # "none"
  BY DEF ReplyInv, PlacesInv
<1> QED BY <1>1, <1>2, <1>3 DEF Waiting, ControlKinds, LifecycleKinds

LEMMA AppendEmpty == ASSUME NEW x PROVE Len(Append(<< >>, x)) = 1 /\ Append(<< >>, x) # << >>
<1>1. x \in {x} /\ << >> \in Seq({x}) /\ Len(<< >>) = 0
  OBVIOUS
<1>2. Append(<< >>, x) \in Seq({x}) /\ Len(Append(<< >>, x)) = Len(<< >>) + 1
  BY <1>1
<1> QED BY <1>1, <1>2

\* Answering commands that wait, and only those, once.
LEMMA AnswerWaiting ==
    ASSUME TypeOK, TypeOK', ReplyInv, UNCHANGED cmd, done => done', NEW f, Answer(f),
           DOMAIN f \subseteq Waiting, Waiting' = Waiting \ DOMAIN f
    PROVE  RepliesInv'
<1>0. /\ Waiting \subseteq Cmd
      /\ \A c \in Waiting : reply[c] = << >> /\ cmd[c].kind # "none"
      /\ \A c \in Cmd : reply'[c] = IF c \in DOMAIN f THEN Append(reply[c], f[c]) ELSE reply[c]
  BY WaitingType, WaitingKinds DEF Waiting, Answer, ReplyInv, RepliesInv
<1>1. \A c \in Waiting' : reply'[c] = << >>
  BY <1>0
<1>2. \A c \in Cmd : cmd'[c].kind = "none" => reply'[c] = << >>
  BY <1>0 DEF ReplyInv, RepliesInv
<1>3. \A c \in Cmd : Len(reply'[c]) <= 1
  <2>1. \A c \in Cmd : Len(reply[c]) <= 1
    BY DEF ReplyInv, RepliesInv, AtMostOneReply
  <2> SUFFICES ASSUME NEW c \in Cmd PROVE Len(reply'[c]) <= 1
    OBVIOUS
  <2>2. CASE c \in DOMAIN f
    <3>1. reply'[c] = Append(<< >>, f[c])
      BY <1>0, <2>2
    <3> QED BY <3>1, AppendEmpty
  <2>3. CASE c \notin DOMAIN f
    BY <1>0, <2>1, <2>3
  <2> QED BY <2>2, <2>3
<1>4. ASSUME NEW c \in Cmd, cmd'[c].kind # "none", reply'[c] = << >>, ~done' PROVE c \in Waiting'
  <2>1. c \notin DOMAIN f
    BY <1>0, <1>4, AppendEmpty
  <2>2. reply[c] = << >> /\ cmd[c].kind # "none" /\ ~done
    BY <1>0, <1>4, <2>1
  <2>3. c \in Waiting
    BY <2>2 DEF ReplyInv, RepliesInv, NoLostReply, Waiting, Sent
  <2> QED BY <2>1, <2>3
<1> HIDE DEF Waiting
<1>5. NoLostReply'
  BY <1>4 DEF NoLostReply, Waiting, Sent
<1> QED BY <1>1, <1>2, <1>3, <1>5 DEF RepliesInv, AtMostOneReply

\* Taking the head of the command channel.
LEMMA TakeEffect ==
    ASSUME TypeOK, ReplyInv, NEW c \in Cmd, Take(c)
    PROVE  /\ c \in Sent /\ Sent' = Sent \ {c} /\ Distinct(commands)'
           /\ c \notin Retired /\ c \notin StopReplies /\ cmd[c].kind # "none"
           /\ UNCHANGED cmd
<1>1. commands \in Seq(Cmd) /\ commands # << >> /\ c = commands[1] /\ commands' = Tail(commands)
  BY DEF Take, TypeOK, TypeCallers
<1>2. Distinct(commands)
  BY DEF ReplyInv, PlacesInv
<1>3. c \in Sent /\ Sent' = Sent \ {c}
  <2>1. Len(commands) \in Nat /\ Len(commands) >= 1 /\ Len(commands') = Len(commands) - 1
    BY <1>1
  <2>2. \A i \in 1 .. Len(commands') : commands'[i] = commands[i + 1]
    BY <1>1
  <2>3. \A i \in 2 .. Len(commands) : commands[i] = commands'[i - 1] /\ i - 1 \in 1 .. Len(commands')
    BY <2>1, <2>2
  <2>4. \A i \in 2 .. Len(commands) : commands[i] # c
    BY <1>1, <1>2, <2>1 DEF Distinct
  <2>5. Sent' \subseteq Sent \ {c}
    <3> SUFFICES ASSUME NEW i \in 1 .. Len(commands') PROVE commands'[i] \in Sent \ {c}
      BY DEF Sent
    <3>1. i + 1 \in 2 .. Len(commands) /\ i + 1 \in 1 .. Len(commands)
      BY <2>1
    <3> QED BY <2>2, <2>4, <3>1 DEF Sent
  <2>6. Sent \ {c} \subseteq Sent'
    <3> SUFFICES ASSUME NEW i \in 1 .. Len(commands), commands[i] # c PROVE commands[i] \in Sent'
      BY DEF Sent
    <3>1. i \in 2 .. Len(commands)
      BY <1>1, <2>1
    <3> QED BY <2>3, <3>1 DEF Sent
  <2>7. c \in Sent
    BY <1>1, <2>1 DEF Sent
  <2> QED BY <2>5, <2>6, <2>7
<1>4. Distinct(commands)'
  <2>1. Distinct(Tail(commands))
    BY <1>1, <1>2 DEF Distinct
  <2> QED BY <1>1, <2>1 DEF Distinct
<1> QED BY <1>3, <1>4 DEF Take, envVars, ReplyInv, PlacesInv

\* A command that is answered at once.
LEMMA AnsweredCommand ==
    ASSUME TypeOK, TypeOK', ReplyInv, NEW c \in Cmd, Take(c), NEW r, Answer(One(c, r)),
           UNCHANGED <<queue, inFlight, intent, disableReply, restartReply, closeReply, closing>>
    PROVE  ReplyInv'
<1>1. /\ c \in Sent /\ Sent' = Sent \ {c} /\ Distinct(commands)'
      /\ c \notin Retired /\ c \notin StopReplies /\ UNCHANGED cmd
  BY TakeEffect
<1>2. Retired' = Retired /\ StopReplies' = StopReplies
  BY RetiredFrame DEF StopReplies
<1>3. Waiting' = Waiting \ {c} /\ DOMAIN One(c, r) = {c}
  BY <1>1, <1>2 DEF Waiting, One
<1>4. RepliesInv'
  <2>1. DOMAIN One(c, r) \subseteq Waiting /\ (done => done')
    BY <1>1, <1>3 DEF Waiting, Take
  <2> QED BY <1>1, <1>3, <2>1, AnswerWaiting
<1>5. StopsInv'
  BY <1>1, <1>2 DEF ReplyInv, StopsInv
<1>6. PlacesInv'
  <2>1. Distinct(queue)' /\ Queued' = Queued
    BY DEF ReplyInv, PlacesInv, Distinct, Queued
  <2> QED BY <1>1, <1>2, <2>1 DEF ReplyInv, PlacesInv
<1> QED BY <1>4, <1>5, <1>6 DEF ReplyInv

\* A step that neither moves a command nor answers one.
LEMMA ReplyStutter ==
    ASSUME ReplyInv, done => done', closing' = closing, intent' = "none" => intent = "none",
           UNCHANGED <<commands, queue, inFlight, disableReply, restartReply,
                       closeReply, cmd, reply>>
    PROVE  ReplyInv'
<1>1. Retired' = Retired /\ StopReplies' = StopReplies /\ Sent' = Sent /\ Queued' = Queued
  BY RetiredFrame DEF StopReplies, Sent, Queued
<1>2. StopsInv'
  BY <1>1 DEF ReplyInv, StopsInv
<1>3. PlacesInv'
  BY <1>1 DEF ReplyInv, PlacesInv, Distinct
<1>4. RepliesInv'
  BY <1>1 DEF ReplyInv, RepliesInv, AtMostOneReply, NoLostReply, Waiting, Sent
<1> QED BY <1>2, <1>3, <1>4 DEF ReplyInv

\* The stop a command begins: every waiting control is answered, and the
\* command waits for the end of the stop.
LEMMA StopBegun ==
    ASSUME TypeOK, TypeOK', ReplyInv, NEW c \in Cmd, Take(c), intent = "none",
           NEW s, NEW why \in {"disable", "restart", "close"}, BeginStop(s, why),
           StopReplies' = {c}, StopsInv', done' = done
    PROVE  ReplyInv'
<1>1. /\ c \in Sent /\ Sent' = Sent \ {c} /\ Distinct(commands)'
      /\ c \notin Retired /\ cmd[c].kind # "none" /\ UNCHANGED cmd
  BY TakeEffect
<1>2. StopReplies = {}
  BY DEF ReplyInv, StopsInv
<1>3. queue' = << >> /\ inFlight'.op = 0
  BY DEF BeginStop, RetireControls, NoOp
<1>4. Retired' = {} /\ Queued' = {} /\ Distinct(queue)'
  BY <1>3 DEF Retired, Queued, Distinct
<1>5. \A x \in Retired : x \notin Sent
  BY DEF ReplyInv, PlacesInv
<1>6. RepliesInv'
  <2> DEFINE f == [x \in Retired |-> "invalid_state"]
  <2>1. Answer(f) /\ DOMAIN f = Retired
    BY DEF BeginStop
  <2>2. Waiting' = Waiting \ Retired /\ Retired \subseteq Waiting
    BY <1>1, <1>2, <1>4, <1>5 DEF Waiting
  <2> HIDE DEF f
  <2> QED BY <1>1, <2>1, <2>2, AnswerWaiting
<1>7. PlacesInv'
  <2>1. \A x \in Sent' : cmd'[x].kind # "none" /\ x \notin Retired' /\ x \notin StopReplies'
    BY <1>1, <1>4 DEF ReplyInv, PlacesInv
  <2> QED BY <1>1, <1>3, <1>4, <2>1 DEF PlacesInv
<1> QED BY <1>6, <1>7 DEF ReplyInv

Members(q) == {q[i] : i \in 1 .. Len(q)}

\* dispatchNextControl answers what it skips and leaves the rest where it was.
LEMMA DispatchPlaces ==
    ASSUME TypeOK, NEW q \in Seq(Cmd), Distinct(q), NEW ctl, NEW f, Dispatch(q, ctl, f),
           DOMAIN f \cap Members(q) = {}
    PROVE  \E g : /\ Answer(g) /\ DOMAIN f \subseteq DOMAIN g
                  /\ DOMAIN g \subseteq Members(q) \cup DOMAIN f
                  /\ Retired' = Members(q) \ DOMAIN g
                  /\ Distinct(queue)' /\ (inFlight'.op # 0 => inFlight'.cmd \notin Queued')
<1>1. PICK n \in 0 .. Len(q) : Dispatch(q, ctl, f)!(n)
  BY DEF Dispatch
<1> DEFINE skipped == {q[i] : i \in 1 .. n}
           g == [x \in skipped \cup DOMAIN f |->
                   IF x \in DOMAIN f THEN f[x] ELSE DispatchVerdict(x, ctl)]
           rest == {q[i] : i \in n + 1 .. Len(q)}
<1>2. Answer(g) /\ DOMAIN g = skipped \cup DOMAIN f
  BY <1>1
<1>3. skipped \subseteq Members(q) /\ rest = Members(q) \ skipped
  BY DEF Members, Distinct
<1>4. Retired' = rest /\ Distinct(queue)' /\ (inFlight'.op # 0 => inFlight'.cmd \notin Queued')
  <2>1. CASE n = Len(q)
    <3>1. queue' = << >> /\ inFlight'.op = 0
      BY <1>1, <2>1 DEF NoOp
    <3>2. Retired' = {} /\ rest = {}
      BY <2>1, <3>1 DEF Retired, Queued
    <3>3. Distinct(queue)'
      BY <3>1 DEF Distinct
    <3> HIDE DEF rest
    <3> QED BY <3>1, <3>2, <3>3
  <2>2. CASE n < Len(q)
    <3> DEFINE k == Len(q) - (n + 1)
    <3>1. /\ queue' = SubSeq(q, n + 2, Len(q))
          /\ inFlight'.op = controlID + 1 /\ inFlight'.cmd = q[n + 1]
      BY <1>1, <2>2
    <3>2. inFlight'.op # 0
      BY <3>1, FlightTypes
    <3>3. /\ k \in Nat /\ Len(queue') = k
          /\ \A i \in 1 .. k : queue'[i] = q[n + 1 + i] /\ n + 1 + i \in n + 2 .. Len(q)
      BY <2>2, <3>1
    <3>4. Queued' = {q[i] : i \in n + 2 .. Len(q)}
      <4>1. Queued' \subseteq {q[i] : i \in n + 2 .. Len(q)}
        BY <3>3 DEF Queued
      <4>2. \A i \in n + 2 .. Len(q) : i - (n + 1) \in 1 .. k /\ queue'[i - (n + 1)] = q[i]
        <5> SUFFICES ASSUME NEW i \in n + 2 .. Len(q)
                     PROVE  i - (n + 1) \in 1 .. k /\ queue'[i - (n + 1)] = q[i]
          OBVIOUS
        <5>1. n \in Int /\ Len(q) \in Int
          OBVIOUS
        <5>2. i - (n + 1) \in 1 .. k /\ n + 1 + (i - (n + 1)) = i
          BY <5>1
        <5> QED BY <3>3, <5>2
      <4> QED BY <3>3, <4>1, <4>2 DEF Queued
    <3>5. Retired' = Queued' \cup {q[n + 1]}
      BY <3>1, <3>2 DEF Retired
    <3>6. Retired' = rest
      BY <2>2, <3>4, <3>5
    <3>7. q[n + 1] \notin Queued'
      BY <2>2, <3>4 DEF Distinct
    <3>8. Distinct(queue)'
      <4> SUFFICES ASSUME NEW i \in 1 .. k, NEW j \in 1 .. k, queue'[i] = queue'[j] PROVE i = j
        BY <3>3 DEF Distinct
      <4>1. n + 1 + i \in 1 .. Len(q) /\ n + 1 + j \in 1 .. Len(q) /\ q[n + 1 + i] = q[n + 1 + j]
        BY <3>3
      <4>2. n + 1 + i = n + 1 + j
        BY <4>1 DEF Distinct
      <4> QED BY <4>2
    <3> QED BY <3>1, <3>6, <3>7, <3>8
  <2> QED BY <2>1, <2>2
<1> HIDE DEF g, skipped, rest
<1> QED BY <1>2, <1>3, <1>4

\* The controls that wait after dispatching queue q for a plugin whose waiting
\* controls were q and, answered by f, those f names.
LEMMA DispatchReplies ==
    ASSUME TypeOK, TypeOK', ReplyInv, UNCHANGED <<cmd, done, closing, intent>>,
           UNCHANGED <<disableReply, restartReply, closeReply>>,
           NEW q \in Seq(Cmd), Distinct(q), NEW ctl, NEW f, Dispatch(q, ctl, f),
           DOMAIN f \cap Members(q) = {}, Distinct(commands)',
           Sent' \subseteq Sent,
           Sent' \cap Members(q) = {}, Sent' \cap DOMAIN f = {},
           Waiting = Sent' \cup Members(q) \cup DOMAIN f \cup StopReplies,
           \A x \in Members(q) \cup DOMAIN f : cmd[x].kind \in ControlKinds
    PROVE  ReplyInv'
<1>1. PICK g : /\ Answer(g) /\ DOMAIN f \subseteq DOMAIN g
               /\ DOMAIN g \subseteq Members(q) \cup DOMAIN f
               /\ Retired' = Members(q) \ DOMAIN g
               /\ Distinct(queue)' /\ (inFlight'.op # 0 => inFlight'.cmd \notin Queued')
  BY DispatchPlaces
<1>3. StopReplies' = StopReplies
  BY DEF StopReplies
<1>4. \A x \in StopReplies : x \notin Members(q) \cup DOMAIN f
  BY WaitingKinds DEF ControlKinds, LifecycleKinds
<1>5. Waiting' = Waiting \ DOMAIN g
  BY <1>1, <1>3, <1>4 DEF Waiting
<1>6. RepliesInv'
  <2>1. DOMAIN g \subseteq Waiting
    BY <1>1
  <2> QED BY <1>1, <1>5, <2>1, AnswerWaiting
<1>7. StopsInv'
  BY <1>3 DEF ReplyInv, StopsInv
<1>8. PlacesInv'
  <2>1. \A x \in Retired' : cmd'[x].kind \in ControlKinds
    BY <1>1
  <2>2. \A x \in Sent' : cmd'[x].kind # "none" /\ x \notin Retired' /\ x \notin StopReplies'
    BY <1>1, <1>3 DEF ReplyInv, PlacesInv
  <2> QED BY <1>1, <2>1, <2>2 DEF PlacesInv
<1> QED BY <1>6, <1>7, <1>8 DEF ReplyInv

LEMMA DisableReplies ==
    ASSUME TypeOK, TypeOK', ReplyInv, NEW c \in Cmd, DisableCommand(c) PROVE ReplyInv'
<1>1. /\ Take(c) /\ intent = "none" /\ cmd[c].kind = "disable" /\ UNCHANGED cmd
      /\ UNCHANGED <<restartReply, closeReply, closing, done>>
  BY DEF DisableCommand, Admissible, Take, envVars
<1>2. CASE session
  <2> DEFINE off == TimerOff([snap EXCEPT !.enabled = FALSE])
  <2>1. BeginStop(off, "disable") /\ disableReply' = c
    BY <1>2 DEF DisableCommand
  <2>2. StopReplies = {} /\ c # NoCmd
    BY <1>1, SupervisorAssumption DEF ReplyInv, StopsInv
  <2>3. StopReplies' = {c} /\ restartReply' = NoCmd /\ closeReply' = NoCmd
    BY <1>1, <2>1, <2>2 DEF StopReplies
  <2>4. StopsInv'
    BY <1>1, <2>1, <2>3 DEF StopsInv, BeginStop
  <2> QED BY <1>1, <2>1, <2>3, <2>4, StopBegun
<1>3. CASE ~session
  <2>1. /\ Answer(One(c, "ok"))
        /\ UNCHANGED <<queue, inFlight, intent, disableReply>>
    BY <1>3 DEF DisableCommand, queueVars
  <2> QED BY <1>1, <2>1, AnsweredCommand
<1> QED BY <1>2, <1>3

LEMMA RestartReplies ==
    ASSUME TypeOK, TypeOK', ReplyInv, NEW c \in Cmd, RestartCommand(c) PROVE ReplyInv'
<1>1. /\ Take(c) /\ intent = "none" /\ cmd[c].kind = "restart" /\ UNCHANGED cmd
      /\ UNCHANGED <<disableReply, closeReply, closing, done>>
  BY DEF RestartCommand, Admissible, Take, envVars
<1> DEFINE s == TimerOff([snap EXCEPT !.failures = 0, !.error = ""])
<1>2. CASE BeginStop(s, "restart") /\ restartReply' = c
  <2>2. StopReplies = {} /\ c # NoCmd
    BY <1>1, SupervisorAssumption DEF ReplyInv, StopsInv
  <2>3. StopReplies' = {c} /\ disableReply' = NoCmd /\ closeReply' = NoCmd
    BY <1>1, <1>2, <2>2 DEF StopReplies
  <2>4. StopsInv'
    BY <1>1, <1>2, <2>3 DEF StopsInv, BeginStop
  <2> QED BY <1>1, <1>2, <2>3, <2>4, StopBegun
<1>3. CASE Answer(One(c, "ok")) /\ UNCHANGED <<queue, inFlight, intent, restartReply>>
  BY <1>1, <1>3, AnsweredCommand
<1> QED BY <1>2, <1>3 DEF RestartCommand, queueVars

\* A Close takes the stop in progress over, shuts an idle supervisor at once, or
\* begins a stop of its own.
LEMMA CloseReplies ==
    ASSUME TypeOK, TypeOK', ReplyInv, NEW c \in Cmd, CloseCommand(c) PROVE ReplyInv'
<1> DEFINE off == TimerOff([snap EXCEPT !.enabled = FALSE])
           f1 == [x \in Retired \cup ({restartReply} \ {NoCmd}) |-> "invalid_state"]
           f2 == [x \in Retired \cup {c} |-> IF x = c THEN "ok" ELSE "invalid_state"]
<1>1. /\ Take(c) /\ closing = FALSE /\ closing' = TRUE /\ cmd[c].kind = "close"
      /\ UNCHANGED <<cmd, disableReply>>
  BY DEF CloseCommand, Admissible, Take, envVars, TypeOK, TypeLoop
<1>2. /\ c \in Sent /\ Sent' = Sent \ {c} /\ Distinct(commands)'
      /\ c \notin Retired /\ c \notin StopReplies /\ c # NoCmd
  BY <1>1, TakeEffect, SupervisorAssumption
<1>3. /\ closeReply = NoCmd
      /\ disableReply # NoCmd => cmd[disableReply].kind = "disable"
      /\ restartReply # NoCmd => cmd[restartReply].kind = "restart"
      /\ intent = "none" => StopReplies = {}
      /\ \A x \in Sent : x \notin Retired /\ x \notin StopReplies /\ cmd[x].kind # "none"
      /\ \A x \in StopReplies : x \notin Retired
  BY <1>1, WaitingKinds DEF ReplyInv, StopsInv, PlacesInv
<1>4. CASE /\ intent # "none" /\ intent' = "close" /\ closeReply' = c /\ restartReply' = NoCmd
           /\ Answer(f1) /\ RetireControls /\ done' = done
  <2>1. queue' = << >> /\ inFlight'.op = 0
    BY <1>4 DEF RetireControls, NoOp
  <2>2. Retired' = {} /\ Queued' = {} /\ Distinct(queue)'
    BY <2>1 DEF Retired, Queued, Distinct
  <2>3. StopsInv'
    BY <1>1, <1>3, <1>4 DEF StopsInv
  <2>4. /\ StopReplies = {disableReply, restartReply} \ {NoCmd}
        /\ StopReplies' = {c} \cup ({disableReply} \ {NoCmd})
        /\ disableReply # NoCmd => disableReply # restartReply
    BY <1>1, <1>2, <1>3, <1>4 DEF StopReplies
  <2>5. DOMAIN f1 = Retired \cup ({restartReply} \ {NoCmd})
    OBVIOUS
  <2>6. DOMAIN f1 \subseteq Waiting /\ Waiting' = Waiting \ DOMAIN f1
    BY <1>2, <1>3, <2>2, <2>4, <2>5 DEF Waiting
  <2>7. RepliesInv'
    <3> HIDE DEF f1
    <3> QED BY <1>1, <1>4, <2>6, AnswerWaiting
  <2>8. PlacesInv'
    <3>1. \A x \in Sent' : cmd'[x].kind # "none" /\ x \notin Retired' /\ x \notin StopReplies'
      BY <1>1, <1>2, <1>3, <2>2, <2>4
    <3> QED BY <1>2, <2>1, <2>2, <3>1 DEF PlacesInv
  <2> QED BY <2>3, <2>7, <2>8 DEF ReplyInv
<1>5. CASE /\ intent = "none" /\ Answer(f2) /\ RetireControls /\ done' = TRUE
           /\ UNCHANGED <<intent, restartReply, closeReply>>
  <2>1. queue' = << >> /\ inFlight'.op = 0
    BY <1>5 DEF RetireControls, NoOp
  <2>2. Retired' = {} /\ Queued' = {} /\ Distinct(queue)'
    BY <2>1 DEF Retired, Queued, Distinct
  <2>3. StopReplies' = StopReplies /\ StopReplies = {}
    BY <1>1, <1>3, <1>5 DEF StopReplies
  <2>4. StopsInv'
    BY <1>1, <1>3, <1>5, <2>3 DEF StopsInv
  <2>5. DOMAIN f2 = Retired \cup {c}
    OBVIOUS
  <2>6. DOMAIN f2 \subseteq Waiting /\ Waiting' = Waiting \ DOMAIN f2
    BY <1>2, <1>3, <2>2, <2>3, <2>5 DEF Waiting
  <2>7. RepliesInv'
    <3> HIDE DEF f2
    <3> QED BY <1>1, <1>5, <2>6, AnswerWaiting
  <2>8. PlacesInv'
    <3>1. \A x \in Sent' : cmd'[x].kind # "none" /\ x \notin Retired' /\ x \notin StopReplies'
      BY <1>1, <1>2, <1>3, <2>2, <2>3
    <3> QED BY <1>2, <2>1, <2>2, <3>1 DEF PlacesInv
  <2> QED BY <2>4, <2>7, <2>8 DEF ReplyInv
<1>6. CASE /\ intent = "none" /\ BeginStop(off, "close") /\ closeReply' = c
           /\ UNCHANGED <<done, restartReply>>
  <2>1. StopReplies' = {c} /\ disableReply' = NoCmd /\ restartReply' = NoCmd
    BY <1>1, <1>2, <1>3, <1>6 DEF StopReplies
  <2>2. StopsInv'
    BY <1>1, <1>6, <2>1 DEF StopsInv, BeginStop
  <2> QED BY <1>1, <1>6, <2>1, <2>2, StopBegun
<1>7. \/ /\ intent # "none" /\ intent' = "close" /\ closeReply' = c /\ restartReply' = NoCmd
         /\ Answer(f1) /\ RetireControls /\ done' = done
      \/ /\ intent = "none" /\ Answer(f2) /\ RetireControls /\ done' = TRUE
         /\ UNCHANGED <<intent, restartReply, closeReply>>
      \/ /\ intent = "none" /\ BeginStop(off, "close") /\ closeReply' = c
         /\ UNCHANGED <<done, restartReply>>
  BY DEF CloseCommand
<1> QED BY <1>4, <1>5, <1>6, <1>7

LEMMA MembersAppend ==
    ASSUME NEW q \in Seq(Cmd), NEW c \in Cmd
    PROVE  /\ Members(Append(q, c)) = Members(q) \cup {c} /\ Append(q, c) \in Seq(Cmd)
           /\ Distinct(q) /\ c \notin Members(q) => Distinct(Append(q, c))
<1> DEFINE s == Append(q, c)
           n == Len(q)
<1>1. /\ s \in Seq(Cmd) /\ Len(s) = n + 1 /\ s[n + 1] = c /\ n \in Nat
      /\ \A i \in 1 .. n : s[i] = q[i] /\ i \in 1 .. Len(s)
      /\ n + 1 \in 1 .. Len(s)
  OBVIOUS
<1>2. \A i \in 1 .. Len(s) : i \in 1 .. n \/ i = n + 1
  BY <1>1
<1> HIDE DEF s
<1>3. Members(s) = Members(q) \cup {c}
  BY <1>1, <1>2 DEF Members
<1>4. ASSUME Distinct(q), c \notin Members(q) PROVE Distinct(s)
  <2> SUFFICES ASSUME NEW i \in 1 .. Len(s), NEW j \in 1 .. Len(s), s[i] = s[j] PROVE i = j
    BY DEF Distinct
  <2>1. CASE i \in 1 .. n /\ j \in 1 .. n
    BY <1>1, <1>4, <2>1 DEF Distinct
  <2>2. CASE i = n + 1 /\ j = n + 1
    BY <2>2
  <2>3. CASE (i \in 1 .. n /\ j = n + 1) \/ (i = n + 1 /\ j \in 1 .. n)
    BY <1>1, <1>4, <2>3 DEF Members
  <2> QED BY <1>2, <2>1, <2>2, <2>3
<1> QED BY <1>1, <1>3, <1>4 DEF s

LEMMA MembersQueue == Members(queue) = Queued
  BY DEF Members, Queued

\* A control that is queued, and dispatched when no other one is in flight.
LEMMA EnqueueReplies ==
    ASSUME TypeOK, TypeOK', ReplyInv, NEW c \in Cmd, Take(c), cmd[c].kind \in ControlKinds,
           UNCHANGED <<done, closing, intent, disableReply, restartReply, closeReply>>,
           NEW ctl,
           IF inFlight.op # 0
           THEN queue' = Append(queue, c) /\ UNCHANGED <<controlID, inFlight, ops, reply>>
           ELSE Dispatch(Append(queue, c), ctl, << >>)
    PROVE  ReplyInv'
<1> DEFINE q == Append(queue, c)
<1>1. /\ c \in Sent /\ Sent' = Sent \ {c} /\ Distinct(commands)'
      /\ c \notin Retired /\ c \notin StopReplies /\ UNCHANGED cmd
  BY TakeEffect
<1>2. queue \in Seq(Cmd) /\ Distinct(queue) /\ Queued \subseteq Retired
  BY FlightTypes DEF ReplyInv, PlacesInv, Retired
<1>3. q \in Seq(Cmd) /\ Members(q) = Queued \cup {c} /\ Distinct(q)
  BY <1>1, <1>2, MembersAppend, MembersQueue
<1>4. /\ \A x \in Retired : cmd[x].kind \in ControlKinds /\ x \notin Sent
      /\ \A x \in Sent : cmd[x].kind # "none" /\ x \notin StopReplies
  BY DEF ReplyInv, PlacesInv
<1>5. CASE inFlight.op # 0
  <2>1. queue' = q /\ UNCHANGED <<inFlight, reply>>
    BY <1>5
  <2>2. Queued' = Queued \cup {c} /\ Retired' = Retired \cup {c}
    BY <1>3, <2>1 DEF Queued, Retired, Members
  <2>3. StopReplies' = StopReplies
    BY DEF StopReplies
  <2> DEFINE none == [x \in {} |-> "ok"]
  <2>4. Answer(none) /\ DOMAIN none = {}
    BY <2>1 DEF Answer, TypeOK, TypeCallers
  <2>5. Waiting' = Waiting \ DOMAIN none
    BY <1>1, <2>2, <2>3, <2>4 DEF Waiting
  <2>6. RepliesInv'
    <3> HIDE DEF none
    <3> QED BY <1>1, <2>4, <2>5, AnswerWaiting
  <2>7. StopsInv'
    BY <1>1, <2>3 DEF ReplyInv, StopsInv
  <2>8. PlacesInv'
    <3>1. Distinct(queue)'
      BY <1>3, <2>1 DEF Distinct
    <3>2. inFlight'.op # 0 => inFlight'.cmd \notin Queued'
      BY <1>1, <1>5, <2>1, <2>2 DEF ReplyInv, PlacesInv, Retired
    <3>3. \A x \in Retired' : cmd'[x].kind \in ControlKinds
      BY <1>1, <1>4, <2>2
    <3>4. \A x \in Sent' : cmd'[x].kind # "none" /\ x \notin Retired' /\ x \notin StopReplies'
      BY <1>1, <1>4, <2>2, <2>3
    <3> QED BY <1>1, <3>1, <3>2, <3>3, <3>4 DEF PlacesInv
  <2> QED BY <2>6, <2>7, <2>8 DEF ReplyInv
<1>6. CASE ~(inFlight.op # 0)
  <2>1. Dispatch(q, ctl, << >>)
    BY <1>6
  <2>2. Retired = Queued /\ DOMAIN << >> = {}
    BY <1>6 DEF Retired
  <2>3. /\ Sent' \cap Members(q) = {} /\ Sent' \subseteq Sent
        /\ Waiting = Sent' \cup Members(q) \cup StopReplies
        /\ \A x \in Members(q) : cmd[x].kind \in ControlKinds
    BY <1>1, <1>3, <1>4, <2>2 DEF Waiting
  <2> HIDE DEF q
  <2> QED BY <1>1, <1>3, <2>1, <2>2, <2>3, DispatchReplies
<1> QED BY <1>5, <1>6

LEMMA ConfigReplies ==
    ASSUME TypeOK, TypeOK', ReplyInv, NEW c \in Cmd, ConfigCommand(c) PROVE ReplyInv'
<1>1. /\ Take(c) /\ cmd[c].kind \in ControlKinds
      /\ UNCHANGED <<done, closing, intent, disableReply, restartReply, closeReply>>
  BY DEF ConfigCommand, ControlKinds
<1>2. \/ (\E r \in Replies : Answer(One(c, r))) /\ UNCHANGED <<queue, inFlight>>
      \/ IF inFlight.op # 0
         THEN queue' = Append(queue, c) /\ UNCHANGED <<controlID, inFlight, ops, reply>>
         ELSE Dispatch(Append(queue, c), control', << >>)
  BY DEF ConfigCommand, queueVars, Replies
<1>3. ASSUME NEW r \in Replies, Answer(One(c, r)), UNCHANGED <<queue, inFlight>>
      PROVE  ReplyInv'
  BY <1>1, <1>3, AnsweredCommand
<1>4. PICK ctl : ctl = control'
  OBVIOUS
<1>5. CASE IF inFlight.op # 0
           THEN queue' = Append(queue, c) /\ UNCHANGED <<controlID, inFlight, ops, reply>>
           ELSE Dispatch(Append(queue, c), control', << >>)
  <2>1. IF inFlight.op # 0
        THEN queue' = Append(queue, c) /\ UNCHANGED <<controlID, inFlight, ops, reply>>
        ELSE Dispatch(Append(queue, c), ctl, << >>)
    BY <1>4, <1>5
  <2> QED BY <1>1, <2>1, EnqueueReplies
<1> QED BY <1>2, <1>3, <1>5

LEMMA ControlReplies ==
    ASSUME TypeOK, TypeOK', ReplyInv, NEW c \in Cmd, ControlCommand(c) PROVE ReplyInv'
<1>1. /\ Take(c) /\ cmd[c].kind \in ControlKinds
      /\ UNCHANGED <<done, closing, intent, disableReply, restartReply, closeReply>>
  BY DEF ControlCommand, ControlKinds
<1>2. \/ (\E r \in Replies : Answer(One(c, r))) /\ UNCHANGED <<queue, inFlight>>
      \/ IF inFlight.op # 0
         THEN queue' = Append(queue, c) /\ UNCHANGED <<controlID, inFlight, ops, reply>>
         ELSE Dispatch(Append(queue, c), control, << >>)
  BY DEF ControlCommand, queueVars, Replies
<1>3. ASSUME NEW r \in Replies, Answer(One(c, r)), UNCHANGED <<queue, inFlight>>
      PROVE  ReplyInv'
  BY <1>1, <1>3, AnsweredCommand
<1> QED BY <1>1, <1>2, <1>3, EnqueueReplies

LEMMA CommandReplies ==
    ASSUME TypeOK, TypeOK', ReplyInv, NEW c \in Cmd, HandleCommand(c) PROVE ReplyInv'
<1>1. CASE RejectCommand(c)
  <2>1. \E r \in Replies : Answer(One(c, r))
    BY <1>1 DEF RejectCommand, Replies
  <2> QED BY <1>1, <2>1, AnsweredCommand DEF RejectCommand, loopVars
<1>2. CASE EnableCommand(c)
  <2>1. /\ Take(c) /\ Answer(One(c, "ok"))
        /\ UNCHANGED <<queue, inFlight, intent, disableReply, restartReply, closeReply, closing>>
    BY <1>2 DEF EnableCommand, queueVars
  <2> QED BY <2>1, AnsweredCommand
<1> QED BY <1>1, <1>2, DisableReplies, RestartReplies, CloseReplies, ConfigReplies,
           ControlReplies DEF HandleCommand

LEMMA ControlResultReplies ==
    ASSUME TypeOK, TypeOK', ReplyInv, NEW r \in ctlResults, HandleControlResult(r) PROVE ReplyInv'
<1>1. UNCHANGED <<done, closing, intent, disableReply, restartReply, closeReply, commands, cmd>>
  BY DEF HandleControlResult
<1>2. CASE inFlight.op = 0 \/ r.op # inFlight.op \/ r.instance # inFlight.instance
  <2>1. UNCHANGED <<queue, inFlight, reply>>
    BY <1>2 DEF HandleControlResult, queueVars
  <2> QED BY <1>1, <2>1, ReplyStutter
<1>3. CASE ~(inFlight.op = 0 \/ r.op # inFlight.op \/ r.instance # inFlight.instance)
  <2> DEFINE f == One(inFlight.cmd, IF r.ok THEN "ok" ELSE "failed")
  <2>1. inFlight.op # 0 /\ Dispatch(queue, control', f) /\ DOMAIN f = {inFlight.cmd}
    BY <1>3 DEF HandleControlResult, One
  <2>2. PICK ctl : ctl = control'
    OBVIOUS
  <2>3. /\ queue \in Seq(Cmd) /\ Distinct(queue) /\ inFlight.cmd \notin Queued
        /\ \A x \in Retired : cmd[x].kind \in ControlKinds /\ x \notin Sent
    BY <2>1, FlightTypes DEF ReplyInv, PlacesInv
  <2>4. Retired = Members(queue) \cup {inFlight.cmd} /\ inFlight.cmd \notin Members(queue)
    BY <2>1, <2>3, MembersQueue DEF Retired
  <2>5. Sent' = Sent /\ Distinct(commands)'
    BY <1>1 DEF ReplyInv, PlacesInv, Distinct, Sent
  <2>6. /\ DOMAIN f \cap Members(queue) = {} /\ Sent' \subseteq Sent
        /\ Sent' \cap Members(queue) = {} /\ Sent' \cap DOMAIN f = {}
        /\ Waiting = Sent' \cup Members(queue) \cup DOMAIN f \cup StopReplies
        /\ \A x \in Members(queue) \cup DOMAIN f : cmd[x].kind \in ControlKinds
    BY <2>1, <2>3, <2>4, <2>5 DEF Waiting
  <2> HIDE DEF f
  <2>7. Dispatch(queue, ctl, f)
    BY <2>1, <2>2
  <2> QED BY <1>1, <2>3, <2>5, <2>6, <2>7, DispatchReplies
<1> QED BY <1>2, <1>3

LEMMA StopResultReplies ==
    ASSUME TypeOK, TypeOK', ReplyInv, NEW id \in stopCalls, HandleStopResult(id) PROVE ReplyInv'
<1>1. UNCHANGED <<closing, queue, inFlight, commands, cmd>> /\ ~done
  BY DEF HandleStopResult, queueVars
<1>2. CASE id # instance \/ intent = "none"
  <2>1. UNCHANGED <<intent, disableReply, restartReply, closeReply, done, reply>>
    BY <1>2 DEF HandleStopResult
  <2> QED BY <1>1, <2>1, ReplyStutter
<1>3. CASE ~(id # instance \/ intent = "none")
  <2> DEFINE f == [c \in StopReplies |-> Outcome(id)]
  <2>1. /\ Answer(f) /\ intent' = "none"
        /\ disableReply' = NoCmd /\ restartReply' = NoCmd /\ closeReply' = NoCmd
    BY <1>3 DEF HandleStopResult
  <2>2. StopReplies' = {} /\ DOMAIN f = StopReplies
    BY <2>1 DEF StopReplies
  <2>3. Retired' = Retired /\ Sent' = Sent /\ Queued' = Queued
    BY <1>1, RetiredFrame DEF Sent, Queued
  <2>4. \A x \in StopReplies : x \notin Retired /\ x \notin Sent
    BY WaitingKinds DEF ReplyInv, PlacesInv
  <2>5. DOMAIN f \subseteq Waiting /\ Waiting' = Waiting \ DOMAIN f
    BY <2>2, <2>3, <2>4 DEF Waiting
  <2>6. RepliesInv'
    <3> HIDE DEF f
    <3> QED BY <1>1, <2>1, <2>5, AnswerWaiting
  <2>7. StopsInv'
    BY <1>1, <2>1, <2>2 DEF StopsInv
  <2>8. PlacesInv'
    BY <1>1, <2>2, <2>3 DEF ReplyInv, PlacesInv, Distinct
  <2> QED BY <2>6, <2>7, <2>8 DEF ReplyInv
<1> QED BY <1>2, <1>3

LEMMA SessionResultReplies ==
    ASSUME TypeOK, TypeOK', ReplyInv, NEW id \in watching, HandleSessionResult(id) PROVE ReplyInv'
<1>1. UNCHANGED <<closing, commands, cmd, done, intent, disableReply, restartReply, closeReply>>
  BY DEF HandleSessionResult
<1>2. CASE id # instance \/ ~session \/ intent # "none"
  <2>1. UNCHANGED <<queue, inFlight, reply>>
    BY <1>2 DEF HandleSessionResult
  <2> QED BY <1>1, <2>1, ReplyStutter
<1>3. CASE ~(id # instance \/ ~session \/ intent # "none")
  <2> DEFINE f == [c \in Retired |-> "invalid_state"]
  <2>1. Answer(f) /\ queue' = << >> /\ inFlight'.op = 0 /\ DOMAIN f = Retired
    BY <1>3 DEF HandleSessionResult, RetireControls, NoOp
  <2>2. Retired' = {} /\ Queued' = {} /\ Distinct(queue)'
    BY <2>1 DEF Retired, Queued, Distinct
  <2>3. StopReplies' = StopReplies /\ Sent' = Sent /\ Distinct(commands)'
    BY <1>1 DEF StopReplies, Sent, ReplyInv, PlacesInv, Distinct
  <2>4. \A x \in Retired : x \notin StopReplies /\ x \notin Sent
    BY WaitingKinds DEF ReplyInv, PlacesInv
  <2>5. DOMAIN f \subseteq Waiting /\ Waiting' = Waiting \ DOMAIN f
    BY <2>1, <2>2, <2>3, <2>4 DEF Waiting
  <2>6. RepliesInv'
    <3> HIDE DEF f
    <3> QED BY <1>1, <2>1, <2>5, AnswerWaiting
  <2>7. StopsInv'
    BY <1>1, <2>3 DEF ReplyInv, StopsInv
  <2>8. PlacesInv'
    <3>1. \A x \in Sent' : cmd'[x].kind # "none" /\ x \notin Retired' /\ x \notin StopReplies'
      BY <1>1, <2>2, <2>3 DEF ReplyInv, PlacesInv
    <3> QED BY <2>1, <2>2, <2>3, <3>1 DEF PlacesInv
  <2> QED BY <2>6, <2>7, <2>8 DEF ReplyInv
<1> QED BY <1>2, <1>3

LEMMA CallbackReplies ==
    ASSUME ReplyInv, HandleCritical \/ HandleTelemetry \/ RestartTimerFires \/ StableTimerFires
    PROVE  ReplyInv'
  BY ReplyStutter
  DEF HandleCritical, HandleTelemetry, RestartTimerFires, StableTimerFires, queueVars, envVars

\* A new command enters the channel and is nowhere else.
LEMMA SendReplies ==
    ASSUME TypeOK, TypeOK', ReplyInv, NEW c \in Cmd, NEW k \in Command, SendCommand(c, k)
    PROVE  ReplyInv'
<1>1. /\ UNCHANGED <<queue, inFlight, disableReply, restartReply, closeReply, intent, closing,
                     done, reply>>
      /\ commands' = Append(commands, c) /\ cmd' = [cmd EXCEPT ![c] = k] /\ cmd[c].kind = "none"
  BY DEF SendCommand, restOfLoop, loopVars
<1>2. /\ Sent \subseteq Cmd /\ Retired \subseteq Cmd /\ StopReplies \subseteq Cmd
      /\ commands \in Seq(Cmd) /\ Distinct(commands) /\ Distinct(queue)
  BY WaitingType DEF TypeOK, TypeCallers, ReplyInv, PlacesInv
<1>3. c \notin Sent /\ c \notin Retired /\ c \notin StopReplies
  BY <1>1, WaitingKinds DEF Waiting
<1>4. /\ \A x \in Cmd : x # c => cmd'[x] = cmd[x]
      /\ cmd'[c] = k /\ k.kind # "none"
  BY <1>1 DEF TypeOK, TypeCallers, Command, LifecycleKinds
<1>5. Sent' = Sent \cup {c} /\ Distinct(commands)'
  <2>1. Members(commands) = Sent
    BY DEF Members, Sent
  <2>2. Members(Append(commands, c)) = Sent \cup {c} /\ Distinct(Append(commands, c))
    BY <1>2, <1>3, <2>1, MembersAppend
  <2> QED BY <1>1, <2>2 DEF Sent, Members, Distinct
<1>6. Retired' = Retired /\ StopReplies' = StopReplies /\ Queued' = Queued
  BY <1>1, RetiredFrame DEF StopReplies, Queued
<1>7. StopsInv'
  <2>1. \A x \in StopReplies : cmd'[x] = cmd[x]
    BY <1>2, <1>3, <1>4
  <2> QED BY <1>1, <1>6, <2>1 DEF ReplyInv, StopsInv, StopReplies
<1>8. PlacesInv'
  <2>1. \A x \in Retired : cmd'[x].kind \in ControlKinds
    BY <1>2, <1>3, <1>4 DEF ReplyInv, PlacesInv
  <2>2. \A x \in Sent \cup {c} : cmd'[x].kind # "none" /\ x \notin Retired /\ x \notin StopReplies
    BY <1>2, <1>3, <1>4 DEF ReplyInv, PlacesInv
  <2>3. Distinct(queue)' /\ (inFlight'.op # 0 => inFlight'.cmd \notin Queued')
    BY <1>1, <1>6 DEF ReplyInv, PlacesInv, Distinct
  <2> QED BY <1>5, <1>6, <2>1, <2>2, <2>3 DEF PlacesInv
<1>9. RepliesInv'
  <2>1. Waiting' = Waiting \cup {c}
    BY <1>5, <1>6 DEF Waiting
  <2>2. \A x \in Waiting' : reply'[x] = << >>
    BY <1>1, <2>1 DEF ReplyInv, RepliesInv
  <2>3. \A x \in Cmd : cmd'[x].kind = "none" => reply'[x] = << >>
    BY <1>1, <1>4 DEF ReplyInv, RepliesInv
  <2>4. AtMostOneReply'
    BY <1>1 DEF ReplyInv, RepliesInv, AtMostOneReply
  <2>5. ASSUME NEW x \in Cmd, cmd'[x].kind # "none", reply'[x] = << >>, ~done' PROVE x \in Waiting'
    <3>1. CASE x = c
      BY <2>1, <3>1
    <3>2. CASE x # c
      BY <1>1, <1>4, <2>1, <2>5, <3>2 DEF ReplyInv, RepliesInv, NoLostReply, Waiting, Sent
    <3> QED BY <3>1, <3>2
  <2>6. NoLostReply'
    BY <2>5 DEF NoLostReply, Waiting, Sent
  <2> QED BY <2>2, <2>3, <2>4, <2>6 DEF RepliesInv
<1> QED BY <1>7, <1>8, <1>9 DEF ReplyInv

LEMMA OutsideReplies ==
    ASSUME TypeOK, TypeOK', ReplyInv, Outside PROVE ReplyInv'
<1>0. UNCHANGED restOfLoop
  BY OutsideQuiet
<1>1. ASSUME NEW id \in Sessions, SessionStep(id) PROVE UNCHANGED <<commands, cmd, reply>>
  BY <1>1 DEF SessionStep, ProcessStarted, Ready, Unresponsive, SessionFails, SessionEnds,
              Telemetry, sessionOnly
<1>2. ASSUME NEW o \in ops, ControlSucceeds(o) \/ ControlFails(o) PROVE UNCHANGED <<commands, cmd, reply>>
  BY <1>2 DEF ControlSucceeds, ControlFails, ControlReturns, sessionOnly
<1>3. ASSUME NEW c \in Cmd, CancelCommand(c) PROVE UNCHANGED <<commands, cmd, reply>>
  BY <1>3 DEF CancelCommand
<1>4. ASSUME UNCHANGED vars PROVE UNCHANGED <<commands, cmd, reply>>
  BY <1>4 DEF vars
<1>5. CASE UNCHANGED <<commands, cmd, reply>>
  BY <1>0, <1>5, ReplyStutter DEF restOfLoop, loopVars
<1> QED BY <1>1, <1>2, <1>3, <1>4, <1>5, SendReplies DEF Outside

LEMMA ReplyNext == TypeOK /\ ReplyInv /\ [Next]_vars => ReplyInv'
<1> SUFFICES ASSUME TypeOK, ReplyInv, [Next]_vars PROVE ReplyInv'
  OBVIOUS
<1>1. TypeOK'
  BY TypeNext
<1> QED BY <1>1, CommandReplies, ControlResultReplies, StopResultReplies, SessionResultReplies,
           CallbackReplies, OutsideReplies, NextCases DEF LoopStep

LEMMA ReplyInit == Init => ReplyInv
<1> SUFFICES ASSUME Init PROVE ReplyInv
  OBVIOUS
<1>1. /\ disableReply = NoCmd /\ restartReply = NoCmd /\ closeReply = NoCmd
      /\ queue = << >> /\ inFlight = NoOp /\ commands = << >>
      /\ \A c \in Cmd : cmd[c] = NoCommand /\ reply[c] = << >>
  BY DEF Init
<1>2. Retired = {} /\ Sent = {} /\ StopReplies = {} /\ inFlight.op = 0
  BY <1>1 DEF Retired, Queued, Sent, StopReplies, NoOp
<1>3. StopsInv
  BY <1>1, <1>2 DEF StopsInv
<1>4. PlacesInv
  BY <1>1, <1>2 DEF PlacesInv, Distinct
<1>5. RepliesInv
  BY <1>1, <1>2 DEF RepliesInv, Waiting, AtMostOneReply, NoLostReply, NoCommand
<1> QED BY <1>3, <1>4, <1>5 DEF ReplyInv

LEMMA ReplyInvariant == Spec => [](TypeOK /\ ReplyInv)
<1>1. Init => TypeOK /\ ReplyInv
  BY TypeInit, ReplyInit
<1>2. (TypeOK /\ ReplyInv) /\ [Next]_vars => (TypeOK /\ ReplyInv)'
  BY TypeNext, ReplyNext
<1> QED BY <1>1, <1>2, PTL DEF Spec

\* Every command is answered at most once, and one that is not answered yet is
\* in the command channel, in the control queue, in flight or owns the stop in
\* progress, so somebody will answer it (supervisor.go: handleCommand,
\* retireControls, dispatchNextControl and handleStopResult).
THEOREM RepliesExact == Spec => []ExactlyOneReply
<1>1. TypeOK /\ ReplyInv => ExactlyOneReply
  BY DEF ReplyInv, RepliesInv, ExactlyOneReply
<1> QED BY <1>1, ReplyInvariant, PTL

-----------------------------------------------------------------------------
(* The control in flight is kept by every step. *)

callVars == <<controlID, inFlight, ops, ctlResults, cmd, control>>

LEMMA KeepAll ==
    ASSUME TypeOK, TypeOK', ControlInv,
           UNCHANGED <<callVars, session, instance, intent, told, queue>>
    PROVE  ControlInv'
  BY KeepControl DEF callVars, Agree

LEMMA BeginStopControl ==
    ASSUME TypeOK, ControlInv, NEW s, NEW why \in {"disable", "restart", "close"},
           BeginStop(s, why), UNCHANGED ctlResults
    PROVE  ControlInv'
  BY RetiredControl DEF BeginStop

LEMMA LifecycleControl ==
    ASSUME TypeOK, TypeOK', ControlInv, NEW c \in Cmd,
           \/ RejectCommand(c) \/ EnableCommand(c) \/ DisableCommand(c)
           \/ RestartCommand(c) \/ CloseCommand(c)
    PROVE  ControlInv'
<1>0. UNCHANGED <<ctlResults, cmd>> /\ FlightInv
  BY DEF RejectCommand, EnableCommand, DisableCommand, RestartCommand, CloseCommand, Take,
         envVars, ControlInv
<1>1. CASE RejectCommand(c)
  BY <1>0, <1>1, KeepAll DEF RejectCommand, loopVars, callVars
<1>2. CASE EnableCommand(c)
  <2> DEFINE base == IF snap.enabled THEN snap ELSE [snap EXCEPT !.enabled = TRUE, !.error = ""]
  <2>1. UNCHANGED <<control, intent, queue, controlID, inFlight, ops>>
    BY <1>2 DEF EnableCommand, queueVars
  <2>2. \/ ~session /\ StartSession(base)
        \/ UNCHANGED <<session, instance, told>>
    BY <1>2 DEF EnableCommand, sessionVars
  <2>3. CASE ~session /\ StartSession(base)
    <3> HIDE DEF base
    <3> QED BY <1>0, <2>1, <2>3, EmptyFlight, LaunchControl
  <2>4. CASE UNCHANGED <<session, instance, told>>
    BY <1>0, <2>1, <2>4, KeepAll DEF callVars
  <2> QED BY <2>2, <2>3, <2>4
<1>3. CASE DisableCommand(c)
  <2> DEFINE off == TimerOff([snap EXCEPT !.enabled = FALSE])
  <2>1. \/ BeginStop(off, "disable")
        \/ UNCHANGED <<control, queue, controlID, inFlight, ops, session, instance, told, intent>>
    BY <1>3 DEF DisableCommand, sessionVars, queueVars
  <2> HIDE DEF off
  <2> QED BY <1>0, <1>3, <2>1, BeginStopControl, KeepAll DEF callVars
<1>4. CASE RestartCommand(c)
  <2> DEFINE s == TimerOff([snap EXCEPT !.failures = 0, !.error = ""])
  <2>1. \/ BeginStop(s, "restart")
        \/ /\ ~session /\ StartSession(s)
           /\ UNCHANGED <<control, queue, controlID, inFlight, ops>>
        \/ UNCHANGED <<control, queue, controlID, inFlight, ops, session, instance, told, intent>>
    BY <1>4 DEF RestartCommand, sessionVars, queueVars
  <2> HIDE DEF s
  <2>2. CASE ~session /\ StartSession(s) /\ UNCHANGED <<control, queue, controlID, inFlight, ops>>
    BY <1>0, <2>2, EmptyFlight, LaunchControl
  <2> QED BY <1>0, <2>1, <2>2, BeginStopControl, KeepAll DEF callVars
<1>5. CASE CloseCommand(c)
  <2> DEFINE off == TimerOff([snap EXCEPT !.enabled = FALSE])
  <2>1. \/ BeginStop(off, "close")
        \/ /\ RetireControls /\ UNCHANGED <<ops, instance>>
           /\ intent' = "close" \/ session' = FALSE
    BY <1>5 DEF CloseCommand, sessionVars, TypeOK, TypeLoop
  <2> HIDE DEF off
  <2> QED BY <1>0, <2>1, BeginStopControl, RetiredControl
<1> QED BY <1>1, <1>2, <1>3, <1>4, <1>5

\* A control for a session that has nothing in flight, or one more in the queue.
LEMMA EnqueueControl ==
    ASSUME TypeOK, TypeOK', ControlInv, session, intent = "none", NEW c \in Cmd,
           NEW ctl \in Control, control' = ctl, Agree(ctl, control),
           UNCHANGED <<cmd, ctlResults, session, intent, instance, told>>,
           IF inFlight.op # 0
           THEN queue' = Append(queue, c) /\ UNCHANGED <<controlID, inFlight, ops, reply>>
           ELSE Dispatch(Append(queue, c), ctl, << >>)
    PROVE  ControlInv'
<1>1. CASE inFlight.op # 0
  BY <1>1, KeepControl
<1>2. CASE ~(inFlight.op # 0)
  <2>1. Append(queue, c) \in Seq(Cmd)
    BY FlightTypes
  <2>2. \A o \in ops : o.instance # instance
    BY <1>2, FlightTypes DEF ControlInv, CallsInv
  <2>3. Agree(told[instance], ctl)
    BY <1>2, AgreeTrans DEF ControlInv, ToldInv, Agree
  <2>4. Dispatch(Append(queue, c), ctl, << >>)
    BY <1>2
  <2> QED BY <2>1, <2>2, <2>3, <2>4, DispatchControl
<1> QED BY <1>1, <1>2

LEMMA ConfigControl ==
    ASSUME TypeOK, TypeOK', ControlInv, NEW c \in Cmd, ConfigCommand(c) PROVE ControlInv'
<1> DEFINE a == ApplyControl(control, cmd[c])
<1>0. /\ a.next \in Control /\ Agree(a.next, control)
      /\ UNCHANGED <<cmd, ctlResults, session, intent, instance, told>>
  <2>1. control \in Control /\ cmd[c] \in Command \cup {NoCommand} /\ cmd[c].kind = "config"
    BY FlightTypes DEF ConfigCommand
  <2> QED BY <2>1, ApplyControlType, ApplyControlGrows
          DEF ConfigCommand, sessionVars, Take, envVars
<1>1. \/ UNCHANGED <<control, queue, controlID, inFlight, ops>>
      \/ control' = a.next /\ UNCHANGED <<queue, controlID, inFlight, ops>>
      \/ /\ session /\ control' = a.next
         /\ IF inFlight.op # 0
            THEN queue' = Append(queue, c) /\ UNCHANGED <<controlID, inFlight, ops, reply>>
            ELSE Dispatch(Append(queue, c), control', << >>)
  BY DEF ConfigCommand, queueVars
<1> HIDE DEF a
<1>2. CASE UNCHANGED <<control, queue, controlID, inFlight, ops>>
  BY <1>0, <1>2, KeepAll DEF callVars
<1>3. CASE control' = a.next /\ UNCHANGED <<queue, controlID, inFlight, ops>>
  BY <1>0, <1>3, KeepControl
<1>4. CASE /\ session /\ control' = a.next
           /\ IF inFlight.op # 0
              THEN queue' = Append(queue, c) /\ UNCHANGED <<controlID, inFlight, ops, reply>>
              ELSE Dispatch(Append(queue, c), control', << >>)
  <2>1. intent = "none"
    BY DEF ConfigCommand, Admissible
  <2>2. IF inFlight.op # 0
        THEN queue' = Append(queue, c) /\ UNCHANGED <<controlID, inFlight, ops, reply>>
        ELSE Dispatch(Append(queue, c), a.next, << >>)
    BY <1>4
  <2> QED BY <1>0, <1>4, <2>1, <2>2, EnqueueControl
<1> QED BY <1>1, <1>2, <1>3, <1>4

LEMMA ControlControl ==
    ASSUME TypeOK, TypeOK', ControlInv, NEW c \in Cmd, ControlCommand(c) PROVE ControlInv'
<1>0. /\ UNCHANGED <<cmd, ctlResults, session, intent, instance, told>>
      /\ intent = "none" /\ control \in Control /\ Agree(control, control)
  BY FlightTypes DEF ControlCommand, sessionVars, Take, envVars, Admissible, Agree
<1>1. \/ UNCHANGED <<control, queue, controlID, inFlight, ops>>
      \/ ~session /\ UNCHANGED <<queue, controlID, inFlight, ops>>
      \/ /\ session /\ control' = control
         /\ IF inFlight.op # 0
            THEN queue' = Append(queue, c) /\ UNCHANGED <<controlID, inFlight, ops, reply>>
            ELSE Dispatch(Append(queue, c), control, << >>)
  BY DEF ControlCommand, queueVars
<1>2. CASE UNCHANGED <<control, queue, controlID, inFlight, ops>>
  BY <1>0, <1>2, KeepAll DEF callVars
<1>3. CASE ~session /\ UNCHANGED <<queue, controlID, inFlight, ops>>
  BY <1>0, <1>3, EmptyFlight, IdleControl DEF ControlInv
<1>4. CASE /\ session /\ control' = control
           /\ IF inFlight.op # 0
              THEN queue' = Append(queue, c) /\ UNCHANGED <<controlID, inFlight, ops, reply>>
              ELSE Dispatch(Append(queue, c), control, << >>)
  BY <1>0, <1>4, EnqueueControl
<1> QED BY <1>1, <1>2, <1>3, <1>4

\* Committing the control in flight keeps the config, which may be newer than
\* the control, and applies the control to the rest.
LEMMA CommittedState ==
    ASSUME TypeOK, ControlInv, inFlight.op # 0, NEW r
    PROVE  /\ Committed(r) \in Control
           /\ Committed(r).config = control.config
           /\ Agree(Committed(r), IF r.ok THEN Applied ELSE control)
<1>1. /\ control \in Control /\ inFlight.next \in Control
      /\ inFlight.cmd \in Cmd /\ cmd[inFlight.cmd] \in Command \cup {NoCommand}
  BY DEF TypeOK, TypeControls, TypeCallers, Ops
<1>2. CASE r.ok /\ ~Durable(inFlight.cmd)
  <2>1. Committed(r) = [inFlight.next EXCEPT !.config = control.config]
    BY <1>2 DEF Committed
  <2>2. Agree(inFlight.next, Applied)
    BY <1>2 DEF ControlInv, FlightInv
  <2>3. Committed(r) \in Control /\ Committed(r).config = control.config
        /\ Agree(Committed(r), inFlight.next)
    BY <1>1, <2>1 DEF Control, Agree
  <2>4. Agree(Committed(r), Applied)
    BY <2>2, <2>3, AgreeTrans
  <2> QED BY <1>2, <2>3, <2>4
<1>3. CASE ~(r.ok /\ ~Durable(inFlight.cmd))
  <2>1. Committed(r) = control
    BY <1>3 DEF Committed
  <2>2. Durable(inFlight.cmd) => Agree(Applied, control)
    BY <1>1, ApplyControlGrows DEF Durable, Applied
  <2>3. r.ok => Agree(control, Applied)
    BY <1>3, <2>2 DEF Agree
  <2>4. Agree(control, control)
    BY DEF Agree
  <2> QED BY <1>1, <2>1, <2>3, <2>4
<1> QED BY <1>2, <1>3

LEMMA ControlResultControl ==
    ASSUME TypeOK, TypeOK', StateInv, ControlInv,
           NEW r \in ctlResults, HandleControlResult(r)
    PROVE  ControlInv'
<1>1. /\ UNCHANGED <<cmd, session, intent, instance, told>> /\ ctlResults' = ctlResults \ {r}
  BY DEF HandleControlResult, sessionVars
<1>0. /\ r.op \in 1 .. controlID /\ r.op # 0
      /\ r.op = inFlight.op => /\ r.instance = inFlight.instance /\ inFlight \notin ops
                               /\ \A q \in ctlResults : q.op = r.op => q = r
  <2>1. r.op \in 1 .. controlID /\ r.op \in Nat /\ controlID \in Nat
    BY FlightTypes DEF ControlInv, CallsInv
  <2> QED BY <2>1 DEF ControlInv, CallsInv
<1>2. CASE inFlight.op = 0 \/ r.op # inFlight.op \/ r.instance # inFlight.instance
  <2>1. UNCHANGED <<control, queue, controlID, inFlight, ops>>
    BY <1>2 DEF HandleControlResult, queueVars
  <2>2. r.op # inFlight.op
    BY <1>0, <1>2
  <2>3. \A q \in ctlResults : q.op = inFlight.op => q \in ctlResults'
    BY <1>1, <2>2
  <2>4. Agree(control', control)
    BY <2>1 DEF Agree
  <2> QED BY <1>1, <2>1, <2>3, <2>4, KeepControl
<1>3. CASE inFlight.op # 0 /\ r.op = inFlight.op /\ r.instance = inFlight.instance
  <2> DEFINE f == One(inFlight.cmd, IF r.ok THEN "ok" ELSE "failed")
  <2>1. control' = Committed(r) /\ Dispatch(queue, control', f)
    BY <1>3 DEF HandleControlResult
  <2>2. Committed(r) \in Control /\ Agree(Committed(r), IF r.ok THEN Applied ELSE control)
    BY <1>3, CommittedState
  <2>3. PICK ctl \in Control : ctl = Committed(r)
    BY <2>2
  <2>4. session /\ intent = "none"
    BY <1>3 DEF ControlInv, FlightInv, Retired
  <2>5. Succeeded <=> r.ok
    BY <1>0, <1>3 DEF Succeeded
  <2>6. Agree(told[instance], IF r.ok THEN Applied ELSE control)
    BY <1>3, <2>4, <2>5 DEF ControlInv, ToldInv
  <2>7. Agree(told[instance], ctl)
    <3>1. PICK x : x = IF r.ok THEN Applied ELSE control
      OBVIOUS
    <3>2. Agree(told[instance], x) /\ Agree(ctl, x)
      BY <2>2, <2>3, <2>6, <3>1
    <3> QED BY <3>2 DEF Agree
  <2>8. \A o \in ops : o.instance # instance
    BY <1>0, <1>3, <2>4 DEF ControlInv, CallsInv
  <2> HIDE DEF f
  <2>9. Dispatch(queue, ctl, f) /\ control' = ctl /\ queue \in Seq(Cmd)
    BY <2>1, <2>3, FlightTypes
  <2> QED BY <1>1, <2>4, <2>7, <2>8, <2>9, DispatchControl
<1> QED BY <1>2, <1>3

LEMMA ResultControl ==
    ASSUME TypeOK, TypeOK', ControlInv,
           \/ \E id \in stopCalls : HandleStopResult(id)
           \/ \E id \in watching : HandleSessionResult(id)
    PROVE  ControlInv'
<1>1. ASSUME NEW id \in stopCalls, HandleStopResult(id) PROVE ControlInv'
  <2> DEFINE s == [snap EXCEPT !.state = "stopped"]
  <2>1. UNCHANGED <<control, queue, controlID, inFlight, ops, ctlResults, cmd>>
    BY <1>1 DEF HandleStopResult, queueVars
  <2>2. \/ UNCHANGED <<session, instance, intent, told>>
        \/ intent # "none" /\ StartSession(s)
        \/ intent # "none" /\ session' = FALSE /\ UNCHANGED instance
    BY <1>1 DEF HandleStopResult, sessionVars
  <2> HIDE DEF s
  <2>3. intent # "none" => Retired = {} /\ inFlight.op = 0
    BY EmptyFlight DEF ControlInv
  <2>4. CASE UNCHANGED <<session, instance, intent, told>>
    BY <2>1, <2>4, KeepAll DEF callVars
  <2>5. CASE intent # "none" /\ StartSession(s)
    BY <2>1, <2>3, <2>5, LaunchControl
  <2>6. CASE intent # "none" /\ session' = FALSE /\ UNCHANGED instance
    BY <2>1, <2>3, <2>6, IdleControl
  <2> QED BY <2>2, <2>4, <2>5, <2>6
<1>2. ASSUME NEW id \in watching, HandleSessionResult(id) PROVE ControlInv'
  <2>1. UNCHANGED <<control, ops, ctlResults, cmd, instance, intent, told>>
    BY <1>2 DEF HandleSessionResult
  <2>2. \/ UNCHANGED <<session, queue, controlID, inFlight>>
        \/ session' = FALSE /\ RetireControls
    BY <1>2 DEF HandleSessionResult
  <2> QED BY <2>1, <2>2, KeepAll, RetiredControl DEF callVars
<1> QED BY <1>1, <1>2

LEMMA CallbackControl ==
    ASSUME TypeOK, TypeOK', ControlInv,
           HandleCritical \/ HandleTelemetry \/ RestartTimerFires \/ StableTimerFires
    PROVE  ControlInv'
<1>1. CASE HandleCritical \/ HandleTelemetry \/ StableTimerFires
  BY <1>1, KeepAll
  DEF HandleCritical, HandleTelemetry, StableTimerFires, queueVars, envVars, sessionVars, callVars
<1>2. CASE RestartTimerFires
  <2>1. UNCHANGED <<control, intent, queue, controlID, inFlight, ops, ctlResults, cmd>>
    BY <1>2 DEF RestartTimerFires, queueVars, envVars
  <2>2. (~session /\ StartSession(snap)) \/ UNCHANGED <<session, instance, told>>
    BY <1>2 DEF RestartTimerFires, sessionVars
  <2>3. ~session => Retired = {} /\ inFlight.op = 0
    BY EmptyFlight DEF ControlInv
  <2> QED BY <2>1, <2>2, <2>3, LaunchControl, KeepAll DEF callVars
<1> QED BY <1>1, <1>2

\* A Control call returns: the session has applied it, or its state is what it
\* was.
LEMMA ReturnControl ==
    ASSUME TypeOK, TypeOK', ControlInv, NEW o \in ops, ControlSucceeds(o) \/ ControlFails(o)
    PROVE  ControlInv'
<1>1. UNCHANGED <<control, queue, controlID, inFlight, cmd, session, intent, instance>>
  BY DEF ControlSucceeds, ControlFails, ControlReturns, sessionOnly, restOfLoop, loopVars
<1>2. PICK ok \in BOOLEAN :
        /\ ControlReturns(o, ok)
        /\ ok => told' = [told EXCEPT ![o.instance] = ApplyControl(told[o.instance], cmd[o.cmd]).next]
        /\ ~ok => told' = told
  BY DEF ControlSucceeds, ControlFails
<1> DEFINE r == [op |-> o.op, instance |-> o.instance, ok |-> ok]
<1>3. ops' = ops \ {o} /\ ctlResults' = ctlResults \cup {r}
  BY <1>2 DEF ControlReturns
<1>4. /\ r.op = o.op /\ r.instance = o.instance /\ (r.ok <=> ok)
  BY <1>2
<1>5. /\ o.op \in 1 .. controlID /\ o.op # 0 /\ o.instance \in Sessions /\ o.cmd \in Cmd
      /\ (o.op = inFlight.op => o = inFlight)
      /\ (o.instance = instance /\ session /\ intent = "none" => o = inFlight)
  <2>1. o.op \in 1 .. controlID /\ o.op \in Nat /\ controlID \in Nat
    BY FlightTypes DEF ControlInv, CallsInv
  <2> QED BY <2>1, FlightTypes DEF ControlInv, CallsInv
<1> HIDE DEF r
<1>6. FlightInv'
  <2>1. Retired' = Retired
    BY <1>1, RetiredFrame
  <2>2. /\ Applied' = Applied /\ (Durable(inFlight.cmd)' <=> Durable(inFlight.cmd))
    BY <1>1 DEF Applied, Durable
  <2> QED BY <1>1, <2>1, <2>2 DEF ControlInv, FlightInv
<1>7. CallsInv'
  <2>1. \A x \in ops' : /\ x.op \in 1 .. controlID /\ x.instance <= instance
                        /\ x.op = inFlight.op => x = inFlight
                        /\ x.instance = instance /\ session /\ intent = "none" => x = inFlight
    BY <1>3 DEF ControlInv, CallsInv
  <2>2. ASSUME NEW q \in ctlResults'
        PROVE  /\ q.op \in 1 .. controlID
               /\ q.op = inFlight.op => /\ q.instance = inFlight.instance /\ inFlight \notin ops'
                                        /\ \A p \in ctlResults' : p.op = q.op => p = q
    <3>1. \A p \in ctlResults :
             /\ p.op \in 1 .. controlID
             /\ p.op = inFlight.op => /\ p.instance = inFlight.instance /\ inFlight \notin ops
                                      /\ \A y \in ctlResults : y.op = p.op => y = p
      BY DEF ControlInv, CallsInv
    <3>2. o.op = inFlight.op => o = inFlight /\ \A p \in ctlResults : p.op # inFlight.op
      BY <1>5, <3>1
    <3>3. CASE q = r
      BY <1>3, <1>4, <1>5, <3>2, <3>3
    <3>4. CASE q # r
      <4>1. q \in ctlResults
        BY <1>3, <3>4
      <4>2. q.op = inFlight.op => o.op # inFlight.op
        BY <3>2, <4>1
      <4> QED BY <1>3, <1>4, <3>1, <4>1, <4>2
    <3> QED BY <3>3, <3>4
  <2> QED BY <1>1, <2>1, <2>2 DEF ControlInv, CallsInv
<1>8. ToldInv'
  <2> SUFFICES ASSUME session, intent = "none"
               PROVE  Agree(told'[instance],
                            IF inFlight.op # 0 /\ Succeeded' THEN Applied ELSE control)
    BY <1>1 DEF ToldInv, Applied
  <2>1. Agree(told[instance], IF inFlight.op # 0 /\ Succeeded THEN Applied ELSE control)
    BY DEF ControlInv, ToldInv
  <2>2. CASE o = inFlight
    <3>1. inFlight.op # 0 /\ inFlight.instance = instance
      BY <1>5, <2>2 DEF ControlInv, FlightInv
    <3>2. ~Succeeded
      BY <2>2 DEF ControlInv, CallsInv, Succeeded
    <3>3. Succeeded' <=> ok
      BY <1>1, <1>3, <1>4, <2>2, <3>2 DEF Succeeded
    <3>4. Agree(told[instance], control)
      BY <2>1, <3>2
    <3>5. CASE ok
      <4>1. told'[instance] = ApplyControl(told[instance], cmd[inFlight.cmd]).next
        BY <1>2, <1>5, <2>2, <3>1, <3>5 DEF TypeOK, TypeSessions
      <4>2. instance \in Sessions /\ inFlight.cmd \in Cmd
        BY <1>5, <2>2, <3>1
      <4>3. PICK x \in Control : x = told[instance]
        BY <4>2, FlightTypes
      <4>4. PICK y \in Control : y = control
        BY FlightTypes
      <4>5. PICK k \in Command \cup {NoCommand} : k = cmd[inFlight.cmd]
        BY <4>2, FlightTypes
      <4>6. Agree(ApplyControl(x, k).next, ApplyControl(y, k).next)
        BY <3>4, <4>3, <4>4, ApplyControlAgrees
      <4>7. Agree(told'[instance], Applied)
        BY <4>1, <4>3, <4>4, <4>5, <4>6 DEF Applied
      <4> QED BY <3>1, <3>3, <3>5, <4>7
    <3>6. CASE ~ok
      BY <1>2, <3>3, <3>4, <3>6
    <3> QED BY <3>5, <3>6
  <2>3. CASE o # inFlight
    <3>1. o.op # inFlight.op /\ o.instance # instance
      BY <1>5, <2>3
    <3>2. Succeeded' <=> Succeeded
      BY <1>1, <1>3, <1>4, <3>1 DEF Succeeded
    <3>3. told'[instance] = told[instance]
      <4>1. instance \in Sessions /\ told \in [Sessions -> Control]
        BY DEF TypeOK, TypeLoop, TypeSessions
      <4>2. CASE ok
        BY <1>2, <1>5, <3>1, <4>1, <4>2
      <4> QED BY <1>2, <4>2
    <3> QED BY <2>1, <3>2, <3>3
  <2> QED BY <2>2, <2>3
<1> QED BY <1>6, <1>7, <1>8 DEF ControlInv

LEMMA OutsideControl ==
    ASSUME TypeOK, TypeOK', ReplyInv, ControlInv, Outside PROVE ControlInv'
<1>0. UNCHANGED <<control, queue, controlID, inFlight, session, intent, instance>>
  BY OutsideQuiet DEF restOfLoop, loopVars
<1>1. ASSUME NEW id \in Sessions, SessionStep(id) PROVE UNCHANGED <<ops, ctlResults, told, cmd>>
  BY <1>1 DEF SessionStep, ProcessStarted, Ready, Unresponsive, SessionFails, SessionEnds,
              Telemetry, sessionOnly
<1>2. ASSUME NEW c \in Cmd, CancelCommand(c) PROVE UNCHANGED <<ops, ctlResults, told, cmd>>
  BY <1>2 DEF CancelCommand
<1>3. ASSUME UNCHANGED vars PROVE UNCHANGED <<ops, ctlResults, told, cmd>>
  BY <1>3 DEF vars
<1>4. CASE UNCHANGED <<ops, ctlResults, told, cmd>>
  BY <1>0, <1>4, KeepAll DEF callVars
<1>5. ASSUME NEW c \in Cmd, NEW k \in Command, SendCommand(c, k) PROVE ControlInv'
  <2>1. UNCHANGED <<ops, ctlResults, told>> /\ cmd' = [cmd EXCEPT ![c] = k] /\ cmd[c].kind = "none"
    BY <1>5 DEF SendCommand
  <2>2. inFlight.op # 0 => inFlight.cmd \in Cmd /\ inFlight.cmd # c
    BY <2>1, WaitingKinds DEF Waiting, Retired, TypeOK, TypeControls
  <2>3. inFlight.op # 0 => cmd'[inFlight.cmd] = cmd[inFlight.cmd]
    BY <2>1, <2>2 DEF TypeOK, TypeCallers
  <2> QED BY <1>0, <2>1, <2>3, KeepControl DEF Agree
<1> QED BY <1>1, <1>2, <1>3, <1>4, <1>5, ReturnControl DEF Outside

LEMMA ControlNext == TypeOK /\ StateInv /\ ReplyInv /\ ControlInv /\ [Next]_vars => ControlInv'
<1> SUFFICES ASSUME TypeOK, StateInv, ReplyInv, ControlInv, [Next]_vars PROVE ControlInv'
  OBVIOUS
<1>0. TypeOK'
  BY TypeNext
<1>1. ASSUME NEW c \in Cmd, HandleCommand(c) PROVE ControlInv'
  BY <1>0, <1>1, LifecycleControl, ConfigControl, ControlControl DEF HandleCommand
<1>2. ASSUME NEW r \in ctlResults, HandleControlResult(r) PROVE ControlInv'
  BY <1>0, <1>2, ControlResultControl
<1>3. CASE LoopStep
  BY <1>0, <1>1, <1>2, <1>3, ResultControl, CallbackControl DEF LoopStep
<1>4. CASE Outside
  BY <1>0, <1>4, OutsideControl
<1> QED BY <1>3, <1>4, NextCases

LEMMA ControlInit == Init => ControlInv
<1> SUFFICES ASSUME Init PROVE ControlInv
  OBVIOUS
<1>1. /\ queue = << >> /\ inFlight = NoOp /\ controlID = 0 /\ ops = {} /\ ctlResults = {}
  BY DEF Init
<1>2. Retired = {} /\ inFlight.op = 0
  BY <1>1 DEF Retired, Queued, NoOp
<1>3. session => told[instance] = control
  <2>1. PICK on \in BOOLEAN, cfg \in Versioned :
          LET ctl == [active |-> FALSE, config |-> cfg, sub |-> Unset]
              go  == on /\ MaxSession > 0
          IN  /\ control = ctl /\ session = go /\ instance = IF go THEN 1 ELSE 0
              /\ told = [i \in Sessions |-> ctl]
    BY DEF Init
  <2>2. session => instance \in Sessions
    <3> SUFFICES ASSUME session PROVE instance \in Sessions
      OBVIOUS
    <3>1. MaxSession > 0 /\ instance = 1
      BY <2>1, Zenon
    <3> QED BY <3>1, SupervisorAssumption DEF Sessions
  <2> QED BY <2>1, <2>2
<1>4. FlightInv
  BY <1>2 DEF FlightInv
<1>5. CallsInv
  BY <1>1, <1>2 DEF CallsInv
<1>6. ToldInv
  BY <1>2, <1>3 DEF ToldInv, Agree
<1> QED BY <1>4, <1>5, <1>6 DEF ControlInv

LEMMA ControlInvariant == Spec => [](TypeOK /\ ReplyInv /\ ControlInv)
<1>1. Init => TypeOK /\ StateInv /\ ReplyInv /\ ControlInv
  BY TypeInit, StateInvInit, ReplyInit, ControlInit
<1>2. (TypeOK /\ StateInv /\ ReplyInv /\ ControlInv) /\ [Next]_vars
      => (TypeOK /\ StateInv /\ ReplyInv /\ ControlInv)'
  BY TypeNext, StateInvNext, ReplyNext, ControlNext
<1> QED BY <1>1, <1>2, PTL DEF Spec

\* When no control is in flight the live session knows the active flag and the
\* subscription the supervisor would launch a replacement with: no Control call
\* that was retired, or belongs to an earlier session, reaches it unseen
\* (supervisor.go: dispatchNextControl, handleControlResult, startSession).
THEOREM SessionTold == Spec => []SessionToldControl
<1>1. TypeOK /\ ReplyInv /\ ControlInv => SessionToldControl
  BY DEF ControlInv, ToldInv, Agree, SessionToldControl
<1> QED BY <1>1, ControlInvariant, PTL

-----------------------------------------------------------------------------
(* The control state only moves forward. *)

NoRegress ==
    /\ control'.config.ver >= control.config.ver
    /\ control'.config.ver = control.config.ver => control'.config = control.config
    /\ control'.sub.ver >= control.sub.ver

LEMMA VersionsOrdered == \A v \in Versioned : v.ver \in Int /\ v.ver >= v.ver
  BY DEF Versioned

LEMMA SameNoRegress == TypeOK /\ control' = control => NoRegress
  BY VersionsOrdered DEF NoRegress, TypeOK, TypeControls, Control

LEMMA CommandNoRegress ==
    ASSUME TypeOK, NEW c \in Cmd, ConfigCommand(c) \/ ControlCommand(c) PROVE NoRegress
<1>1. control' = control \/ control' = ApplyControl(control, cmd[c]).next
  BY DEF ConfigCommand, ControlCommand
<1>2. CASE control' = ApplyControl(control, cmd[c]).next
  <2>1. control \in Control /\ cmd[c] \in Command \cup {NoCommand}
    BY FlightTypes
  <2> QED BY <1>2, <2>1, ApplyControlGrows DEF NoRegress
<1> QED BY <1>1, <1>2, SameNoRegress

LEMMA ResultNoRegress ==
    ASSUME TypeOK, ControlInv, NEW r \in ctlResults, HandleControlResult(r) PROVE NoRegress
<1>1. CASE inFlight.op # 0 /\ control' = Committed(r)
  <2>1. /\ control'.config = control.config
        /\ Agree(control', IF r.ok THEN Applied ELSE control)
    BY <1>1, CommittedState
  <2>2. /\ control \in Control /\ inFlight.cmd \in Cmd
        /\ cmd[inFlight.cmd] \in Command \cup {NoCommand}
    BY <1>1, FlightTypes DEF TypeOK, TypeControls
  <2>3. Applied.sub.ver >= control.sub.ver
    BY <2>2, ApplyControlGrows DEF Applied
  <2>4. control.config.ver >= control.config.ver /\ control.sub.ver >= control.sub.ver
    BY <2>2, VersionsOrdered DEF Control
  <2>5. control'.sub.ver >= control.sub.ver
    <3> HIDE DEF Applied
    <3> QED BY <2>1, <2>3, <2>4 DEF Agree
  <2> QED BY <2>1, <2>4, <2>5 DEF NoRegress
<1>2. control' = control \/ (inFlight.op # 0 /\ control' = Committed(r))
  BY DEF HandleControlResult
<1> QED BY <1>1, <1>2, SameNoRegress

LEMMA ControlStep == TypeOK /\ ControlInv /\ [Next]_vars => [NoRegress]_control
<1> SUFFICES ASSUME TypeOK, ControlInv, [Next]_vars PROVE NoRegress \/ control' = control
  OBVIOUS
<1>1. ASSUME NEW c \in Cmd, HandleCommand(c) PROVE NoRegress \/ control' = control
  <2>1. CASE ConfigCommand(c) \/ ControlCommand(c)
    BY <2>1, CommandNoRegress
  <2>2. CASE ~(ConfigCommand(c) \/ ControlCommand(c))
    BY <1>1, <2>2 DEF HandleCommand, RejectCommand, EnableCommand, DisableCommand,
                      RestartCommand, CloseCommand, loopVars
  <2> QED BY <2>1, <2>2
<1>2. ASSUME \/ \E id \in stopCalls : HandleStopResult(id)
             \/ \E id \in watching : HandleSessionResult(id)
             \/ HandleCritical \/ HandleTelemetry \/ RestartTimerFires \/ StableTimerFires
      PROVE  control' = control
  BY <1>2 DEF HandleStopResult, HandleSessionResult, HandleCritical, HandleTelemetry,
              RestartTimerFires, StableTimerFires
<1>3. CASE Outside
  BY <1>3, OutsideQuiet DEF restOfLoop, loopVars
<1> QED BY <1>1, <1>2, <1>3, ResultNoRegress, NextCases DEF LoopStep

\* An owned config is never rolled back, in particular not by the result of a
\* control that was in flight when it arrived, and the generation of the
\* subscription never regresses (supervisor.go: handleControlCommand,
\* commitControl; control.go: controlState).
THEOREM ControlForward == Spec => ControlNeverRegresses
<1>1. TypeOK /\ ReplyInv /\ ControlInv /\ [Next]_vars
      => [/\ control'.config.ver >= control.config.ver
          /\ control'.config.ver = control.config.ver => control'.config = control.config
          /\ control'.sub.ver >= control.sub.ver]_control
  BY ControlStep DEF NoRegress
<1> QED BY <1>1, ControlInvariant, PTL DEF Spec, ControlNeverRegresses

==============================================================================
