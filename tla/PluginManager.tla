----------------------------- MODULE PluginManager -----------------------------
(***************************************************************************)
(* The plugin manager (internal/plugins/manager.go) above the supervisors  *)
(* and the settings store: Start and Close, and the calls Enable, Disable, *)
(* UpdateConfig, Restart, SetActive and UpdateSubscription, which run      *)
(* concurrently in their callers' goroutines.                              *)
(*                                                                         *)
(* A persistent call holds its plugin's admission token from before the    *)
(* Save until the supervisor has admitted the command, and the one persist *)
(* token while it reads, saves and replaces the whole settings.  The       *)
(* command itself is sent without the caller's cancellation.               *)
(*                                                                         *)
(* A supervisor is here what the manager relies on: a FIFO of commands, a  *)
(* preference, a session that is live or not, and a Stop in progress.      *)
(* PluginSupervisor has its detail.                                        *)
(***************************************************************************)
EXTENDS Integers, Sequences, FiniteSets

CONSTANTS
    Plugin,      \* installed plugin IDs, the result of Catalog.Scan
    Call,        \* identities of calls on the manager; each is made once
    CloseCmd,    \* the supervisorClose command of closePluginSupervisors
    MaxRevision, \* bound: largest Config.Revision
    MaxStarts,   \* bound: calls of Start that find the manager not started
    Kinds        \* the kinds of call the callers make

ASSUME ManagerAssumption ==
    /\ CloseCmd \notin Call
    /\ MaxRevision \in Nat
    /\ MaxStarts \in Nat
    /\ Kinds \subseteq {"enable", "disable", "config", "restart", "control"}

Revision == 0 .. MaxRevision

\* PluginPreference; installed stands for a non-zero InstalledAt.
Preference == [installed : BOOLEAN, enabled : BOOLEAN, config : Revision]

NoPreference == [installed |-> FALSE, enabled |-> FALSE, config |-> 0]

Settings == [Plugin -> Preference]

PersistentKinds == {"enable", "disable", "config"}

\* A call: "control" is SetActive or UpdateSubscription, which only reach the
\* supervisor's runtime control state.
Request == [kind : {"enable", "disable", "restart", "control"}, plugin : Plugin, rev : {0}]
           \cup [kind : {"config"}, plugin : Plugin, rev : 1 .. MaxRevision]

NoRequest == [kind |-> "none", plugin |-> "none", rev |-> 0]

VARIABLES
    saved,      \* the settings file (Store), replaced atomically by Save
    settings,   \* m.settings
    lifecycle,  \* m.lifecycle
    startDone,  \* the channel m.startDone is closed
    starter,    \* the goroutine in Start: [pc, settings, starts]
    closer,     \* the goroutine finishClose: its pc
    registered, \* m.supervisors holds the supervisors
    admission,  \* plugins whose admission token is free
    persist,    \* the persist token is free
    req,        \* the request of every call
    pc,         \* where every call is
    next,       \* the settings a persistent call is about to save
    result,     \* what a finished call returned
    gone,       \* calls whose context has ended
    dropped,    \* history: saved calls whose command the supervisor refused
    sup         \* the supervisor of every plugin

startVars == <<lifecycle, startDone, starter, closer, registered>>
callVars  == <<req, pc, next, result, dropped>>
vars == <<saved, settings, startVars, admission, persist, callVars, gone, sup>>

NoSupervisor == [mode |-> "none", intent |-> "none", pref |-> NoPreference,
                 live |-> FALSE, startup |-> 0, inbox |-> << >>]

Supervisor == [mode : {"none", "open", "closing", "closed"},
               intent : {"none", "disable", "restart", "close"},
               pref : Preference, live : BOOLEAN, startup : Revision,
               inbox : Seq(Call \cup {CloseCmd})]

Init ==
    /\ saved \in [Plugin -> {NoPreference, [installed |-> TRUE, enabled |-> TRUE, config |-> 0]}]
    /\ settings = [p \in Plugin |-> NoPreference]
    /\ lifecycle = "notStarted" /\ startDone = TRUE
    /\ starter = [pc |-> "idle", settings |-> settings, starts |-> 0]
    /\ closer = "idle" /\ registered = FALSE
    /\ admission = Plugin /\ persist = TRUE
    /\ req = [c \in Call |-> NoRequest]
    /\ pc = [c \in Call |-> "idle"]
    /\ next = [c \in Call |-> settings]
    /\ result = [c \in Call |-> ""]
    /\ gone = {} /\ dropped = {}
    /\ sup = [p \in Plugin |-> NoSupervisor]

-----------------------------------------------------------------------------
(* Start and its rollback. *)

StartBegin ==
    /\ lifecycle = "notStarted"
    /\ starter.starts < MaxStarts
    /\ lifecycle' = "starting"
    /\ startDone' = FALSE
    /\ starter' = [starter EXCEPT !.pc = "load", !.starts = @ + 1]
    /\ UNCHANGED <<saved, settings, closer, registered, admission, persist, callVars, gone, sup>>

\* finishFailedStart
FinishFailedStart ==
    /\ lifecycle' = IF lifecycle = "starting" THEN "notStarted" ELSE lifecycle
    /\ startDone' = TRUE
    /\ starter' = [starter EXCEPT !.pc = "idle"]

\* Scan, Load and the InstalledAt of plugins seen for the first time.
StartLoad ==
    /\ starter.pc = "load"
    /\ \/ LET loaded == [p \in Plugin |-> [saved[p] EXCEPT !.installed = TRUE]]
          IN  /\ starter' = [starter EXCEPT !.settings = loaded,
                                            !.pc = IF loaded = saved THEN "create" ELSE "save"]
              /\ UNCHANGED <<lifecycle, startDone>>
       \/ FinishFailedStart
    /\ UNCHANGED <<saved, settings, closer, registered, admission, persist, callVars, gone, sup>>

StartSave ==
    /\ starter.pc = "save"
    /\ \/ /\ saved' = starter.settings
          /\ starter' = [starter EXCEPT !.pc = "create"]
          /\ UNCHANGED <<lifecycle, startDone>>
       \/ FinishFailedStart /\ UNCHANGED saved
    /\ UNCHANGED <<settings, closer, registered, admission, persist, callVars, gone, sup>>

Launched(s) == [s EXCEPT !.live = TRUE, !.startup = s.pref.config]

\* newSupervisor: the loop starts at once and launches an enabled plugin.
StartCreate(p) ==
    LET fresh == [NoSupervisor EXCEPT !.mode = "open", !.pref = starter.settings[p]]
    IN  /\ starter.pc = "create"
        /\ sup[p].mode \in {"none", "closed"}
        /\ sup' = [sup EXCEPT ![p] = IF fresh.pref.enabled THEN Launched(fresh) ELSE fresh]
        /\ UNCHANGED <<saved, settings, startVars, admission, persist, callVars, gone>>

\* closePluginSupervisors sends a Close to every supervisor in the map.
CloseSupervisors(P) ==
    sup' = [p \in Plugin |-> IF p \in P THEN [sup[p] EXCEPT !.inbox = Append(@, CloseCmd)]
                             ELSE sup[p]]

Created == {p \in Plugin : sup[p].mode = "open"}

\* The context ends, or a supervisor cannot be created: Start rolls back.
StartAbort ==
    /\ starter.pc = "create"
    /\ starter' = [starter EXCEPT !.pc = "rollback"]
    /\ CloseSupervisors(Created)
    /\ UNCHANGED <<saved, settings, lifecycle, startDone, closer, registered, admission,
                   persist, callVars, gone>>

StartCommit ==
    /\ starter.pc = "create"
    /\ Created = Plugin
    /\ IF lifecycle # "starting"
       THEN /\ starter' = [starter EXCEPT !.pc = "rollback"]
            /\ CloseSupervisors(Created)
            /\ UNCHANGED <<settings, lifecycle, startDone, registered, admission>>
       ELSE /\ starter' = [starter EXCEPT !.pc = "idle"]
            /\ settings' = starter.settings
            /\ lifecycle' = "started"
            /\ registered' = TRUE
            /\ admission' = Plugin
            /\ startDone' = TRUE
            /\ UNCHANGED sup
    /\ UNCHANGED <<saved, closer, persist, callVars, gone>>

AllClosed == \A p \in Plugin : sup[p].mode \in {"none", "closed"}

StartRolledBack ==
    /\ starter.pc = "rollback"
    /\ AllClosed
    /\ FinishFailedStart
    /\ UNCHANGED <<saved, settings, closer, registered, admission, persist, callVars, gone, sup>>

-----------------------------------------------------------------------------
(* Close, which runs once. *)

CloseBegin ==
    /\ closer = "idle"
    /\ closer' = "waitStart"
    /\ lifecycle' = "closing"
    /\ UNCHANGED <<saved, settings, startDone, starter, registered, admission, persist,
                   callVars, gone, sup>>

StartMayStillRun == TRUE
StartFinished == startDone

FinishCloseStops ==
    /\ closer = "waitStart"
    /\ StartFinished
    /\ closer' = "stopping"
    /\ IF registered THEN CloseSupervisors(Plugin) ELSE UNCHANGED sup
    /\ UNCHANGED <<saved, settings, lifecycle, startDone, starter, registered, admission,
                   persist, callVars, gone>>

FinishClose ==
    /\ closer = "stopping"
    /\ registered => AllClosed
    /\ closer' = "done"
    /\ lifecycle' = "closed"
    /\ UNCHANGED <<saved, settings, startDone, starter, registered, admission, persist,
                   callVars, gone, sup>>

-----------------------------------------------------------------------------
(* The calls: persistAndCommand and command. *)

Persistent(c) == req[c].kind \in PersistentKinds

\* controlTarget's error, or "".
TargetError == CASE lifecycle \in {"closing", "closed"} -> "closed"
                 [] lifecycle = "started" -> ""
                 [] OTHER -> "not_started"

\* Call c returns r.
Return(c, r) ==
    /\ pc' = [pc EXCEPT ![c] = "done"]
    /\ result' = [result EXCEPT ![c] = r]

Goto(c, l) == pc' = [pc EXCEPT ![c] = l] /\ UNCHANGED result

ReleaseAdmission(c) == admission' = admission \cup {req[c].plugin}

Begin(c, r) ==
    /\ pc[c] = "idle" /\ r.kind \in Kinds
    /\ req' = [req EXCEPT ![c] = r]
    /\ IF TargetError # "" THEN Return(c, TargetError) ELSE Goto(c, "admission")
    /\ UNCHANGED <<saved, settings, startVars, admission, persist, next, dropped, gone, sup>>

\* The caller's context ends while the call runs.
CtxDone(c) ==
    /\ pc[c] \notin {"idle", "done"} /\ c \notin gone
    /\ gone' = gone \cup {c}
    /\ UNCHANGED <<saved, settings, startVars, admission, persist, callVars, sup>>

\* acquireManagerToken on the plugin's admission token.
AcquireAdmission(c) ==
    /\ pc[c] = "admission"
    /\ \/ /\ req[c].plugin \in admission
          /\ admission' = admission \ {req[c].plugin}
          /\ Goto(c, IF Persistent(c) THEN "persist" ELSE "send")
       \/ c \in gone /\ Return(c, "canceled") /\ UNCHANGED admission
    /\ UNCHANGED <<saved, settings, startVars, persist, req, next, dropped, gone, sup>>

PersistFree == persist

AcquirePersist(c) ==
    /\ pc[c] = "persist"
    /\ \/ /\ PersistFree
          /\ persist' = FALSE
          /\ Goto(c, "update")
          /\ UNCHANGED admission
       \/ /\ c \in gone
          /\ Return(c, "canceled")
          /\ ReleaseAdmission(c)
          /\ UNCHANGED persist
    /\ UNCHANGED <<saved, settings, startVars, req, next, dropped, gone, sup>>

\* The update function of the call on preference f: applyConfig, or the flag.
Updated(c, f) ==
    CASE req[c].kind = "config" -> [f EXCEPT !.config = req[c].rev]
      [] OTHER -> [f EXCEPT !.enabled = (req[c].kind = "enable")]

\* applyConfig refuses an older revision.
Refused(c, f) == req[c].kind = "config" /\ req[c].rev < f.config

\* The second lifecycle check and the update of a clone of the settings.
Update(c) ==
    LET p == req[c].plugin
    IN  /\ pc[c] = "update"
        /\ next' = [next EXCEPT ![c] = [settings EXCEPT ![p] = Updated(c, @)]]
        /\ \/ /\ TargetError # "" \/ Refused(c, settings[p])
              /\ Return(c, IF TargetError # "" THEN TargetError ELSE "refused")
              /\ persist' = TRUE /\ ReleaseAdmission(c)
           \/ /\ TargetError = "" /\ ~Refused(c, settings[p])
              /\ IF next'[c] = settings
                 THEN persist' = TRUE /\ Goto(c, "send")
                 ELSE UNCHANGED persist /\ Goto(c, "save")
              /\ UNCHANGED admission
        /\ UNCHANGED <<saved, settings, startVars, req, dropped, gone, sup>>

\* Store.Save fails: nothing was replaced.
SaveFailsKeepingToken(c) ==
    /\ pc[c] = "save"
    /\ Return(c, "failed")
    /\ persist' = TRUE
    /\ UNCHANGED <<saved, settings, startVars, admission, req, next, dropped, gone, sup>>

SaveFails(c) ==
    /\ pc[c] = "save"
    /\ Return(c, "failed")
    /\ persist' = TRUE /\ ReleaseAdmission(c)
    /\ UNCHANGED <<saved, settings, startVars, req, next, dropped, gone, sup>>

SaveSucceeds(c) ==
    /\ pc[c] = "save"
    /\ saved' = next[c]
    /\ Goto(c, "commit")
    /\ UNCHANGED <<settings, startVars, admission, persist, req, next, dropped, gone, sup>>

\* The admission token is kept until the supervisor has admitted the command.
AdmissionReleasedEarly(c) == ReleaseAdmission(c)
AdmissionHeld(c) == UNCHANGED admission

\* m.settings is replaced and the persist token released.
Commit(c) ==
    /\ pc[c] = "commit"
    /\ settings' = next[c]
    /\ persist' = TRUE
    /\ AdmissionHeld(c)
    /\ Goto(c, "send")
    /\ UNCHANGED <<saved, startVars, req, next, dropped, gone, sup>>

\* beginSupervisorCommand: the envelope enters the supervisor's channel.  Only a
\* call that was not persisted can still be canceled.
Send(c) ==
    LET p == req[c].plugin
    IN  /\ pc[c] = "send"
        /\ \/ /\ sup[p].mode # "closed"
              /\ ~Persistent(c) => c \notin gone
              /\ sup' = [sup EXCEPT ![p].inbox = Append(@, c)]
              /\ Goto(c, "sent")
              /\ UNCHANGED admission
           \/ /\ sup[p].mode = "closed" \/ (~Persistent(c) /\ c \in gone)
              /\ Return(c, IF c \in gone THEN "canceled" ELSE "closed")
              /\ ReleaseAdmission(c)
              /\ UNCHANGED sup
        /\ UNCHANGED <<saved, settings, startVars, persist, req, next, dropped, gone>>

\* finishManagerCommand: the call returns without the supervisor's reply.
GiveUp(c) ==
    /\ c \in gone
    /\ \/ pc[c] = "waiting" /\ UNCHANGED admission
       \/ pc[c] = "sent" /\ ~Persistent(c) /\ ReleaseAdmission(c)
    /\ Return(c, "canceled")
    /\ UNCHANGED <<saved, settings, startVars, persist, req, next, dropped, gone, sup>>

-----------------------------------------------------------------------------
(* The supervisor loop, as far as the manager can see it. *)

restOfSup == <<saved, settings, startVars, persist, req, next, gone>>

\* The loop answers the admission of call c, and its reply unless that is
\* still pending; a caller whose context has ended returns its error.
Admit(c, r) ==
    /\ ReleaseAdmission(c)
    /\ IF r = "pending" /\ c \notin gone THEN Goto(c, "waiting")
       ELSE Return(c, IF c \in gone THEN "canceled" ELSE r)

\* The loop takes call c from its channel.
Taken(p, c) ==
    /\ sup[p].mode \in {"open", "closing"}
    /\ sup[p].inbox # << >>
    /\ c = Head(sup[p].inbox)

Rest(p) == [sup[p] EXCEPT !.inbox = Tail(@)]

\* The prologue of handleCommand: a canceled command is only answered, and a
\* supervisor that is closing or stopping its session refuses.
Admissible(p, c) ==
    /\ pc[c] = "sent"
    /\ Persistent(c) \/ c \notin gone
    /\ sup[p].mode = "open" /\ sup[p].intent = "none"

Refuse(p, c) ==
    /\ Taken(p, c) /\ c # CloseCmd
    /\ ~Admissible(p, c)
    /\ sup' = [sup EXCEPT ![p] = Rest(p)]
    /\ IF pc[c] = "sent"
       THEN Admit(c, IF sup[p].mode = "closing" THEN "closed" ELSE "invalid_state")
       ELSE UNCHANGED <<admission, pc, result>>
    /\ dropped' = IF Persistent(c) THEN dropped \cup {c} ELSE dropped
    /\ UNCHANGED restOfSup

Accept(p, c, kinds) ==
    /\ Taken(p, c) /\ c # CloseCmd
    /\ Admissible(p, c)
    /\ req[c].kind \in kinds
    /\ UNCHANGED <<restOfSup, dropped>>

HandleEnable(p, c) ==
    /\ Accept(p, c, {"enable"})
    /\ sup' = [sup EXCEPT ![p] = IF sup[p].pref.enabled THEN Rest(p)
                                 ELSE Launched([Rest(p) EXCEPT !.pref.enabled = TRUE])]
    /\ Admit(c, "ok")

HandleDisable(p, c) ==
    /\ Accept(p, c, {"disable"})
    /\ sup' = [sup EXCEPT ![p] = [Rest(p) EXCEPT !.pref.enabled = FALSE,
                                                 !.intent = IF sup[p].live THEN "disable" ELSE "none"]]
    /\ Admit(c, IF sup[p].live THEN "pending" ELSE "ok")

HandleRestart(p, c) ==
    /\ Accept(p, c, {"restart"})
    /\ sup' = [sup EXCEPT ![p] = IF sup[p].live THEN [Rest(p) EXCEPT !.intent = "restart"]
                                 ELSE IF sup[p].pref.enabled THEN Launched(Rest(p)) ELSE Rest(p)]
    /\ Admit(c, IF sup[p].live THEN "pending" ELSE "ok")

\* The supervisor owns an admitted Config at once; its delivery to a live
\* session is answered later, or not queued at all (backpressure).
HandleConfig(p, c) ==
    /\ Accept(p, c, {"config"})
    /\ IF Refused(c, sup[p].pref)
       THEN sup' = [sup EXCEPT ![p] = Rest(p)] /\ Admit(c, "refused")
       ELSE /\ sup' = [sup EXCEPT ![p] = [Rest(p) EXCEPT !.pref = Updated(c, @)]]
            /\ \/ sup[p].live /\ (Admit(c, "pending") \/ Admit(c, "refused"))
               \/ ~sup[p].live /\ Admit(c, "ok")

HandleControl(p, c) ==
    /\ Accept(p, c, {"control"})
    /\ sup' = [sup EXCEPT ![p] = Rest(p)]
    /\ \/ sup[p].live /\ Admit(c, "pending")
       \/ Admit(c, "ok") \/ Admit(c, "refused")

\* The calls whose reply the end of a Stop completes.
StopOwners(p) == {c \in Call : /\ pc[c] = "waiting" /\ req[c].plugin = p
                               /\ req[c].kind \in {"disable", "restart"}}

\* The calls in W return r.
ReturnAll(W, r) ==
    /\ pc' = [c \in Call |-> IF c \in W THEN "done" ELSE pc[c]]
    /\ result' = [c \in Call |-> IF c \in W THEN r ELSE result[c]]

\* A Close ends at once without a session, and otherwise starts a Stop or takes
\* over the one in progress; a Restart that owned it is refused.
HandleClose(p) ==
    /\ Taken(p, CloseCmd)
    /\ sup[p].mode = "open"
    /\ LET off == [Rest(p) EXCEPT !.pref.enabled = FALSE]
       IN  sup' = [sup EXCEPT ![p] = IF sup[p].live
                                     THEN [off EXCEPT !.mode = "closing", !.intent = "close"]
                                     ELSE [off EXCEPT !.mode = "closed"]]
    /\ ReturnAll({c \in StopOwners(p) : req[c].kind = "restart"}, "invalid_state")
    /\ UNCHANGED <<restOfSup, dropped, admission>>

\* handleStopResult
StopDone(p, r) ==
    /\ sup[p].mode \in {"open", "closing"} /\ sup[p].intent # "none"
    /\ LET s == [sup[p] EXCEPT !.intent = "none", !.live = FALSE]
       IN  sup' = [sup EXCEPT ![p] = CASE sup[p].intent = "restart" -> Launched(s)
                                       [] sup[p].intent = "close" -> [s EXCEPT !.mode = "closed"]
                                       [] OTHER -> s]
    /\ ReturnAll(StopOwners(p), r)
    /\ UNCHANGED <<restOfSup, dropped, admission>>

\* A session fails; a later timer launches a replacement.
SessionLost(p) ==
    /\ sup[p].live /\ sup[p].intent = "none"
    /\ sup' = [sup EXCEPT ![p].live = FALSE]
    /\ UNCHANGED <<restOfSup, dropped, admission, pc, result>>

Relaunch(p) ==
    /\ sup[p].mode = "open" /\ sup[p].intent = "none"
    /\ sup[p].pref.enabled /\ ~sup[p].live
    /\ sup' = [sup EXCEPT ![p] = Launched(sup[p])]
    /\ UNCHANGED <<restOfSup, dropped, admission, pc, result>>

\* The delivery of a control to the session succeeds, fails or is retired.
Delivered(c, r) ==
    /\ pc[c] = "waiting" /\ req[c].kind \in {"config", "control"}
    /\ ReturnAll({c}, r)
    /\ UNCHANGED <<restOfSup, dropped, admission, sup>>

\* The loop is over: Command returns ErrManagerClosed.
LoopGone(c) ==
    /\ pc[c] \in {"sent", "waiting"}
    /\ sup[req[c].plugin].mode = "closed"
    /\ Return(c, IF c \in gone THEN "canceled" ELSE "closed")
    /\ IF pc[c] = "sent" THEN ReleaseAdmission(c) ELSE UNCHANGED admission
    /\ UNCHANGED <<restOfSup, dropped, sup>>

-----------------------------------------------------------------------------
StartStep ==
    \/ StartLoad \/ StartSave \/ StartCommit \/ StartRolledBack
    \/ \E p \in Plugin : StartCreate(p)

CloseStep == FinishCloseStops \/ FinishClose

CallStep(c) ==
    \/ AcquireAdmission(c) \/ AcquirePersist(c) \/ Update(c)
    \/ SaveFails(c) \/ SaveSucceeds(c) \/ Commit(c) \/ Send(c) \/ LoopGone(c)

SupervisorStep(p) ==
    \/ \E c \in Call : \/ Refuse(p, c) \/ HandleEnable(p, c) \/ HandleDisable(p, c)
                       \/ HandleRestart(p, c) \/ HandleConfig(p, c) \/ HandleControl(p, c)
    \/ HandleClose(p)
    \/ \E r \in {"ok", "failed"} : StopDone(p, r)

Next ==
    \/ StartBegin \/ StartAbort \/ StartStep
    \/ CloseBegin \/ CloseStep
    \/ \E c \in Call : CallStep(c) \/ CtxDone(c) \/ GiveUp(c)
    \/ \E c \in Call, r \in {"ok", "failed"} : Delivered(c, r)
    \/ \E c \in Call, r \in Request : Begin(c, r)
    \/ \E p \in Plugin : SupervisorStep(p) \/ SessionLost(p) \/ Relaunch(p)

Spec == Init /\ [][Next]_vars

-----------------------------------------------------------------------------
(* Properties. *)

TypeOK ==
    /\ saved \in Settings /\ settings \in Settings
    /\ lifecycle \in {"notStarted", "starting", "started", "closing", "closed"}
    /\ startDone \in BOOLEAN /\ registered \in BOOLEAN /\ persist \in BOOLEAN
    /\ starter.pc \in {"idle", "load", "save", "create", "rollback"}
    /\ starter.settings \in Settings
    /\ closer \in {"idle", "waitStart", "stopping", "done"}
    /\ admission \subseteq Plugin /\ gone \subseteq Call
    /\ sup \in [Plugin -> Supervisor]

\* Supervisors, and the plugin processes below them, exist only while Start is
\* creating or rolling them back, or while the manager that registered them is
\* open: neither a failed Start nor a Close that overtakes a Start leaves one.
NoOrphanSupervisor ==
    ~AllClosed => \/ starter.pc \in {"create", "rollback"} /\ lifecycle # "closed"
                  \/ lifecycle = "started"
                  \/ registered /\ closer \in {"waitStart", "stopping"}

\* An acknowledged UpdateConfig is on disk and owned by the supervisor, although
\* every Save writes the settings of all plugins.
AcknowledgedConfigKept ==
    \A c \in Call : req[c].kind = "config" /\ result[c] = "ok" =>
        /\ saved[req[c].plugin].config >= req[c].rev
        /\ sup[req[c].plugin].pref.config >= req[c].rev

\* The calls on plugin p that are between their Update and their admission.
Unadmitted(p) == {c \in Call : req[c].plugin = p /\ pc[c] \in {"save", "commit", "send", "sent"}}

\* The supervisor runs nothing that is not on disk, and once all calls on a
\* plugin are admitted and none was refused, it agrees with the saved preference:
\* commands are admitted in the order they were saved.
SupervisorFollowsStore ==
    lifecycle = "started" => \A p \in Plugin :
        /\ sup[p].pref.config <= saved[p].config
        /\ Unadmitted(p) = {} /\ (\A c \in dropped : req[c].plugin # p)
             => sup[p].pref = saved[p]

\* What is saved, what callers were told and what the supervisors run agree.
StoreAndSupervisorsAgree == TypeOK /\ AcknowledgedConfigKept /\ SupervisorFollowsStore

\* A step in which plugin p's supervisor launches a session.
Launches(p) == /\ sup'[p].live
               /\ ~sup[p].live \/ (sup[p].intent = "restart" /\ sup'[p].intent = "none")

\* A session never starts with a Config older than the saved one, unless the
\* call that saved it is still running (supervisor.go, handleControlCommand: a
\* Config is owned so that no "later session start with stale persisted state").
NoStaleStartup ==
    [][\A p \in Plugin :
         /\ Launches(p) /\ lifecycle = "started"
         /\ \A c \in Call : req[c].plugin = p /\ req[c].kind = "config" => pc[c] \in {"idle", "done"}
         => sup'[p].startup = saved[p].config]_vars

\* The calls that hold the admission token of plugin p.
Admitting(p) == {c \in Call : req[c].plugin = p /\ pc[c] \in {"persist", "update", "save", "commit", "send", "sent"}}

\* Nobody waits for somebody who is gone: a token that is taken has one holder,
\* a command that was sent is with a loop that will take it, a Stop that owes
\* replies is under way, a Close has reached every supervisor, and a Close that
\* waits for Start has a Start that runs.
NobodyWaitsInVain ==
    /\ Cardinality({c \in Call : pc[c] \in {"update", "save", "commit"}}) = IF persist THEN 0 ELSE 1
    /\ \A p \in Plugin : Cardinality(Admitting(p)) = IF p \in admission THEN 0 ELSE 1
    /\ \A c \in Call : LET s == sup[req[c].plugin]
                       IN  /\ pc[c] = "sent" => s.mode = "closed" \/ \E i \in DOMAIN s.inbox : s.inbox[i] = c
                           /\ pc[c] = "waiting" /\ req[c].kind \in {"disable", "restart"} =>
                                s.intent # "none" \/ s.mode = "closed"
    /\ closer = "stopping" /\ registered => \A p \in Plugin :
         \/ sup[p].mode \in {"closing", "closed"}
         \/ \E i \in DOMAIN sup[p].inbox : sup[p].inbox[i] = CloseCmd
    /\ closer = "waitStart" /\ ~startDone => starter.pc # "idle"

=============================================================================
