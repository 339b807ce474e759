----------------------------- MODULE PluginLink -----------------------------
\* A session of the host and the runtime of its plugin, joined by the pipe and
\* the process: every interleaving of their goroutines, with crashes of the
\* plugin at any point, hung drivers and timers that expire at any moment.
EXTENDS PluginSession, PluginRuntime

CONSTANT MaxActivity   \* bound on controls and publications together

vars == <<hostVars, runtimeVars, proc, pipe>>

Init == PipeInit /\ SessionInit /\ RuntimeInit

\* The operating system ends the process; in the middle of a Send that leaves a
\* truncated frame in the pipe.
ProcessDies(torn) ==
    /\ proc.at = "alive"
    /\ torn => pipe.plugin = "open" /\ worker["writer"].at \in Outbound
    /\ proc' = [proc EXCEPT !.at = "exited", !.bad = TRUE]
    /\ pipe' = IF torn THEN TornUp ELSE HungUp
    /\ Gone
    /\ UNCHANGED hostVars

\* The bound on a behaviour's activity: controls asked for and publications.
Activity == published + Cardinality({c \in Call : call[c].at # "idle"})

\* A killed process runs no more of its code, and it is not followed once its
\* session has stopped waiting for it.
Unwatched == ses.main \in {"complete", "ended"}
Killed == Unwatched \/ ses.main \in {"cleanup", "kill"}

Host(step) == step /\ IF Killed' /\ ~Killed THEN Gone ELSE UNCHANGED runtimeVars

Next ==
    /\ \/ Host(SessionNext)
       \/ ~Killed /\ RuntimeNext /\ UNCHANGED hostVars
       \/ ~Unwatched /\ \E torn \in BOOLEAN : ProcessDies(torn)
    /\ Activity' <= MaxActivity

Spec == Init /\ [][Next]_vars

\* While a goroutine of the host can run or a timer of it can expire, one does.
\* Nothing is assumed of the plugin, which may hang or be killed in vain.
FairSpec == Spec /\ WF_vars(Host(SessionMain \/ SessionWriter \/ SessionReader))

(***************************************************************************)
(* Properties.                                                             *)
(***************************************************************************)

Place == {"none", "open", "closed"}

\* Every variable holds what its component keeps in it, and the queues respect
\* their capacities (session.go processSession, runtime.go runtimeHost).
TypeOK ==
    /\ ses.main \in {"launch", "accept", "hello", "ready", "cleanup", "replay", "replaying", "complete",
                     "runtime", "drain", "stop_writer", "shutdown", "kill", "ended"}
    /\ ses.phase \in {"starting", "replaying", "ready", "stopping", "ended"}
    /\ ses.causes \subseteq Cause
    /\ Len(pending) <= ControlCapacity /\ ToSet(pending) \subseteq Call
    /\ \A c \in Call : call[c].at \in {"idle", "pending", "calling", "queued", "replied", "done"}
    /\ Len(writer.queue) <= ControlCapacity /\ ToSet(writer.queue) \subseteq Call \cup {Main}
    /\ {told, writer.state, host.state} \subseteq ControlState
    /\ {pipe.host, pipe.plugin} \subseteq Place
    /\ host.events \in 0 .. EventCapacity
    /\ published \in 0 .. MaxPublish

\* The last of the messages that sets one part of the state, or what was before.
Latest(messages, kind, before) ==
    LET of == {i \in DOMAIN messages : messages[i].type = kind}
    IN  IF of = {} THEN before ELSE messages[Max(of)].value

\* What the plugin has of one part of the state once it has read all.
InFlight(kind) == Latest(pipe.down, kind, host.state[kind])

\* No update is missed, doubled or reordered: as long as the plugin reads, what
\* it has and what is in flight are exactly what the host has handed over
\* (session.go replayPendingControls, control.go run, runtime.go readControls).
NoMissedUpdate ==
    worker["reader"].at = "running" /\ pipe.plugin = "open" /\ Alive => \A kind \in Kind : InFlight(kind) = told[kind]

\* A plugin that uses the runtime is not blamed: the session ends with a
\* protocol violation only after a message was cut short (session.go
\* readRuntime, the acknowledgement before, during and after Send).
HonestPluginNotBlamed == "violation" \in ses.causes => pipe.torn

\* An acknowledgement read while Shutdown was being sent is not lost between
\* the two atomics (session.go readRuntime and shutdownProcess).
AckNotLost ==
    shut.state = "complete" /\ shut.queued => shut.signal \/ shut.acked \/ reader.at = "check_ack"

\* After a session that ended without an error no frame of it can reach the
\* tracking service any more, although nobody waits for the reader.
CleanEndIsQuiet ==
    ses.main = "ended" /\ ses.causes = {} => reader.at # "submit"

\* The process never outlives its session unseen: it has exited, or the result
\* says that killing it timed out (session.go shutdownProcess, cleanupStartedProcess).
NoUnseenOrphan ==
    ses.main = "ended" /\ proc.at = "alive" => "kill_timeout" \in ses.causes

\* A frame that waits to be sent belongs to the subscription in force
\* (runtime.go applySubscription, applyActive; frame.go ClearBefore).
FrameOfSubscription ==
    slot.pending => slot.value = host.state.generation /\ host.state.active

\* A frame or a status that waits has its wakeup, whatever cleared or
\* replaced it before (frame.go Store and Load, runtime.go loadStatus).
NoLostWakeup ==
    (slot.pending => slot.wake) /\ (status.pending => status.wake)

\* What the runtime holds back for its writer is current, and will be sent.
PublicationsFlow == TypeOK /\ FrameOfSubscription /\ NoLostWakeup

\* The shutdown handshake neither loses an acknowledgement nor blames for one.
HandshakeIsFair == HonestPluginNotBlamed /\ AckNotLost

\* What a session leaves behind is in its result: frames only after an error,
\* a process only after a kill that timed out.
EndIsAccounted == CleanEndIsQuiet /\ NoUnseenOrphan

\* Stop ends the session and answers every caller, even if the plugin never
\* reads, never acknowledges and survives being killed.
StopEnds ==
    ses.cancelled ~> ses.main = "ended" /\ \A c \in Call : call[c].at \in {"idle", "done"}

\* The session is an implementation of what the supervisor relies on.
Stage == IF ses.main = "ended" THEN "ended" ELSE IF ses.cancelled THEN "stopping" ELSE "open"

Heard(c) ==
    CASE call[c].at = "idle" -> "idle"
      [] call[c].at = "done" -> call[c].answer
      [] call[c].at = "replied" /\ call[c].answer = "ok" -> "told"
      [] OTHER -> "waiting"

Contract == INSTANCE SessionContract WITH stage <- Stage, call <- [c \in Call |-> Heard(c)]

ImplementsContract == Contract!ContractSpec

=============================================================================
