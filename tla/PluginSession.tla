---------------------------- MODULE PluginSession ----------------------------
\* One launch of a plugin as the host runs it: session.go with the handshake,
\* the serialized control writer and the process it owns.  The pipe to the
\* plugin is shared with PluginRuntime, which models the other end.
\*
\* Time is not modelled: a timer may expire at any moment, so a heartbeat only
\* delays what the watchdog may do anyway.  A control is its kind and its
\* revision; config data, frames and the wording of errors are left out.
EXTENDS PluginPipe, SequencesExt

CONSTANTS
    Call,             \* calls of Control, each made once
    Request,          \* the control each asks for: [Call -> [kind, value]]
    ControlCapacity   \* bound of the pending list and of the writer's queue

VARIABLES
    ses,      \* the session's own goroutine, phase, cancellation and causes
    pending,  \* controls waiting for the end of the handshake
    call,     \* callers of Control
    writer,   \* the serialized writer
    reader,   \* the runtime reader
    shut,     \* shutdownProcess and the acknowledgement it shares with the reader
    told      \* the newest state a successful Send has handed over

hostVars == <<ses, pending, call, writer, reader, shut, told>>

NoCall == "none"
Main == "main"

ASSUME CallAssumption == NoCall \notin Call /\ Main \notin Call
ASSUME RequestAssumption == Request \in [Call -> ControlRequest]
ASSUME ControlAssumption == ControlCapacity \in Nat \ {0}

\* Why a session ends, by what the classification of retryableSessionError and
\* the end of shutdownProcess tell apart: failures to retry, the end of the
\* stream, an orphaned process; a violation of the protocol and the other
\* errors that make the supervisor give up.
Cause == {"retry", "eof", "kill_timeout", "violation", "permanent"}

(***************************************************************************)
(* The control state: revisions and generations only grow.                 *)
(***************************************************************************)

Rises(state, r) ==
    IF r.kind = "active" THEN r.value # state.active ELSE r.value > state[r.kind]

Regresses(state, r) == r.kind # "active" /\ r.value < state[r.kind]

Applied(state, r) == [state EXCEPT ![r.kind] = r.value]

SessionInit ==
    /\ ses = [main |-> "launch", phase |-> "starting", cancelled |-> FALSE,
              inflight |-> NoCall, causes |-> {}]
    /\ pending = <<>>
    /\ call = [c \in Call |-> [at |-> "idle", answer |-> "none"]]
    /\ writer = [at |-> "off", queue |-> <<>>, accepting |-> FALSE, failed |-> FALSE,
                 taken |-> FALSE, current |-> NoCall, state |-> Startup]
    /\ reader = [at |-> "off", result |-> "none", cancelled |-> FALSE]
    /\ shut = [request |-> "none", state |-> "not_started", queued |-> FALSE, signal |-> FALSE,
               acked |-> FALSE, sent |-> FALSE, exited |-> FALSE]
    /\ told = Startup

Answer(c, answer) == [call EXCEPT ![c].at = "done", ![c].answer = answer]

AnswerAll(cs, answer) ==
    [c \in Call |-> IF c \in cs THEN [call[c] EXCEPT !.at = "done", !.answer = answer] ELSE call[c]]

(***************************************************************************)
(* The callers: Control, its context, and Stop.                            *)
(***************************************************************************)

\* Control: held until the handshake is over, passed to the writer once the
\* session is ready, refused when it is stopping or the list is full.
Control(c) ==
    /\ call[c].at = "idle"
    /\ LET next == CASE ses.phase \in {"starting", "replaying"} /\ Len(pending) < ControlCapacity -> "pending"
                     [] ses.phase = "ready" -> "calling"
                     [] OTHER -> "done"
       IN  /\ call' = [call EXCEPT ![c] = [at |-> next, answer |-> IF next = "done" THEN "refused" ELSE "none"]]
           /\ pending' = IF next = "pending" THEN Append(pending, c) ELSE pending
    /\ UNCHANGED <<ses, writer, reader, shut, told, proc, pipe>>

\* The caller's context ends while its control is still in the list.
RemovePendingControl(c) ==
    /\ call[c].at = "pending"
    /\ \E i \in DOMAIN pending : pending[i] = c /\ pending' = RemoveAt(pending, i)
    /\ call' = Answer(c, "refused")
    /\ UNCHANGED <<ses, writer, reader, shut, told, proc, pipe>>

\* Stop of an ended session changes nothing.
Stop ==
    /\ ~ses.cancelled /\ ses.phase # "ended"
    /\ ses' = [ses EXCEPT !.cancelled = TRUE, !.phase = "stopping"]
    /\ UNCHANGED <<pending, call, writer, reader, shut, told, proc, pipe>>

(***************************************************************************)
(* Launch and handshake.                                                   *)
(***************************************************************************)

\* Close of the host's end: what it has not read is lost.
Close(p) == [p EXCEPT !.host = "closed", !.up = <<>>]

\* run: the result is published, whatever is still pending is refused.
Ended(causes) == [ses EXCEPT !.main = "ended", !.phase = "ended", !.inflight = NoCall, !.causes = causes]

End(causes) ==
    /\ ses' = Ended(causes)
    /\ call' = AnswerAll(ToSet(pending), "refused")
    /\ pending' = <<>>

Launch ==
    /\ ses.main = "launch"
    /\ ~ses.cancelled
    /\ ses' = [ses EXCEPT !.main = "accept"]
    /\ proc' = [proc EXCEPT !.at = "alive"]
    /\ UNCHANGED <<pending, call, writer, reader, shut, told, pipe>>

\* Credentials, listener, environment, entrypoint or exec failed; a
\* cancellation by the owner is not an error.
LaunchFails ==
    /\ ses.main = "launch"
    /\ \E causes \in {{"retry"}, {"permanent"}} \cup (IF ses.cancelled THEN {{}} ELSE {}) : End(causes)
    /\ UNCHANGED <<writer, reader, shut, told, proc, pipe>>

Accept ==
    /\ ses.main = "accept"
    /\ pipe.plugin # "none"
    /\ pipe' = [pipe EXCEPT !.host = "open"]
    /\ ses' = [ses EXCEPT !.main = "hello"]
    /\ UNCHANGED <<pending, call, writer, reader, shut, told, proc>>

\* The causes a handshake step can fail with: its deadline, the owner's
\* cancellation (suppressed), the end of the stream, or what was received.
HandshakeFailure(expected) ==
    {{"retry"}}
      \cup (IF ses.cancelled THEN {{}} ELSE {})
      \cup (IF ses.main = "accept" THEN {}
            ELSE IF pipe.up = <<>> THEN IF pipe.plugin = "closed" THEN {{"retry"}} ELSE {}
            ELSE LET m == Head(pipe.up) IN
                 CASE m.type # expected -> {{"violation"}}
                   [] m.type = "hello" /\ m.value # "good" -> {{"permanent"}}
                   [] m.type = "hello" /\ m.value = "good" /\ pipe.plugin = "closed" -> {{"retry"}}
                   [] OTHER -> {})

\* The handshake fails and the child is killed; Kill of a process that is
\* already gone may itself fail.
StartupFails ==
    /\ ses.main \in {"accept", "hello", "ready"}
    /\ \E causes \in HandshakeFailure(ses.main), killErr \in {{}} \cup (IF proc.at = "exited" THEN {{"retry"}} ELSE {}) :
          ses' = [ses EXCEPT !.main = "cleanup", !.causes = causes \cup killErr]
    /\ UNCHANGED <<pending, call, writer, reader, shut, told, proc, pipe>>

\* cleanupStartedProcess waits for the exit, or gives up after KillTimeout; the
\* deferred calls close the listener and the connection.
CleanupStartedProcess ==
    /\ ses.main = "cleanup"
    /\ \E late \in {{}, {"kill_timeout"}} :
          /\ late = {} => proc.at = "exited"
          /\ End(ses.causes \cup late)
    /\ pipe' = Close(pipe)
    /\ UNCHANGED <<writer, reader, shut, told, proc>>

HelloReceived ==
    /\ ses.main = "hello"
    /\ pipe.up # <<>> /\ Head(pipe.up) = [type |-> "hello", value |-> "good"]
    /\ pipe.plugin = "open"
    /\ pipe' = [pipe EXCEPT !.up = Tail(@), !.down = Append(@, [type |-> "initialize", value |-> Startup])]
    /\ ses' = [ses EXCEPT !.main = "ready"]
    /\ UNCHANGED <<pending, call, writer, reader, shut, told, proc>>

\* Ready: the writer and the workers start.  A session that was stopped
\* meanwhile refuses what is pending instead of replaying it.
ReadyReceived ==
    /\ ses.main = "ready"
    /\ pipe.up # <<>> /\ Head(pipe.up).type = "ready"
    /\ pipe' = [pipe EXCEPT !.up = Tail(@)]
    /\ writer' = [writer EXCEPT !.at = "idle", !.accepting = TRUE]
    /\ reader' = [reader EXCEPT !.at = "receiving"]
    /\ ses' = [ses EXCEPT !.main = "replay", !.phase = IF @ = "starting" THEN "replaying" ELSE @]
    /\ IF ses.phase = "starting"
       THEN UNCHANGED <<pending, call>>
       ELSE call' = AnswerAll(ToSet(pending), "refused") /\ pending' = <<>>
    /\ UNCHANGED <<shut, told, proc>>

(***************************************************************************)
(* The serialized writer.                                                  *)
(***************************************************************************)

\* sessionWriter.Control puts the request in the queue or refuses it.
Enqueued(o) ==
    CASE ~writer.accepting -> "invalid"
      [] Len(writer.queue) >= ControlCapacity -> "backpressure"
      [] OTHER -> "queued"

\* A reply reaches the caller at once, except that a replayed control is
\* answered by the session's goroutine, which may have given up on it.
Replied(c, answer) ==
    CASE call[c].at = "done" -> call
      [] c = ses.inflight -> [call EXCEPT ![c].at = "replied", ![c].answer = answer]
      [] OTHER -> Answer(c, answer)

WriterControl(c) ==
    /\ call[c].at = "calling"
    /\ IF Enqueued(c) = "queued"
       THEN /\ writer' = [writer EXCEPT !.queue = Append(@, c)]
            /\ call' = [call EXCEPT ![c].at = "queued"]
       ELSE /\ call' = Replied(c, "refused")
            /\ UNCHANGED writer
    /\ UNCHANGED <<ses, pending, reader, shut, told, proc, pipe>>

\* The shutdown request of shutdownProcess or of stopWriter; its context may
\* have ended before it was queued.
WriterShutdown ==
    /\ shut.request = "calling"
    /\ \/ /\ Enqueued(Main) = "queued"
          /\ writer' = [writer EXCEPT !.queue = Append(@, Main), !.accepting = FALSE]
          /\ shut' = [shut EXCEPT !.request = "queued"]
       \/ /\ shut' = [shut EXCEPT !.request = IF Enqueued(Main) = "invalid" THEN "invalid" ELSE "failed"]
          /\ UNCHANGED writer
    /\ UNCHANGED <<ses, pending, call, reader, told, proc, pipe>>

\* Faulty variant: the send attempt is not noted.
WriterTakesQuietly ==
    /\ writer.at = "idle" /\ writer.queue # <<>>
    /\ LET o == Head(writer.queue)
           rest == [writer EXCEPT !.queue = Tail(@)]
       IN  IF o = Main
           THEN writer' = [rest EXCEPT !.at = "sending", !.current = o] /\ UNCHANGED call
           ELSE IF Rises(writer.state, Request[o])
                THEN writer' = [rest EXCEPT !.at = "sending", !.current = o, !.state = Applied(@, Request[o])] /\ UNCHANGED call
                ELSE writer' = rest /\ call' = Replied(o, IF Regresses(writer.state, Request[o]) THEN "refused" ELSE "ok")
    /\ UNCHANGED <<ses, pending, reader, shut, told, proc, pipe>>

\* The owner takes a request: a regression is refused, a repetition succeeds
\* without a message, anything else becomes the next message.
WriterTakes ==
    /\ writer.at = "idle" /\ writer.queue # <<>>
    /\ LET o == Head(writer.queue)
           rest == [writer EXCEPT !.queue = Tail(@)]
       IN  IF o = Main
           THEN /\ writer' = [rest EXCEPT !.at = "sending", !.current = o]
                /\ shut' = [shut EXCEPT !.state = IF ses.main = "stop_writer" THEN @ ELSE "sending"]
                /\ UNCHANGED call
           ELSE /\ UNCHANGED shut
                /\ IF Rises(writer.state, Request[o])
                   THEN /\ writer' = [rest EXCEPT !.at = "sending", !.current = o,
                                                  !.state = Applied(@, Request[o])]
                        /\ UNCHANGED call
                   ELSE /\ writer' = rest
                        /\ call' = Replied(o, IF Regresses(writer.state, Request[o]) THEN "refused" ELSE "ok")
    /\ UNCHANGED <<ses, pending, reader, told, proc, pipe>>

\* The reply to the current request, and to those in the queue when the writer
\* stops: stopAndRejectQueued.
Stops(o, answer, failed) ==
    /\ writer' = [writer EXCEPT !.at = "stopped", !.queue = <<>>, !.accepting = FALSE,
                                !.failed = failed, !.current = NoCall]
    /\ LET queued == ToSet(writer.queue) \ {Main}
           all == IF o = Main THEN queued ELSE queued \cup {o}
       IN  call' = [c \in Call |->
                      IF c \notin all \/ call[c].at = "done" THEN call[c]
                      ELSE [call[c] EXCEPT !.at = IF c = ses.inflight THEN "replied" ELSE "done",
                                           !.answer = IF c = o THEN answer ELSE "refused"]]
    /\ shut' = [shut EXCEPT !.request = IF o = Main THEN answer
                                        ELSE IF Main \in ToSet(writer.queue) THEN "invalid" ELSE @]

Message(o) ==
    IF o = Main THEN [type |-> "shutdown", value |-> 0]
    ELSE [type |-> Request[o].kind, value |-> Request[o].value]

WriterSends ==
    /\ writer.at = "sending"
    /\ pipe.host = "open" /\ pipe.plugin = "open" /\ Len(pipe.down) < PipeCapacity
    /\ pipe' = [pipe EXCEPT !.down = Append(@, Message(writer.current))]
    /\ IF writer.current = Main
       THEN Stops(Main, "ok", FALSE) /\ UNCHANGED told
       ELSE /\ call' = Replied(writer.current, "ok")
            /\ told' = Applied(told, Request[writer.current])
            /\ writer' = [writer EXCEPT !.at = "idle", !.current = NoCall]
            /\ UNCHANGED shut
    /\ UNCHANGED <<ses, pending, reader, proc>>

WriterFails ==
    /\ writer.at = "sending"
    /\ pipe.host = "closed" \/ pipe.plugin = "closed"
    /\ Stops(writer.current, IF writer.current = Main THEN "failed" ELSE "refused", TRUE)
    /\ UNCHANGED <<ses, pending, reader, told, proc, pipe>>

(***************************************************************************)
(* The reader.                                                             *)
(***************************************************************************)

Signalled(s) == [s EXCEPT !.signal = TRUE]

ReaderEnds(result) == reader' = [reader EXCEPT !.at = "done", !.result = result]

ReaderReceives ==
    /\ reader.at = "receiving"
    /\ pipe.host = "open"
    /\ pipe.up # <<>>
    /\ LET m == Head(pipe.up).type IN
       \/ m \in {"heartbeat", "status"} /\ UNCHANGED <<reader, shut>>
       \/ m = "frame" /\ reader' = [reader EXCEPT !.at = "submit"] /\ UNCHANGED shut
       \/ m = "error" /\ ReaderEnds("retry") /\ UNCHANGED shut
       \/ m \in {"hello", "ready", "torn"} /\ ReaderEnds("violation") /\ UNCHANGED shut
       \/ /\ m = "ack"
          /\ CASE shut.state = "not_started" -> ReaderEnds("violation") /\ UNCHANGED shut
               [] shut.state = "sending" -> reader' = [reader EXCEPT !.at = "queue_ack"] /\ UNCHANGED shut
               [] shut.state = "complete" -> shut' = Signalled(shut) /\ UNCHANGED reader
    /\ pipe' = [pipe EXCEPT !.up = Tail(@)]
    /\ UNCHANGED <<ses, pending, call, writer, told, proc>>

\* frameSink.Submit: the reader may still hold a frame when the session is over.
Submit ==
    /\ reader.at = "submit"
    /\ reader' = [reader EXCEPT !.at = "receiving"]
    /\ UNCHANGED <<ses, pending, call, writer, shut, told, proc, pipe>>

\* An acknowledgement that overtakes the end of Send: store, then look again.
QueueAck ==
    /\ reader.at = "queue_ack"
    /\ shut' = [shut EXCEPT !.queued = TRUE]
    /\ reader' = [reader EXCEPT !.at = "check_ack"]
    /\ UNCHANGED <<ses, pending, call, writer, told, proc, pipe>>

CheckAck ==
    /\ reader.at = "check_ack"
    /\ shut' = IF shut.state = "complete" THEN Signalled(shut) ELSE shut
    /\ reader' = [reader EXCEPT !.at = "receiving"]
    /\ UNCHANGED <<ses, pending, call, writer, told, proc, pipe>>

ReaderFails ==
    /\ reader.at = "receiving"
    /\ \/ reader.cancelled /\ ReaderEnds("nil")
       \/ ~reader.cancelled /\ pipe.host = "closed" /\ ReaderEnds("retry")
       \/ ~reader.cancelled /\ pipe.host = "open" /\ pipe.plugin = "closed" /\ pipe.up = <<>> /\ ReaderEnds("eof")
    /\ UNCHANGED <<ses, pending, call, writer, shut, told, proc, pipe>>

(***************************************************************************)
(* Replay of the pending controls.                                         *)
(***************************************************************************)

ReaderResult == IF reader.result \in {"none", "nil", "taken"} THEN {} ELSE {reader.result}
TakeReader == [reader EXCEPT !.result = "taken"]
ReaderReady == reader.at = "done" /\ reader.result # "taken"
WriterReady == writer.at = "stopped" /\ ~writer.taken
WriterCause == IF writer.failed THEN {"retry"} ELSE {"violation"}
Exited == proc.at = "exited"

\* watchHeartbeat: its timer may have expired whenever the session looks, and
\* its result stays until it is read.
HeartbeatTimeout == TRUE

BeginShutdown(causes) ==
    /\ ses' = [ses EXCEPT !.main = "shutdown", !.causes = @ \cup causes]
    /\ shut' = [shut EXCEPT !.request = "calling"]

\* The next pending control, or Ready, or a stop that came in between.
ReplayPendingControls ==
    /\ ses.main = "replay"
    /\ CASE ses.phase # "replaying" ->
              /\ BeginShutdown({})
              /\ call' = AnswerAll(ToSet(pending), "refused")
              /\ pending' = <<>>
         [] ses.phase = "replaying" /\ pending = <<>> ->
              /\ ses' = [ses EXCEPT !.main = "runtime", !.phase = "ready"]
              /\ UNCHANGED <<shut, call, pending>>
         [] OTHER ->
              /\ ses' = [ses EXCEPT !.main = "replaying", !.inflight = Head(pending)]
              /\ call' = [call EXCEPT ![Head(pending)].at = "calling"]
              /\ pending' = Tail(pending)
              /\ UNCHANGED shut
    /\ UNCHANGED <<writer, reader, told, proc, pipe>>

\* beginReplayStop and the way to shutdownProcess.
ReplayStops(causes, cs) ==
    /\ ses' = [ses EXCEPT !.main = "shutdown", !.phase = "stopping", !.causes = @ \cup causes,
                          !.inflight = IF cs = {} THEN @ ELSE NoCall]
    /\ shut' = [shut EXCEPT !.request = "calling"]
    /\ call' = [c \in Call |-> IF c \in cs THEN [call[c] EXCEPT !.at = "done"]
                               ELSE IF c \in ToSet(pending) THEN [call[c] EXCEPT !.at = "done", !.answer = "refused"]
                               ELSE call[c]]
    /\ pending' = <<>>

ReplayAnswered ==
    /\ ses.main = "replaying"
    /\ call[ses.inflight].at = "replied"
    /\ IF writer.failed
       THEN ReplayStops({"retry"}, {ses.inflight})
       ELSE /\ call' = [call EXCEPT ![ses.inflight].at = "done"]
            /\ ses' = [ses EXCEPT !.main = "replay", !.inflight = NoCall]
            /\ UNCHANGED <<shut, pending>>
    /\ UNCHANGED <<writer, reader, told, proc, pipe>>

\* The process exits during the replay: the connection is closed at once and
\* nothing tells the writer.
ReplayExit ==
    /\ ses.main = "replaying" /\ Exited
    /\ ses' = [ses EXCEPT !.main = "complete", !.phase = "stopping", !.causes = @ \cup {"retry"}]
    /\ call' = AnswerAll(ToSet(pending), "refused")
    /\ pending' = <<>>
    /\ pipe' = Close(pipe)
    /\ UNCHANGED <<writer, reader, shut, told, proc>>

ReplayInterrupted ==
    /\ ses.main = "replaying"
    /\ \/ ReaderReady /\ ReplayStops(ReaderResult, {}) /\ reader' = TakeReader /\ UNCHANGED writer
       \/ WriterReady /\ ReplayStops(WriterCause, {}) /\ writer' = [writer EXCEPT !.taken = TRUE] /\ UNCHANGED reader
       \/ HeartbeatTimeout /\ ReplayStops({"retry"}, {}) /\ UNCHANGED <<reader, writer>>
       \/ ses.cancelled /\ ReplayStops({}, {}) /\ UNCHANGED <<reader, writer>>
    /\ UNCHANGED <<told, proc, pipe>>

\* Faulty variant: a replayed control that was not answered in time counts as done.
CompleteReplayControlOk ==
    /\ ses.main = "complete"
    /\ call[ses.inflight].at \in {"queued", "replied"}
    /\ call' = Answer(ses.inflight, "ok")
    /\ ses' = Ended(ses.causes)
    /\ reader' = [reader EXCEPT !.cancelled = TRUE]
    /\ UNCHANGED <<pending, writer, shut, told, proc, pipe>>

\* completeReplayControl: the writer's answer, or none within KillTimeout.
CompleteReplayControl ==
    /\ ses.main = "complete"
    /\ call[ses.inflight].at \in {"queued", "replied"}
    /\ \E answer \in {"refused"} \cup (IF call[ses.inflight].at = "replied" THEN {call[ses.inflight].answer} ELSE {}) :
          call' = Answer(ses.inflight, answer)
    /\ ses' = Ended(ses.causes)
    /\ reader' = [reader EXCEPT !.cancelled = TRUE]
    /\ UNCHANGED <<pending, writer, shut, told, proc, pipe>>

(***************************************************************************)
(* runRuntime, and the two ways out of it.                                 *)
(***************************************************************************)

RuntimeEnds ==
    /\ ses.main = "runtime"
    /\ \/ /\ ReaderReady
          /\ BeginShutdown(IF ReaderResult = {} THEN {"violation"} ELSE ReaderResult)
          /\ reader' = TakeReader /\ UNCHANGED writer
       \/ WriterReady /\ BeginShutdown(WriterCause) /\ writer' = [writer EXCEPT !.taken = TRUE] /\ UNCHANGED reader
       \/ HeartbeatTimeout /\ BeginShutdown({"retry"}) /\ UNCHANGED <<reader, writer>>
       \/ ses.cancelled /\ BeginShutdown({}) /\ UNCHANGED <<reader, writer>>
       \/ Exited /\ ses.phase = "stopping" /\ BeginShutdown({}) /\ UNCHANGED <<reader, writer>>
    /\ UNCHANGED <<pending, call, told, proc, pipe>>

\* finishAfterProcessExit: drain the reader for a moment, close the connection,
\* stop the writer, then wait for the reader once more.
RuntimeExit ==
    /\ ses.main = "runtime" /\ Exited /\ ses.phase # "stopping"
    /\ ses' = [ses EXCEPT !.main = "drain", !.causes = @ \cup {"retry"} \cup IF writer.failed THEN {"retry"} ELSE {}]
    /\ UNCHANGED <<pending, call, writer, reader, shut, told, proc, pipe>>

DrainReader ==
    /\ ses.main = "drain"
    /\ reader' = [IF ReaderReady THEN TakeReader ELSE reader EXCEPT !.cancelled = TRUE]
    /\ ses' = [ses EXCEPT !.main = "stop_writer", !.causes = @ \cup IF ReaderReady THEN ReaderResult ELSE {}]
    /\ shut' = [shut EXCEPT !.request = "calling"]
    /\ pipe' = Close(pipe)
    /\ UNCHANGED <<pending, call, writer, told, proc>>

StopWriter ==
    /\ ses.main = "stop_writer"
    /\ shut.request \in {"ok", "failed", "invalid"}
    /\ \E late \in SUBSET (ReaderResult \cup IF writer.failed /\ proc.bad THEN {"retry"} ELSE {}) :
          End(ses.causes \cup late)
    /\ UNCHANGED <<writer, reader, shut, told, proc, pipe>>

\* shutdownProcess waits for the acknowledgement, the exit and its own Send.
ShutdownSent ==
    /\ ses.main = "shutdown"
    /\ shut.request \in {"ok", "failed", "invalid"}
    /\ shut' = [shut EXCEPT !.request = "none",
                            !.sent = shut.request = "ok",
                            !.state = IF shut.request = "ok" THEN "complete" ELSE @,
                            !.signal = @ \/ (shut.request = "ok" /\ shut.queued)]
    /\ ses' = [ses EXCEPT !.causes = @ \cup IF shut.request = "failed" \/ (shut.request = "invalid" /\ writer.failed)
                                            THEN {"retry"} ELSE {}]
    /\ UNCHANGED <<pending, call, writer, reader, told, proc, pipe>>

ShutdownWaits ==
    /\ ses.main = "shutdown"
    /\ \/ /\ shut.signal
          /\ shut' = [shut EXCEPT !.acked = TRUE, !.signal = FALSE]
          /\ UNCHANGED <<ses, reader, writer>>
       \/ /\ Exited /\ ~shut.exited
          /\ shut' = [shut EXCEPT !.exited = TRUE]
          /\ ses' = [ses EXCEPT !.causes = @ \cup IF proc.bad THEN {"retry"} ELSE {}]
          /\ UNCHANGED <<reader, writer>>
       \/ /\ ReaderReady
          /\ ses' = [ses EXCEPT !.causes = @ \cup ReaderResult]
          /\ reader' = TakeReader /\ UNCHANGED <<shut, writer>>
       \/ /\ WriterReady
          /\ ses' = [ses EXCEPT !.causes = @ \cup IF writer.failed THEN {"retry"} ELSE {}]
          /\ writer' = [writer EXCEPT !.taken = TRUE] /\ UNCHANGED <<shut, reader>>
    /\ UNCHANGED <<pending, call, told, proc, pipe>>

\* After a clean shutdown the end of the stream is what the host expects.
Finish(causes) ==
    IF ses.inflight = NoCall
    THEN End(causes)
    ELSE /\ ses' = [ses EXCEPT !.main = "complete", !.causes = causes]
         /\ UNCHANGED <<call, pending>>

ShutdownDone ==
    /\ ses.main = "shutdown"
    /\ shut.acked /\ shut.sent /\ shut.exited
    /\ Finish(ses.causes \ {"eof"})
    /\ reader' = [reader EXCEPT !.cancelled = TRUE]
    /\ pipe' = Close(pipe)
    /\ UNCHANGED <<writer, shut, told, proc>>

\* Faulty variant: no timer around the shutdown.
NoGracefulTimeout == FALSE

\* GracefulTimeout: the reader is cancelled and the connection closed, what the
\* reader still reports is kept, and a process that has not exited is killed.
\* The rest of shut is not read again.
GracefulTimeout ==
    /\ ses.main = "shutdown"
    /\ ~(shut.acked /\ shut.sent /\ shut.exited)
    /\ \E late \in {{}, ReaderResult}, killErr \in {{}} \cup (IF Exited THEN {{"retry"}} ELSE {}) :
          LET causes == ses.causes \cup {"retry"} \cup late IN
          IF shut.exited
          THEN Finish(causes)
          ELSE /\ ses' = [ses EXCEPT !.main = "kill", !.causes = causes \cup killErr]
               /\ UNCHANGED <<call, pending>>
    /\ reader' = [reader EXCEPT !.cancelled = TRUE, !.result = IF @ = "none" THEN @ ELSE "taken"]
    /\ shut' = [shut EXCEPT !.request = IF @ \in {"ok", "failed", "invalid"} THEN "none" ELSE @,
                            !.state = "not_started", !.queued = FALSE, !.signal = FALSE,
                            !.acked = FALSE, !.sent = FALSE, !.exited = FALSE]
    /\ pipe' = Close(pipe)
    /\ UNCHANGED <<writer, told, proc>>

\* Faulty variant: the timeout is not reported.
KillTimeoutSilent ==
    /\ ses.main = "kill"
    /\ Finish(ses.causes)
    /\ UNCHANGED <<writer, reader, shut, told, proc, pipe>>

KillTimeout ==
    /\ ses.main = "kill"
    /\ \E late \in {{}, {"kill_timeout"}} :
          /\ late = {} => Exited
          /\ Finish(ses.causes \cup late)
    /\ UNCHANGED <<writer, reader, shut, told, proc, pipe>>

SessionMain ==
    \/ Launch \/ LaunchFails \/ Accept \/ StartupFails \/ CleanupStartedProcess
    \/ HelloReceived \/ ReadyReceived
    \/ ReplayPendingControls \/ ReplayAnswered \/ ReplayExit \/ ReplayInterrupted \/ CompleteReplayControl
    \/ RuntimeEnds \/ RuntimeExit \/ DrainReader \/ StopWriter
    \/ ShutdownSent \/ ShutdownWaits \/ ShutdownDone \/ GracefulTimeout \/ KillTimeout

SessionWriter == (\E c \in Call : WriterControl(c)) \/ WriterShutdown \/ WriterTakes \/ WriterSends \/ WriterFails

SessionReader == ReaderReceives \/ Submit \/ QueueAck \/ CheckAck \/ ReaderFails

Callers == (\E c \in Call : Control(c) \/ RemovePendingControl(c)) \/ Stop

SessionNext == SessionMain \/ SessionWriter \/ SessionReader \/ Callers

=============================================================================
