--------------------------- MODULE PluginLinkProofs ---------------------------
(***************************************************************************)
(* Proofs about PluginLink: the host's session with its writer, reader and *)
(* callers, the pipe, and the plugin's runtime with its workers, for any   *)
(* set of calls, requests, capacities and startup state.                   *)
(*                                                                         *)
(* The invariant has the types, what each phase of the session and of the  *)
(* runtime has done by then, where each control and each message is, and   *)
(* what the end of either side still owes.  From it follow the run's       *)
(* invariants and the refinement of SessionContract.                       *)
(***************************************************************************)
EXTENDS PluginLink, FiniteSetTheorems, SequenceTheorems, WellFoundedInduction, TLAPS

-----------------------------------------------------------------------------
(* The invariant. *)

Mains ==
    {"launch", "accept", "hello", "ready", "cleanup", "replay", "replaying", "complete",
     "runtime", "drain", "stop_writer", "shutdown", "kill", "ended"}
Phases == {"starting", "replaying", "ready", "stopping", "ended"}

Sessions ==
    [main : Mains, phase : Phases, cancelled : BOOLEAN, inflight : Call \cup {NoCall}, causes : SUBSET Cause]
Callers_ == [at : {"idle", "pending", "calling", "queued", "replied", "done"}, answer : {"none", "ok", "refused"}]
Owners == Call \cup {Main}
Writers ==
    [at : {"off", "idle", "sending", "stopped"}, queue : Seq(Owners), accepting : BOOLEAN, failed : BOOLEAN,
     taken : BOOLEAN, current : Owners \cup {NoCall}, state : ControlState]
Readers ==
    [at : {"off", "receiving", "submit", "queue_ack", "check_ack", "done"},
     result : {"none", "nil", "taken", "retry", "violation", "eof"}, cancelled : BOOLEAN]
Shutdowns ==
    [request : {"none", "calling", "queued", "ok", "failed", "invalid"}, state : {"not_started", "sending", "complete"},
     queued : BOOLEAN, signal : BOOLEAN, acked : BOOLEAN, sent : BOOLEAN, exited : BOOLEAN]

Down ==
    [type : {"initialize"}, value : ControlState] \cup [type : {"config", "generation"}, value : Nat]
      \cup [type : {"active"}, value : BOOLEAN] \cup [type : {"shutdown"}, value : {0}]
Up ==
    [type : {"hello"}, value : HelloValue]
      \cup [type : {"ready", "torn", "frame", "status", "heartbeat", "error", "ack"}, value : {0}]
Pipes == [host : Place, plugin : Place, down : Seq(Down), up : Seq(Up), torn : BOOLEAN]

Runs ==
    [at : {"connect", "hello", "initialize", "ready", "run", "collect", "finish", "acknowledge", "return", "exited"},
     cancelled : BOOLEAN, recorded : SUBSET Worker, bad : BOOLEAN]
Hosts == [state : ControlState, events : 0 .. EventCapacity, accepted : BOOLEAN]
Slots == [pending : BOOLEAN, wake : BOOLEAN, value : Nat]
Workers ==
    [at : {"off", "running", "frame", "status", "heartbeat", "done"},
     result : {"none", "nil", "accepted", "error", "error_accepted", "shutdown", "regression", "cancelled"}]

HostTypes ==
    /\ ses \in Sessions
    /\ pending \in Seq(Call) /\ Len(pending) <= ControlCapacity
    /\ call \in [Call -> Callers_]
    /\ writer \in Writers /\ Len(writer.queue) <= ControlCapacity
    /\ reader \in Readers
    /\ shut \in Shutdowns
    /\ told \in ControlState

PipeTypes == proc \in [at : {"none", "alive", "exited"}, bad : BOOLEAN] /\ pipe \in Pipes

RuntimeTypes ==
    /\ run \in Runs
    /\ host \in Hosts
    /\ slot \in Slots /\ status \in Slots
    /\ worker \in [Worker -> Workers]
    /\ published \in 0 .. MaxPublish

Types == HostTypes /\ PipeTypes /\ RuntimeTypes

\* The messages of the handshake, which come first and once.
HandshakeType == {"hello", "ready"}
Later == {"run", "collect", "finish", "acknowledge", "return", "exited"}

Started_ ==
    /\ \A i \in DOMAIN pipe.down : pipe.down[i].type # "initialize"
    /\ run.at \in Later

NoHandshake(messages) == \A i \in DOMAIN messages : messages[i].type \notin HandshakeType

\* Before the host has read Hello.
Unmet ==
    /\ pipe.down = <<>>
    /\ \/ run.at \in {"connect", "hello", "exited"} /\ pipe.up = <<>>
       \/ run.at \in {"initialize", "exited"} /\ pipe.up # <<>> /\ Head(pipe.up).type = "hello" /\ Tail(pipe.up) = <<>>

\* Initialize is on its way, or read, or answered.
Initializing ==
    \/ /\ pipe.up = <<>>
       /\ \/ run.at = "initialize" /\ pipe.down = <<[type |-> "initialize", value |-> Startup]>>
          \/ run.at = "ready" /\ pipe.down = <<>> /\ host.state = Startup
          \/ run.at = "exited" /\ pipe.down = <<>>
    \/ /\ pipe.down = <<>> /\ run.at \in Later
       /\ pipe.up # <<>> /\ Head(pipe.up).type = "ready" /\ NoHandshake(Tail(pipe.up))

\* The handshake, as the two ends go through it.
Handshake ==
    /\ ses.main = "launch" => proc.at = "none" /\ pipe.host = "none" /\ pipe.plugin = "none" /\ pipe.up = <<>> /\ Unmet
    /\ ses.main = "accept" => pipe.host = "none" /\ Unmet
    /\ ses.main = "hello" => pipe.host = "open" /\ Unmet
    /\ ses.main = "ready" => pipe.host = "open" /\ Initializing
    /\ writer.at # "off" => Started_ /\ NoHandshake(pipe.up)
    /\ Killed => run.at = "exited"
    /\ proc.at # "alive" => pipe.plugin # "open"
    /\ run.at = "exited" => Killed \/ proc.at = "exited"

\* Only a run has workers, and none when it is over.
WorkersRun ==
    (\E w \in Worker : worker[w].at # "off") => run.at \in {"run", "collect", "finish", "acknowledge"}

WriterOff ==
    [at |-> "off", queue |-> <<>>, accepting |-> FALSE, failed |-> FALSE, taken |-> FALSE, current |-> NoCall, state |-> Startup]
ReaderOff == [at |-> "off", result |-> "none", cancelled |-> FALSE]
ShutOff ==
    [request |-> "none", state |-> "not_started", queued |-> FALSE, signal |-> FALSE, acked |-> FALSE, sent |-> FALSE, exited |-> FALSE]

\* The shutdown has not begun.
Unasked ==
    /\ shut = ShutOff /\ ~reader.cancelled /\ reader.at \notin {"queue_ack", "check_ack"}
    /\ writer.current # Main /\ \A i \in DOMAIN writer.queue : writer.queue[i] # Main
    /\ writer.at = "stopped" => writer.failed

\* What a session has not started is as it was, and it is not stopped before
\* it is asked for.
Opening ==
    /\ writer.at = "off" <=> ses.main \in {"launch", "accept", "hello", "ready", "cleanup"} \/ (ses.main = "ended" /\ reader.at = "off")
    /\ writer.at = "off" => writer = WriterOff /\ reader = ReaderOff /\ shut = ShutOff /\ told = Startup
    /\ ses.main \in {"replay", "replaying", "runtime", "drain"} => Unasked
    /\ reader.at = "off" => writer.at = "off"

\* Which calls the session and the writer still answer.
PendingCalls == IsInjective(pending) /\ \A i \in DOMAIN pending : call[pending[i]].at = "pending"

Queued(o) == \E i \in DOMAIN writer.queue : writer.queue[i] = o

WriterCalls ==
    /\ IsInjective(writer.queue) /\ ~Queued(writer.current)
    /\ writer.accepting => writer.current # Main /\ ~Queued(Main)
    /\ \A c \in Call : c = writer.current \/ Queued(c) => call[c].at = "queued" \/ (call[c].at = "done" /\ ses.main = "ended")

ReplayedCall ==
    /\ ses.main \in {"replaying", "complete"} => ses.inflight \in Call
    /\ ses.inflight \in Call => call[ses.inflight].at \in {"calling", "queued", "replied"}

AnsweredCalls == \A c \in Call : call[c].at \in {"replied", "done"} <=> call[c].answer # "none"

Calls == PendingCalls /\ WriterCalls /\ ReplayedCall /\ AnsweredCalls

\* The writer keeps the state that it has handed over, or is about to.
WriterKeeps ==
    /\ writer.at \in {"off", "idle"} => writer.state = told
    /\ writer.at = "sending" => writer.current # NoCall
    /\ writer.at = "sending" /\ writer.current # Main =>
          Rises(told, Request[writer.current]) /\ writer.state = Applied(told, Request[writer.current])

\* Phase and cancellation, and what the end leaves open.
Ending ==
    /\ ses.phase \in {"starting", "replaying", "ready"} => ~ses.cancelled
    /\ ses.phase = "ended" <=> ses.main = "ended"
    /\ ses.main \in {"stop_writer", "kill", "complete"} => pipe.host = "closed"
    /\ ses.main = "ended" => pipe.host = "closed" \/ writer.at = "off"
    /\ ses.main \in {"drain", "stop_writer"} \/ shut.exited => Exited
    /\ ses.main \in {"complete", "ended"} => proc.at # "alive" \/ "kill_timeout" \in ses.causes
    /\ ses.main \in {"drain", "stop_writer", "kill"} => "retry" \in ses.causes
    /\ ses.main \in {"complete", "ended"} /\ ses.causes = {} => reader.at # "submit"

Carries(messages, type) == \E i \in DOMAIN messages : messages[i].type = type

\* The plugin, or what it has sent, knows of the shutdown.
ShutdownKnown ==
    \/ Carries(pipe.down, "shutdown")
    \/ host.accepted
    \/ worker["reader"].result = "shutdown" \/ worker["driver"].result \in {"accepted", "error_accepted"}
    \/ run.at = "acknowledge"
    \/ Carries(pipe.up, "ack")

\* The acknowledgement has been read.
AckRead == reader.at \in {"queue_ack", "check_ack"} \/ shut.queued \/ shut.signal \/ shut.acked

SendingShutdown == writer.at = "sending" /\ writer.current = Main
Noted == shut.state # "not_started" \/ pipe.host = "closed"

\* The acknowledgement answers a shutdown, and is the last message.
AckIsLast ==
    \A i \in DOMAIN pipe.up : pipe.up[i].type = "ack" => i = Len(pipe.up) /\ run.at \in {"return", "exited"}

AckEndsAll == AckRead => pipe.up = <<>> /\ run.at \in {"return", "exited"} /\ reader.at # "submit"

Acknowledged == (ShutdownKnown \/ SendingShutdown => Noted) /\ AckIsLast /\ AckEndsAll /\ AckNotLost

\* A violation has its cause.
Blamed ==
    /\ HonestPluginNotBlamed
    /\ reader.result = "violation" => pipe.torn
    /\ (\E i \in DOMAIN pipe.up : pipe.up[i].type = "torn") => pipe.torn
    /\ reader.result = "nil" => reader.cancelled
    /\ reader.at = "done" => reader.result # "none"

\* Only a run holds a frame back.
FrameOfRun == slot.pending => run.at \in {"run", "collect", "finish", "acknowledge"}

Flow == FrameOfRun /\ FrameOfSubscription /\ NoLostWakeup /\ NoMissedUpdate

LinkInv ==
    Types /\ Handshake /\ WorkersRun /\ Opening /\ Calls /\ WriterKeeps /\ Ending /\ Acknowledged /\ Blamed /\ Flow

-----------------------------------------------------------------------------
(* Operators. *)

\* Removing one element of a sequence.
LEMMA RemovedAt ==
    ASSUME NEW S, NEW s \in Seq(S), NEW i \in 1 .. Len(s)
    PROVE  /\ RemoveAt(s, i) \in Seq(S) /\ Len(RemoveAt(s, i)) = Len(s) - 1
           /\ \A j \in 1 .. Len(s) - 1 : RemoveAt(s, i)[j] = IF j < i THEN s[j] ELSE s[j + 1]
<1> DEFINE a == SubSeq(s, 1, i - 1)
           b == SubSeq(s, i + 1, Len(s))
<1>0. i \in Nat /\ 1 <= i /\ i <= Len(s) /\ Len(s) \in Nat
  OBVIOUS
<1>1. a \in Seq(S) /\ Len(a) = i - 1 /\ \A j \in 1 .. i - 1 : a[j] = s[j]
  OBVIOUS
<1>2. b \in Seq(S) /\ Len(b) = Len(s) - i /\ \A j \in 1 .. Len(s) - i : b[j] = s[i + j]
  OBVIOUS
<1> HIDE DEF a, b
<1>3. a \o b \in Seq(S) /\ Len(a \o b) = Len(s) - 1
  <2>1. a \o b \in Seq(S) /\ Len(a \o b) = Len(a) + Len(b)
    BY <1>1, <1>2, ConcatProperties
  <2> QED BY <2>1, <1>0, <1>1, <1>2
<1>4. ASSUME NEW j \in 1 .. Len(s) - 1 PROVE (a \o b)[j] = IF j < i THEN s[j] ELSE s[j + 1]
  <2>1. (a \o b)[j] = IF j <= Len(a) THEN a[j] ELSE b[j - Len(a)]
    <3>1. j \in 1 .. Len(a) + Len(b)
      BY <1>0, <1>1, <1>2
    <3> QED BY <3>1, <1>1, <1>2, ConcatProperties
  <2>2. CASE j < i BY <2>1, <2>2, <1>1
  <2>3. CASE ~ (j < i)
    <3>1. j - (i - 1) \in 1 .. Len(s) - i
      BY <2>3
    <3>2. (a \o b)[j] = b[j - (i - 1)]
      BY <2>1, <2>3, <1>1
    <3> QED BY <3>1, <3>2, <1>2, <2>3
  <2> QED BY <2>2, <2>3
<1> QED BY <1>3, <1>4 DEF RemoveAt, a, b

\* Sets of naturals have a least element.
LEMMA MinIsLeast ==
    ASSUME NEW S \in SUBSET Nat, S # {} PROVE Min(S) \in S /\ \A y \in S : Min(S) <= y
<1> DEFINE R == OpToRel(<, Nat)
<1>1. IsWellFoundedOn(R, Nat)
  BY NatLessThanWellFounded
<1>2. \A x, y \in S : <<y, x>> \in R <=> y < x
  BY DEF OpToRel
<1> HIDE DEF R
<1>3. PICK x \in S : \A y \in S : <<y, x>> \notin R
  BY <1>1, WFMin
<1>4. ASSUME NEW y \in S PROVE x <= y
  <2>1. ~ (y < x)
    BY <1>2, <1>3
  <2> QED BY <2>1
<1> QED BY <1>4 DEF Min

\* Bounded ones have a greatest: the least bound.
LEMMA MaxIsGreatest ==
    ASSUME NEW S \in SUBSET Nat, S # {}, NEW n \in Nat, \A y \in S : y <= n
    PROVE  Max(S) \in S /\ \A y \in S : y <= Max(S)
<1> DEFINE Bounds == {m \in Nat : \A y \in S : y <= m}
           m == Min(Bounds)
<1>1. m \in Bounds /\ \A k \in Bounds : m <= k
  <2>1. Bounds \in SUBSET Nat /\ Bounds # {}
    OBVIOUS
  <2> HIDE DEF Bounds
  <2> QED BY <2>1, MinIsLeast
<1>2. m \in Nat /\ \A y \in S : y <= m
  BY <1>1
<1>3. m \in S
  <2>1. SUFFICES ASSUME m \notin S PROVE FALSE
    OBVIOUS
  <2>2. \A y \in S : y < m
    BY <1>2, <2>1
  <2>3. m - 1 \in Nat /\ \A y \in S : y <= m - 1
    <3>1. PICK y \in S : TRUE
      OBVIOUS
    <3> HIDE DEF m
    <3> QED BY <3>1, <2>2, <1>2
  <2>4. m - 1 \in Bounds
    BY <2>3
  <2> HIDE DEF m, Bounds
  <2> QED BY <2>4, <1>1, <1>2
<1> HIDE DEF m
<1>4. \A y \in S : m >= y
  BY <1>2
<1> QED BY <1>3, <1>4 DEF Max

\* A state with one part changed.
LEMMA ChangedState ==
    ASSUME NEW state \in ControlState, NEW k \in Kind, NEW v, k \in {"config", "generation"} => v \in Nat, k = "active" => v \in BOOLEAN
    PROVE  /\ [state EXCEPT ![k] = v] \in ControlState
           /\ [state EXCEPT ![k] = v][k] = v
           /\ \A j \in Kind : j # k => [state EXCEPT ![k] = v][j] = state[j]
<1>1. CASE k = "config"
  BY <1>1 DEF ControlState, Kind
<1>2. CASE k = "generation"
  BY <1>2 DEF ControlState, Kind
<1>3. CASE k = "active"
  BY <1>3 DEF ControlState, Kind
<1> QED BY <1>1, <1>2, <1>3 DEF Kind

LEMMA AppliedIs ==
    ASSUME NEW state \in ControlState, NEW r \in ControlRequest
    PROVE  /\ Applied(state, r) \in ControlState /\ r.kind \in Kind
           /\ Applied(state, r)[r.kind] = r.value
           /\ \A j \in Kind : j # r.kind => Applied(state, r)[j] = state[j]
<1>1. r.kind \in Kind /\ (r.kind \in {"config", "generation"} => r.value \in Nat) /\ (r.kind = "active" => r.value \in BOOLEAN)
  BY DEF ControlRequest, Kind
<1> QED BY <1>1, ChangedState DEF Applied

\* A state is the values of its parts.
LEMMA SameState ==
    ASSUME NEW s \in ControlState, NEW t \in ControlState, \A k \in Kind : s[k] = t[k] PROVE s = t
<1>1. s["config"] = t["config"] /\ s["generation"] = t["generation"] /\ s["active"] = t["active"]
  BY DEF Kind
<1> QED BY <1>1 DEF ControlState

-----------------------------------------------------------------------------
(* Types. *)

LEMMA NothingPending == <<>> \in Seq(Call) /\ Len(<<>>) = 0 /\ 0 <= ControlCapacity
BY ControlAssumption

LEMMA NoMessages == <<>> \in Seq(Up) /\ <<>> \in Seq(Down) /\ <<>> \in Seq(Owners)
OBVIOUS

LEMMA PipeClosed ==
    ASSUME NEW p \in Pipes, NEW es \in Seq(Up), NEW ds \in Seq(Down)
    PROVE  /\ Close(p) \in Pipes /\ [p EXCEPT !.up = es] \in Pipes /\ [p EXCEPT !.down = ds] \in Pipes /\ [p EXCEPT !.up = es, !.down = ds] \in Pipes
           /\ [p EXCEPT !.host = "open"] \in Pipes
BY NoMessages DEF Pipes, Close, Place

LEMMA CausesAre ==
    ASSUME reader \in Readers, NEW expected
    PROVE  /\ ReaderResult \in SUBSET Cause /\ WriterCause \in SUBSET Cause
           /\ HandshakeFailure(expected) \subseteq SUBSET Cause
           /\ {"retry"} \in SUBSET Cause /\ {"violation"} \in SUBSET Cause /\ {} \in SUBSET Cause /\ {"kill_timeout"} \in SUBSET Cause
<1>1. ReaderResult \in SUBSET Cause
  BY DEF Readers, ReaderResult, Cause
<1>2. WriterCause \in SUBSET Cause
  BY DEF WriterCause, Cause
<1>3. HandshakeFailure(expected) \subseteq SUBSET Cause
  BY DEF HandshakeFailure, Cause
<1> QED BY <1>1, <1>2, <1>3 DEF Cause

LEMMA SessionClosed ==
    ASSUME ses \in Sessions, NEW cs \in SUBSET Cause, NEW m \in Mains, NEW p \in Phases, NEW i \in Call \cup {NoCall}
    PROVE  /\ Ended(cs) \in Sessions
           /\ [ses EXCEPT !.causes = cs] \in Sessions
           /\ [ses EXCEPT !.main = m] \in Sessions
           /\ [ses EXCEPT !.main = m, !.phase = p] \in Sessions
           /\ [ses EXCEPT !.main = m, !.causes = cs] \in Sessions
           /\ [ses EXCEPT !.main = m, !.inflight = i] \in Sessions
           /\ [ses EXCEPT !.main = m, !.phase = p, !.causes = cs] \in Sessions
           /\ [ses EXCEPT !.main = m, !.phase = p, !.causes = cs, !.inflight = i] \in Sessions
<1>1. "ended" \in Mains /\ "ended" \in Phases /\ NoCall \in Call \cup {NoCall}
  BY DEF Mains, Phases
<1>2. ses.causes \in SUBSET Cause
  BY DEF Sessions
<1>3. Ended(cs) \in Sessions
  BY <1>1 DEF Sessions, Ended
<1> QED BY <1>3 DEF Sessions

LEMMA CallClosed ==
    ASSUME call \in [Call -> Callers_], NEW a \in {"ok", "refused"}, NEW c
    PROVE  /\ Answer(c, a) \in [Call -> Callers_]
           /\ Replied(c, a) \in [Call -> Callers_]
           /\ \A cs : AnswerAll(cs, a) \in [Call -> Callers_]
           /\ [call EXCEPT ![c].at = "calling"] \in [Call -> Callers_]
           /\ [call EXCEPT ![c].at = "queued"] \in [Call -> Callers_]
           /\ [call EXCEPT ![c].at = "done"] \in [Call -> Callers_]
<1>1. Answer(c, a) \in [Call -> Callers_]
  BY DEF Callers_, Answer
<1>2. Replied(c, a) \in [Call -> Callers_]
  <2>1. [call EXCEPT ![c].at = "replied", ![c].answer = a] \in [Call -> Callers_]
    BY DEF Callers_
  <2> QED BY <1>1, <2>1 DEF Replied
<1>3. \A cs : AnswerAll(cs, a) \in [Call -> Callers_]
  BY DEF Callers_, AnswerAll
<1>4. \A at \in {"calling", "queued", "done"} : [call EXCEPT ![c].at = at] \in [Call -> Callers_]
  BY DEF Callers_
<1> QED BY <1>1, <1>2, <1>3, <1>4

LEMMA RefusedAll ==
    ASSUME call \in [Call -> Callers_], NEW cs PROVE AnswerAll(cs, "refused") \in [Call -> Callers_]
BY CallClosed

LEMMA EndTypes ==
    ASSUME HostTypes, NEW causes \in SUBSET Cause, End(causes)
    PROVE  ses' \in Sessions /\ pending' \in Seq(Call) /\ Len(pending') <= ControlCapacity /\ call' \in [Call -> Callers_]
<1>1. ses \in Sessions /\ call \in [Call -> Callers_] /\ "ended" \in Mains /\ NoCall \in Call \cup {NoCall}
  BY DEF HostTypes, Mains
<1>2. Ended(causes) \in Sessions
  BY <1>1 DEF Sessions, Ended, Mains, Phases
<1>3. AnswerAll(ToSet(pending), "refused") \in [Call -> Callers_]
  BY <1>1, CallClosed
<1> QED BY <1>2, <1>3, NothingPending DEF End

LEMMA FinishTypes ==
    ASSUME HostTypes, NEW causes \in SUBSET Cause, Finish(causes)
    PROVE  ses' \in Sessions /\ pending' \in Seq(Call) /\ Len(pending') <= ControlCapacity /\ call' \in [Call -> Callers_]
<1>1. CASE ses.inflight = NoCall
  BY <1>1, EndTypes DEF Finish
<1>2. CASE ses.inflight # NoCall
  <2>1. [ses EXCEPT !.main = "complete", !.causes = causes] \in Sessions
    BY DEF HostTypes, Sessions, Mains
  <2> QED BY <1>2, <2>1 DEF Finish, HostTypes
<1> QED BY <1>1, <1>2

LEMMA ReplayStopsTypes ==
    ASSUME HostTypes, NEW causes \in SUBSET Cause, NEW cs, ReplayStops(causes, cs)
    PROVE  ses' \in Sessions /\ pending' \in Seq(Call) /\ Len(pending') <= ControlCapacity /\ call' \in [Call -> Callers_] /\ shut' \in Shutdowns
<1>1. ses' \in Sessions
  <2>1. ses' = [ses EXCEPT !.main = "shutdown", !.phase = "stopping", !.causes = ses.causes \cup causes, !.inflight = IF cs = {} THEN ses.inflight ELSE NoCall]
    BY DEF ReplayStops
  <2> QED BY <2>1 DEF HostTypes, Sessions, Mains, Phases
<1>2. call' \in [Call -> Callers_]
  BY DEF ReplayStops, HostTypes, Callers_
<1>3. shut' \in Shutdowns
  BY DEF ReplayStops, HostTypes, Shutdowns
<1>4. pending' = <<>>
  BY DEF ReplayStops
<1> QED BY <1>1, <1>2, <1>3, <1>4, NothingPending

\* What a message is to be, by its type.
LEMMA DownIs ==
    ASSUME NEW m \in Down
    PROVE  /\ m.type \in {"initialize", "config", "generation", "active", "shutdown"}
           /\ m.type = "initialize" => m.value \in ControlState
           /\ m.type \in {"config", "generation"} => m.value \in Nat
           /\ m.type = "active" => m.value \in BOOLEAN
BY DEF Down

LEMMA MessageIs ==
    ASSUME NEW o \in Owners
    PROVE  /\ Message(o) \in Down
           /\ o = Main => Message(o).type = "shutdown"
           /\ o \in Call => /\ Request[o] \in ControlRequest /\ Message(o).type = Request[o].kind /\ Message(o).value = Request[o].value
                            /\ Message(o).type \in Kind /\ o # Main
<1>1. CASE o = Main
  BY <1>1, CallAssumption DEF Message, Down
<1>2. CASE o \in Call
  <2>1. Request[o] \in ControlRequest /\ o # Main
    BY <1>2, RequestAssumption, CallAssumption
  <2>2. Message(o) = [type |-> Request[o].kind, value |-> Request[o].value]
    BY <2>1 DEF Message
  <2> HIDE DEF Message
  <2>3. CASE Request[o] \in [kind : {"config", "generation"}, value : Nat]
    BY <2>1, <2>2, <2>3 DEF Down, Kind
  <2>4. CASE Request[o] \in [kind : {"active"}, value : BOOLEAN]
    BY <2>1, <2>2, <2>4 DEF Down, Kind
  <2> QED BY <2>1, <2>3, <2>4 DEF ControlRequest
<1> QED BY <1>1, <1>2 DEF Owners

LEMMA HostTypesStep ==
    ASSUME Types, Calls, WriterKeeps, SessionNext PROVE HostTypes' /\ PipeTypes'
<1>T. /\ ses \in Sessions /\ pending \in Seq(Call) /\ Len(pending) <= ControlCapacity /\ call \in [Call -> Callers_]
      /\ writer \in Writers /\ Len(writer.queue) <= ControlCapacity /\ reader \in Readers /\ shut \in Shutdowns /\ told \in ControlState
      /\ proc \in [at : {"none", "alive", "exited"}, bad : BOOLEAN] /\ pipe \in Pipes
  BY DEF Types, HostTypes, PipeTypes
<1>H. HostTypes
  BY DEF Types
<1>1. ASSUME NEW c \in Call, Control(c) PROVE HostTypes' /\ PipeTypes'
  <2>1. pending' \in Seq(Call) /\ Len(pending') <= ControlCapacity
    <3>1. Append(pending, c) \in Seq(Call) /\ Len(Append(pending, c)) = Len(pending) + 1
      BY <1>T
    <3> QED BY <1>T, <1>1, <3>1, ControlAssumption DEF Control
  <2>2. call' \in [Call -> Callers_]
    BY <1>T, <1>1 DEF Control, Callers_
  <2> QED BY <1>T, <1>1, <2>1, <2>2 DEF HostTypes, PipeTypes, Control
<1>2. ASSUME NEW c \in Call, RemovePendingControl(c) PROVE HostTypes' /\ PipeTypes'
  <2>1. pending' \in Seq(Call) /\ Len(pending') <= ControlCapacity
    <3>1. PICK i \in DOMAIN pending : pending' = RemoveAt(pending, i)
      BY <1>2 DEF RemovePendingControl
    <3>2. i \in 1 .. Len(pending) /\ Len(pending) \in Nat
      BY <1>T
    <3> QED BY <1>T, <3>1, <3>2, RemovedAt, ControlAssumption
  <2>2. call' \in [Call -> Callers_]
    BY <1>T, <1>2 DEF RemovePendingControl, Answer, Callers_
  <2> QED BY <1>T, <1>2, <2>1, <2>2 DEF HostTypes, PipeTypes, RemovePendingControl
<1>3. ASSUME Stop PROVE HostTypes' /\ PipeTypes'
  <2>1. ses' \in Sessions
    BY <1>T, <1>3 DEF Stop, Sessions, Mains, Phases, Cause
  <2> QED BY <1>T, <1>3, <2>1 DEF HostTypes, PipeTypes, Stop
<1>4. ASSUME Launch PROVE HostTypes' /\ PipeTypes'
  <2>1. ses' \in Sessions
    BY <1>T, <1>4 DEF Launch, Sessions, Mains, Phases, Cause
  <2>2. proc' \in [at : {"none", "alive", "exited"}, bad : BOOLEAN]
    BY <1>T, <1>4 DEF Launch
  <2> QED BY <1>T, <1>4, <2>1, <2>2 DEF HostTypes, PipeTypes, Launch
<1>5. ASSUME LaunchFails PROVE HostTypes' /\ PipeTypes'
  <2>1. ses' \in Sessions /\ pending' \in Seq(Call) /\ Len(pending') <= ControlCapacity /\ call' \in [Call -> Callers_]
    <3>1. PICK causes \in SUBSET Cause : End(causes)
      BY <1>5 DEF LaunchFails, Cause
    <3> QED BY <3>1, EndTypes, <1>H
  <2> QED BY <1>T, <1>5, <2>1 DEF HostTypes, PipeTypes, LaunchFails
<1>6. ASSUME Accept PROVE HostTypes' /\ PipeTypes'
  <2>1. ses' \in Sessions
    BY <1>T, <1>6 DEF Accept, Sessions, Mains, Phases, Cause
  <2>2. pipe' \in Pipes
    BY <1>T, <1>6 DEF Accept, Pipes, Place
  <2> QED BY <1>T, <1>6, <2>1, <2>2 DEF HostTypes, PipeTypes, Accept
<1>7. ASSUME StartupFails PROVE HostTypes' /\ PipeTypes'
  <2>1. ses' \in Sessions
    <3>1. PICK causes \in SUBSET Cause, killErr \in SUBSET Cause : ses' = [ses EXCEPT !.main = "cleanup", !.causes = causes \cup killErr]
      BY <1>7, <1>T, CausesAre DEF StartupFails
    <3>2. "cleanup" \in Mains /\ causes \cup killErr \in SUBSET Cause
      BY DEF Mains
    <3> QED BY <1>T, <3>1, <3>2 DEF Sessions
  <2> QED BY <1>T, <1>7, <2>1 DEF HostTypes, PipeTypes, StartupFails
<1>8. ASSUME CleanupStartedProcess PROVE HostTypes' /\ PipeTypes'
  <2>1. ses' \in Sessions /\ pending' \in Seq(Call) /\ Len(pending') <= ControlCapacity /\ call' \in [Call -> Callers_]
    <3>1. PICK late \in SUBSET Cause : End(ses.causes \cup late)
      BY <1>8, CausesAre, <1>T DEF CleanupStartedProcess
    <3>2. ses.causes \cup late \in SUBSET Cause
      BY <1>T DEF Sessions
    <3> QED BY <3>1, <3>2, EndTypes, <1>H
  <2>2. pipe' \in Pipes
    BY <1>T, <1>8, PipeClosed, NoMessages DEF CleanupStartedProcess
  <2> QED BY <1>T, <1>8, <2>1, <2>2 DEF HostTypes, PipeTypes, CleanupStartedProcess
<1>9. ASSUME HelloReceived PROVE HostTypes' /\ PipeTypes'
  <2>1. pipe' \in Pipes
    <3>1. [type |-> "initialize", value |-> Startup] \in Down
      BY StartupAssumption DEF Down
    <3>2. pipe.up \in Seq(Up) /\ pipe.down \in Seq(Down)
      BY <1>T DEF Pipes
    <3>3. pipe.up # <<>>
      BY <1>9 DEF HelloReceived
    <3>4. Tail(pipe.up) \in Seq(Up) /\ Append(pipe.down, [type |-> "initialize", value |-> Startup]) \in Seq(Down)
      BY <3>1, <3>2, <3>3
    <3>5. pipe' = [pipe EXCEPT !.up = Tail(pipe.up), !.down = Append(pipe.down, [type |-> "initialize", value |-> Startup])]
      BY <1>9 DEF HelloReceived
    <3> QED BY <1>T, <3>4, <3>5, PipeClosed
  <2>2. ses' \in Sessions
    BY <1>T, <1>9 DEF HelloReceived, Sessions, Mains, Phases, Cause
  <2> QED BY <1>T, <1>9, <2>1, <2>2 DEF HostTypes, PipeTypes, HelloReceived
<1>10. ASSUME ReadyReceived PROVE HostTypes' /\ PipeTypes'
  <2>1. pipe' \in Pipes
    <3>1. pipe.up \in Seq(Up) /\ pipe.up # <<>> /\ pipe' = [pipe EXCEPT !.up = Tail(pipe.up)]
      BY <1>T, <1>10 DEF Pipes, ReadyReceived
    <3>2. Tail(pipe.up) \in Seq(Up)
      BY <3>1
    <3> QED BY <1>T, <3>1, <3>2, NoMessages, PipeClosed
  <2>2. pending' \in Seq(Call) /\ Len(pending') <= ControlCapacity /\ call' \in [Call -> Callers_]
    BY <1>T, <1>10, NothingPending, RefusedAll DEF ReadyReceived
  <2>3. ses' \in Sessions
    BY <1>T, <1>10 DEF ReadyReceived, AnswerAll, Sessions, Mains, Phases, Cause
  <2>4. writer' \in Writers /\ Len(writer'.queue) <= ControlCapacity
    BY <1>T, <1>10 DEF ReadyReceived, AnswerAll, Writers, Owners
  <2>5. reader' \in Readers
    BY <1>T, <1>10 DEF ReadyReceived, AnswerAll, Readers
  <2> QED BY <1>T, <1>10, <2>1, <2>2, <2>3, <2>4, <2>5 DEF HostTypes, PipeTypes, ReadyReceived
<1>11. ASSUME ReplayPendingControls PROVE HostTypes' /\ PipeTypes'
  <2>1. ses' \in Sessions
    <3>1. PICK m \in Mains, p \in Phases : ses' = [ses EXCEPT !.main = m, !.phase = p] \/ (pending # <<>> /\ ses' = [ses EXCEPT !.main = m, !.inflight = Head(pending)])
               \/ ses' = [ses EXCEPT !.main = m, !.causes = ses.causes \cup {}]
      <4>1. {"shutdown", "runtime", "replaying"} \subseteq Mains /\ "ready" \in Phases
        BY DEF Mains, Phases
      <4> QED BY <4>1, <1>11 DEF ReplayPendingControls, BeginShutdown
    <3>2. pending # <<>> => Head(pending) \in Call
      BY <1>T
    <3> QED BY <1>T, <3>1, <3>2 DEF Sessions
  <2>2. pending' \in Seq(Call) /\ Len(pending') <= ControlCapacity
    <3>1. pending # <<>> => Tail(pending) \in Seq(Call) /\ Len(Tail(pending)) = Len(pending) - 1
      BY <1>T
    <3>2. pending' = <<>> \/ pending' = pending \/ (pending # <<>> /\ pending' = Tail(pending))
      BY <1>11 DEF ReplayPendingControls
    <3>3. Len(pending) \in Nat
      BY <1>T
    <3>4. CASE pending' = <<>>
      BY <3>4, NothingPending
    <3>5. CASE pending' = pending
      BY <3>5, <1>T
    <3>6. CASE pending # <<>> /\ pending' = Tail(pending)
      BY <3>6, <3>1, <3>3, <1>T, ControlAssumption
    <3> QED BY <3>2, <3>4, <3>5, <3>6
  <2>3. call' \in [Call -> Callers_]
    <3>1. call' = AnswerAll(ToSet(pending), "refused") \/ call' = call \/ call' = [call EXCEPT ![Head(pending)].at = "calling"]
      BY <1>11 DEF ReplayPendingControls
    <3>2. [call EXCEPT ![Head(pending)].at = "calling"] \in [Call -> Callers_]
      BY <1>T, CallClosed
    <3> QED BY <1>T, <3>1, <3>2, RefusedAll
  <2>4. shut' \in Shutdowns
    BY <1>T, <1>11 DEF ReplayPendingControls, AnswerAll, BeginShutdown, Shutdowns
  <2> QED BY <1>T, <1>11, <2>1, <2>2, <2>3, <2>4 DEF HostTypes, PipeTypes, ReplayPendingControls
<1>12. ASSUME ReplayAnswered PROVE HostTypes' /\ PipeTypes'
  <2>1. ses' \in Sessions /\ pending' \in Seq(Call) /\ Len(pending') <= ControlCapacity /\ call' \in [Call -> Callers_] /\ shut' \in Shutdowns
    <3>1. CASE ReplayStops({"retry"}, {ses.inflight})
      BY <3>1, <1>T, <1>H, CausesAre, ReplayStopsTypes
    <3>2. CASE call' = [call EXCEPT ![ses.inflight].at = "done"] /\ ses' = [ses EXCEPT !.main = "replay", !.inflight = NoCall] /\ UNCHANGED <<shut, pending>>
      <4>1. "replay" \in Mains
        BY DEF Mains
      <4> QED BY <3>2, <4>1, <1>T, CallClosed DEF Sessions
    <3> QED BY <1>12, <3>1, <3>2 DEF ReplayAnswered
  <2> QED BY <1>T, <1>12, <2>1 DEF HostTypes, PipeTypes, ReplayAnswered
<1>13. ASSUME ReplayExit PROVE HostTypes' /\ PipeTypes'
  <2>1. pipe' \in Pipes
    BY <1>T, <1>13, PipeClosed, NoMessages DEF ReplayExit
  <2>2. ses' \in Sessions
    <3>1. "complete" \in Mains /\ "stopping" \in Phases /\ ses.causes \cup {"retry"} \in SUBSET Cause
      BY <1>T, CausesAre DEF Mains, Phases, Sessions
    <3> QED BY <1>T, <1>13, <3>1 DEF Sessions, ReplayExit
  <2>3. pending' \in Seq(Call) /\ Len(pending') <= ControlCapacity /\ call' \in [Call -> Callers_]
    BY <1>T, <1>13, NothingPending, CallClosed DEF ReplayExit
  <2> QED BY <1>T, <1>13, <2>1, <2>2, <2>3 DEF HostTypes, PipeTypes, ReplayExit
<1>14. ASSUME ReplayInterrupted PROVE HostTypes' /\ PipeTypes'
  <2>1. ses' \in Sessions /\ pending' \in Seq(Call) /\ Len(pending') <= ControlCapacity /\ call' \in [Call -> Callers_] /\ shut' \in Shutdowns
    <3>1. PICK causes \in SUBSET Cause : ReplayStops(causes, {})
      BY <1>14, <1>T, CausesAre DEF ReplayInterrupted
    <3> QED BY <3>1, <1>H, ReplayStopsTypes
  <2>2. writer' \in Writers /\ Len(writer'.queue) <= ControlCapacity
    BY <1>T, <1>14 DEF ReplayInterrupted, ReplayStops, ReaderResult, TakeReader, WriterCause, Cause, Writers, Owners
  <2>3. reader' \in Readers
    BY <1>T, <1>14 DEF ReplayInterrupted, ReplayStops, ReaderResult, TakeReader, WriterCause, Cause, Readers
  <2> QED BY <1>T, <1>14, <2>1, <2>2, <2>3 DEF HostTypes, PipeTypes, ReplayInterrupted
<1>15. ASSUME CompleteReplayControl PROVE HostTypes' /\ PipeTypes'
  <2>1. call' \in [Call -> Callers_]
    <3>1. PICK answer \in {"refused", call[ses.inflight].answer} : call' = Answer(ses.inflight, answer) /\ (answer = "refused" \/ call[ses.inflight].at = "replied")
      BY <1>15 DEF CompleteReplayControl
    <3>2. answer \in {"ok", "refused"}
      BY <1>15, <1>T, <3>1 DEF CompleteReplayControl, Calls, ReplayedCall, AnsweredCalls, Callers_
    <3> QED BY <1>T, <3>1, <3>2, CallClosed
  <2>2. ses' \in Sessions
    <3>1. ses.causes \in SUBSET Cause
      BY <1>T DEF Sessions
    <3>2. Ended(ses.causes) \in Sessions
      BY <1>T, <3>1 DEF Ended, Sessions, Mains, Phases
    <3> QED BY <1>15, <3>2, Zenon DEF CompleteReplayControl
  <2>3. reader' \in Readers
    BY <1>T, <1>15 DEF CompleteReplayControl, Answer, Ended, Readers
  <2> QED BY <1>T, <1>15, <2>1, <2>2, <2>3 DEF HostTypes, PipeTypes, CompleteReplayControl
<1>16. ASSUME RuntimeEnds PROVE HostTypes' /\ PipeTypes'
  <2>1. ses' \in Sessions
    <3>1. PICK causes \in SUBSET Cause : ses' = [ses EXCEPT !.main = "shutdown", !.causes = ses.causes \cup causes]
      BY <1>16, <1>T, CausesAre DEF RuntimeEnds, BeginShutdown
    <3>2. "shutdown" \in Mains /\ ses.causes \cup causes \in SUBSET Cause
      BY <1>T DEF Mains, Sessions
    <3> QED BY <1>T, <3>1, <3>2 DEF Sessions
  <2>2. writer' \in Writers /\ Len(writer'.queue) <= ControlCapacity
    BY <1>T, <1>16 DEF RuntimeEnds, BeginShutdown, ReaderResult, TakeReader, WriterCause, Cause, Writers, Owners
  <2>3. reader' \in Readers
    BY <1>T, <1>16 DEF RuntimeEnds, BeginShutdown, ReaderResult, TakeReader, WriterCause, Cause, Readers
  <2>4. shut' \in Shutdowns
    BY <1>T, <1>16 DEF RuntimeEnds, BeginShutdown, ReaderResult, TakeReader, WriterCause, Cause, Shutdowns
  <2> QED BY <1>T, <1>16, <2>1, <2>2, <2>3, <2>4 DEF HostTypes, PipeTypes, RuntimeEnds
<1>17. ASSUME RuntimeExit PROVE HostTypes' /\ PipeTypes'
  <2>1. ses' \in Sessions
    BY <1>T, <1>17 DEF RuntimeExit, Cause, Sessions, Mains, Phases
  <2> QED BY <1>T, <1>17, <2>1 DEF HostTypes, PipeTypes, RuntimeExit
<1>18. ASSUME DrainReader PROVE HostTypes' /\ PipeTypes'
  <2>1. pipe' \in Pipes
    BY <1>T, <1>18, PipeClosed, NoMessages DEF DrainReader
  <2>2. ses' \in Sessions
    <3>1. PICK causes \in SUBSET Cause : ses' = [ses EXCEPT !.main = "stop_writer", !.causes = ses.causes \cup causes]
      BY <1>18, <1>T, CausesAre DEF DrainReader
    <3>2. "stop_writer" \in Mains /\ ses.causes \cup causes \in SUBSET Cause
      BY <1>T DEF Mains, Sessions
    <3> QED BY <1>T, <3>1, <3>2 DEF Sessions
  <2>3. reader' \in Readers
    BY <1>T, <1>18 DEF DrainReader, ReaderResult, TakeReader, Close, Cause, ReaderReady, Readers
  <2>4. shut' \in Shutdowns
    BY <1>T, <1>18 DEF DrainReader, ReaderResult, TakeReader, Close, Cause, ReaderReady, Shutdowns
  <2> QED BY <1>T, <1>18, <2>1, <2>2, <2>3, <2>4 DEF HostTypes, PipeTypes, DrainReader
<1>19. ASSUME StopWriter PROVE HostTypes' /\ PipeTypes'
  <2>1. ses' \in Sessions /\ pending' \in Seq(Call) /\ Len(pending') <= ControlCapacity /\ call' \in [Call -> Callers_]
    <3>1. PICK late \in SUBSET (ReaderResult \cup IF writer.failed /\ proc.bad THEN {"retry"} ELSE {}) : End(ses.causes \cup late)
      BY <1>19 DEF StopWriter
    <3>2. ses.causes \cup late \in SUBSET Cause
      BY <1>T, CausesAre DEF Sessions
    <3> QED BY <3>1, <3>2, EndTypes, <1>H
  <2> QED BY <1>T, <1>19, <2>1 DEF HostTypes, PipeTypes, StopWriter
<1>20. ASSUME ShutdownSent PROVE HostTypes' /\ PipeTypes'
  <2>1. ses' \in Sessions
    BY <1>T, <1>20 DEF ShutdownSent, Cause, Sessions, Mains, Phases
  <2>2. shut' \in Shutdowns
    BY <1>T, <1>20 DEF ShutdownSent, Cause, Shutdowns
  <2> QED BY <1>T, <1>20, <2>1, <2>2 DEF HostTypes, PipeTypes, ShutdownSent
<1>21. ASSUME ShutdownWaits PROVE HostTypes' /\ PipeTypes'
  <2>1. ses' \in Sessions
    <3>1. PICK causes \in SUBSET Cause : ses' = [ses EXCEPT !.causes = ses.causes \cup causes] \/ ses' = ses
      BY <1>21, <1>T, CausesAre DEF ShutdownWaits
    <3>2. ses.causes \cup causes \in SUBSET Cause
      BY <1>T DEF Sessions
    <3> QED BY <1>T, <3>1, <3>2 DEF Sessions
  <2>2. writer' \in Writers /\ Len(writer'.queue) <= ControlCapacity
    BY <1>T, <1>21 DEF ShutdownWaits, ReaderResult, TakeReader, Cause, Writers, Owners
  <2>3. reader' \in Readers
    BY <1>T, <1>21 DEF ShutdownWaits, ReaderResult, TakeReader, Cause, Readers
  <2>4. shut' \in Shutdowns
    BY <1>T, <1>21 DEF ShutdownWaits, ReaderResult, TakeReader, Cause, Shutdowns
  <2> QED BY <1>T, <1>21, <2>1, <2>2, <2>3, <2>4 DEF HostTypes, PipeTypes, ShutdownWaits
<1>22. ASSUME ShutdownDone PROVE HostTypes' /\ PipeTypes'
  <2>1. pipe' \in Pipes
    BY <1>T, <1>22, PipeClosed, NoMessages DEF ShutdownDone
  <2>2. ses' \in Sessions /\ pending' \in Seq(Call) /\ Len(pending') <= ControlCapacity /\ call' \in [Call -> Callers_]
    <3>1. ses.causes \ {"eof"} \in SUBSET Cause
      BY <1>T DEF Sessions
    <3> QED BY <1>22, <3>1, FinishTypes, <1>H DEF ShutdownDone
  <2>3. reader' \in Readers
    BY <1>T, <1>22 DEF ShutdownDone, Finish, End, Ended, AnswerAll, Close, Readers
  <2> QED BY <1>T, <1>22, <2>1, <2>2, <2>3 DEF HostTypes, PipeTypes, ShutdownDone
<1>23. ASSUME GracefulTimeout PROVE HostTypes' /\ PipeTypes'
  <2>1. pipe' \in Pipes
    BY <1>T, <1>23, PipeClosed, NoMessages DEF GracefulTimeout
  <2>2. ses' \in Sessions /\ pending' \in Seq(Call) /\ Len(pending') <= ControlCapacity /\ call' \in [Call -> Callers_]
    <3>1. PICK late \in {{}, ReaderResult}, killErr \in SUBSET {"retry"} :
             \/ Finish(ses.causes \cup {"retry"} \cup late)
             \/ ses' = [ses EXCEPT !.main = "kill", !.causes = ses.causes \cup {"retry"} \cup late \cup killErr] /\ UNCHANGED <<call, pending>>
      BY <1>23 DEF GracefulTimeout
    <3>2. ses.causes \cup {"retry"} \cup late \in SUBSET Cause /\ ses.causes \cup {"retry"} \cup late \cup killErr \in SUBSET Cause /\ "kill" \in Mains
      BY <1>T, CausesAre DEF Sessions, Mains
    <3>3. CASE Finish(ses.causes \cup {"retry"} \cup late)
      BY <3>2, <3>3, FinishTypes, <1>H
    <3>4. CASE ses' = [ses EXCEPT !.main = "kill", !.causes = ses.causes \cup {"retry"} \cup late \cup killErr] /\ UNCHANGED <<call, pending>>
      BY <3>2, <3>4, <1>T DEF Sessions
    <3> QED BY <3>1, <3>3, <3>4
  <2>3. reader' \in Readers
    BY <1>T, <1>23 DEF GracefulTimeout, Finish, End, Ended, AnswerAll, Close, ReaderResult, Cause, Readers
  <2>4. shut' \in Shutdowns
    <3> DEFINE request == IF shut.request \in {"ok", "failed", "invalid"} THEN "none" ELSE shut.request
    <3>1. shut' = [shut EXCEPT !.request = request, !.state = "not_started", !.queued = FALSE, !.signal = FALSE,
                               !.acked = FALSE, !.sent = FALSE, !.exited = FALSE]
      BY <1>23, <1>T DEF GracefulTimeout, Shutdowns
    <3>2. request \in {"none", "calling", "queued", "ok", "failed", "invalid"}
      BY <1>T DEF Shutdowns
    <3> HIDE DEF request
    <3> QED BY <1>T, <3>1, <3>2 DEF Shutdowns
  <2> QED BY <1>T, <1>23, <2>1, <2>2, <2>3, <2>4 DEF HostTypes, PipeTypes, GracefulTimeout
<1>24. ASSUME KillTimeout PROVE HostTypes' /\ PipeTypes'
  <2>1. ses' \in Sessions /\ pending' \in Seq(Call) /\ Len(pending') <= ControlCapacity /\ call' \in [Call -> Callers_]
    <3>1. PICK late \in SUBSET Cause : Finish(ses.causes \cup late)
      BY <1>24, CausesAre, <1>T DEF KillTimeout
    <3>2. ses.causes \cup late \in SUBSET Cause
      BY <1>T DEF Sessions
    <3> QED BY <3>1, <3>2, FinishTypes, <1>H
  <2> QED BY <1>T, <1>24, <2>1 DEF HostTypes, PipeTypes, KillTimeout
<1>25. ASSUME NEW c \in Call, WriterControl(c) PROVE HostTypes' /\ PipeTypes'
  <2>1. call' \in [Call -> Callers_]
    <3>1. call' = [call EXCEPT ![c].at = "queued"] \/ call' = Replied(c, "refused")
      BY <1>25 DEF WriterControl
    <3>2. Replied(c, "refused") \in [Call -> Callers_] /\ [call EXCEPT ![c].at = "queued"] \in [Call -> Callers_]
      BY <1>T, CallClosed
    <3> QED BY <3>1, <3>2
  <2>2. writer' \in Writers /\ Len(writer'.queue) <= ControlCapacity
    <3>1. writer.queue \in Seq(Owners) /\ c \in Owners
      BY <1>T, <1>25 DEF Writers, Owners
    <3>2. Append(writer.queue, c) \in Seq(Owners) /\ Len(Append(writer.queue, c)) = Len(writer.queue) + 1
      BY <3>1
    <3>3. writer' = writer \/ (writer' = [writer EXCEPT !.queue = Append(writer.queue, c)] /\ ~ (Len(writer.queue) >= ControlCapacity))
      BY <1>25 DEF WriterControl, Enqueued
    <3>4. Len(writer.queue) \in Nat
      BY <3>1
    <3>5. writer' \in Writers
      BY <1>T, <3>2, <3>3 DEF Writers
    <3>6. writer'.queue = writer.queue \/ (Len(writer'.queue) = Len(writer.queue) + 1 /\ ~ (Len(writer.queue) >= ControlCapacity))
      BY <1>T, <3>2, <3>3 DEF Writers
    <3> QED BY <1>T, <3>4, <3>5, <3>6, ControlAssumption
  <2> QED BY <1>T, <1>25, <2>1, <2>2 DEF HostTypes, PipeTypes, WriterControl
<1>26. ASSUME WriterShutdown PROVE HostTypes' /\ PipeTypes'
  <2>1. writer' \in Writers /\ Len(writer'.queue) <= ControlCapacity
    <3>1. writer.queue \in Seq(Owners) /\ Main \in Owners
      BY <1>T, <1>26 DEF Writers, Owners
    <3>2. Append(writer.queue, Main) \in Seq(Owners) /\ Len(Append(writer.queue, Main)) = Len(writer.queue) + 1
      BY <3>1
    <3>3. writer' = writer \/ (writer' = [writer EXCEPT !.queue = Append(writer.queue, Main), !.accepting = FALSE] /\ ~ (Len(writer.queue) >= ControlCapacity))
      BY <1>26 DEF WriterShutdown, Enqueued
    <3>4. Len(writer.queue) \in Nat
      BY <3>1
    <3>5. writer' \in Writers
      BY <1>T, <3>2, <3>3 DEF Writers
    <3>6. writer'.queue = writer.queue \/ (Len(writer'.queue) = Len(writer.queue) + 1 /\ ~ (Len(writer.queue) >= ControlCapacity))
      BY <1>T, <3>2, <3>3 DEF Writers
    <3> QED BY <1>T, <3>4, <3>5, <3>6, ControlAssumption
  <2>2. shut' \in Shutdowns
    BY <1>T, <1>26 DEF WriterShutdown, Shutdowns
  <2> QED BY <1>T, <1>26, <2>1, <2>2 DEF HostTypes, PipeTypes, WriterShutdown
<1>27. ASSUME WriterTakes PROVE HostTypes' /\ PipeTypes'
  <2>1. call' \in [Call -> Callers_]
    <3>1. call' = call \/ \E a \in {"ok", "refused"} : call' = Replied(Head(writer.queue), a)
      BY <1>27 DEF WriterTakes
    <3>2. \A a \in {"ok", "refused"} : Replied(Head(writer.queue), a) \in [Call -> Callers_]
      BY <1>T, CallClosed
    <3> QED BY <1>T, <3>1, <3>2
  <2>2. writer' \in Writers /\ Len(writer'.queue) <= ControlCapacity
    <3>1. writer.queue \in Seq(Owners) /\ writer.queue # <<>> /\ Len(writer.queue) \in Nat
      BY <1>T, <1>27 DEF Writers, WriterTakes
    <3>2. Tail(writer.queue) \in Seq(Owners) /\ Len(Tail(writer.queue)) <= Len(writer.queue) /\ Head(writer.queue) \in Owners
      BY <3>1
    <3> DEFINE o == Head(writer.queue)
               t == Tail(writer.queue)
    <3>3. \/ writer' = [[writer EXCEPT !.queue = t] EXCEPT !.at = "sending", !.current = o]
          \/ writer' = [[writer EXCEPT !.queue = t] EXCEPT !.at = "sending", !.current = o, !.state = Applied(writer.state, Request[o])] /\ o # Main
          \/ writer' = [writer EXCEPT !.queue = t]
      BY <1>27, <1>T DEF WriterTakes, Writers
    <3>4. o # Main => Applied(writer.state, Request[o]) \in ControlState
      BY <1>T, <3>2, RequestAssumption, AppliedIs DEF Owners, Writers
    <3>5. Len(t) <= ControlCapacity
      BY <3>1, <3>2, <1>T, ControlAssumption
    <3> HIDE DEF o, t
    <3>6. writer' \in Writers
      BY <1>T, <3>2, <3>3, <3>4 DEF Writers, o, t
    <3>7. writer'.queue = t
      BY <1>T, <3>3 DEF Writers
    <3> QED BY <3>5, <3>6, <3>7
  <2>3. shut' \in Shutdowns
    BY <1>T, <1>27 DEF WriterTakes, Replied, Answer, Shutdowns
  <2> QED BY <1>T, <1>27, <2>1, <2>2, <2>3 DEF HostTypes, PipeTypes, WriterTakes
<1>28. ASSUME WriterSends PROVE HostTypes' /\ PipeTypes'
  <2>1. call' \in [Call -> Callers_]
    <3>1. CASE writer.current = Main
      <4>1. call' = [c \in Call |-> IF c \notin ToSet(writer.queue) \ {Main} \/ call[c].at = "done" THEN call[c]
                      ELSE [call[c] EXCEPT !.at = IF c = ses.inflight THEN "replied" ELSE "done", !.answer = IF c = Main THEN "ok" ELSE "refused"]]
        BY <3>1, <1>28 DEF WriterSends, Stops
      <4>2. \A c \in Call : c # Main
        BY CallAssumption
      <4> QED BY <1>T, <4>1, <4>2 DEF Callers_
    <3>2. CASE writer.current # Main
      <4>1. Replied(writer.current, "ok") \in [Call -> Callers_]
        BY <1>T, CallClosed
      <4> QED BY <3>2, <1>28, <4>1 DEF WriterSends
    <3> QED BY <3>1, <3>2
  <2>2. writer' \in Writers /\ Len(writer'.queue) <= ControlCapacity
    <3>1. \/ writer' = [writer EXCEPT !.at = "stopped", !.queue = <<>>, !.accepting = FALSE, !.failed = FALSE, !.current = NoCall]
          \/ writer' = [writer EXCEPT !.at = "idle", !.current = NoCall]
      BY <1>28 DEF WriterSends, Stops
    <3> QED BY <1>T, <3>1, NoMessages, NothingPending DEF Writers
  <2>3. told' \in ControlState /\ pipe' \in Pipes
    <3>1. writer.current \in Owners
      BY <1>T, <1>28 DEF WriterSends, WriterKeeps, Writers
    <3>2. Message(writer.current) \in Down /\ (writer.current # Main => Request[writer.current] \in ControlRequest)
      BY <3>1, MessageIs DEF Owners
    <3>3. told' \in ControlState
      <4>1. told' = told \/ (writer.current # Main /\ told' = Applied(told, Request[writer.current]))
        BY <1>28 DEF WriterSends
      <4>2. writer.current # Main => Applied(told, Request[writer.current]) \in ControlState
        BY <1>T, <3>2, AppliedIs
      <4> QED BY <1>T, <4>1, <4>2
    <3>4. pipe.down \in Seq(Down) /\ pipe' = [pipe EXCEPT !.down = Append(pipe.down, Message(writer.current))]
      BY <1>T, <1>28 DEF WriterSends, Pipes
    <3>5. Append(pipe.down, Message(writer.current)) \in Seq(Down)
      BY <3>2, <3>4
    <3> QED BY <1>T, <3>3, <3>4, <3>5, NoMessages, PipeClosed
  <2>4. shut' \in Shutdowns
    BY <1>T, <1>28 DEF WriterSends, Stops, Replied, Answer, Shutdowns
  <2> QED BY <1>T, <1>28, <2>1, <2>2, <2>3, <2>4 DEF HostTypes, PipeTypes, WriterSends
<1>29. ASSUME WriterFails PROVE HostTypes' /\ PipeTypes'
  <2>1. writer' \in Writers /\ Len(writer'.queue) <= ControlCapacity
    <3>1. writer' = [writer EXCEPT !.at = "stopped", !.queue = <<>>, !.accepting = FALSE, !.failed = TRUE, !.current = NoCall]
      BY <1>29 DEF WriterFails, Stops
    <3> QED BY <1>T, <3>1, NoMessages, NothingPending DEF Writers
  <2>2. call' \in [Call -> Callers_]
    BY <1>T, <1>29 DEF WriterFails, Stops, Callers_
  <2>3. shut' \in Shutdowns
    BY <1>T, <1>29 DEF WriterFails, Stops, Shutdowns
  <2> QED BY <1>T, <1>29, <2>1, <2>2, <2>3 DEF HostTypes, PipeTypes, WriterFails
<1>30. ASSUME ReaderReceives PROVE HostTypes' /\ PipeTypes'
  <2>1. pipe' \in Pipes
    <3>1. pipe.up \in Seq(Up) /\ pipe.up # <<>> /\ pipe' = [pipe EXCEPT !.up = Tail(pipe.up)]
      BY <1>T, <1>30 DEF Pipes, ReaderReceives
    <3>2. Tail(pipe.up) \in Seq(Up)
      BY <3>1
    <3> QED BY <1>T, <3>1, <3>2, NoMessages, PipeClosed
  <2>2. reader' \in Readers /\ shut' \in Shutdowns
    <3>1. \/ UNCHANGED reader
          \/ \E a \in {"submit", "queue_ack"} : reader' = [reader EXCEPT !.at = a]
          \/ \E r \in {"retry", "violation"} : reader' = [reader EXCEPT !.at = "done", !.result = r]
      <4>1. shut.state \in {"not_started", "sending", "complete"}
        BY <1>T DEF Shutdowns
      <4> QED BY <1>30, <4>1 DEF ReaderReceives, ReaderEnds
    <3>2. shut' \in {shut, Signalled(shut)}
      BY <1>30, <1>T DEF ReaderReceives, Shutdowns
    <3> QED BY <1>T, <3>1, <3>2 DEF Readers, ReaderEnds, Shutdowns, Signalled
  <2> QED BY <1>T, <1>30, <2>1, <2>2 DEF HostTypes, PipeTypes, ReaderReceives
<1>31. ASSUME Submit PROVE HostTypes' /\ PipeTypes'
  <2>1. reader' \in Readers
    BY <1>T, <1>31 DEF Submit, Readers
  <2> QED BY <1>T, <1>31, <2>1 DEF HostTypes, PipeTypes, Submit
<1>32. ASSUME QueueAck PROVE HostTypes' /\ PipeTypes'
  <2>1. reader' \in Readers
    BY <1>T, <1>32 DEF QueueAck, Readers
  <2>2. shut' \in Shutdowns
    BY <1>T, <1>32 DEF QueueAck, Shutdowns
  <2> QED BY <1>T, <1>32, <2>1, <2>2 DEF HostTypes, PipeTypes, QueueAck
<1>33. ASSUME CheckAck PROVE HostTypes' /\ PipeTypes'
  <2>1. reader' \in Readers
    BY <1>T, <1>33 DEF CheckAck, Signalled, Readers
  <2>2. shut' \in Shutdowns
    BY <1>T, <1>33 DEF CheckAck, Signalled, Shutdowns
  <2> QED BY <1>T, <1>33, <2>1, <2>2 DEF HostTypes, PipeTypes, CheckAck
<1>34. ASSUME ReaderFails PROVE HostTypes' /\ PipeTypes'
  <2>1. reader' \in Readers
    BY <1>T, <1>34 DEF ReaderFails, ReaderEnds, Readers
  <2> QED BY <1>T, <1>34, <2>1 DEF HostTypes, PipeTypes, ReaderFails
<1> QED BY <1>1, <1>2, <1>3, <1>4, <1>5, <1>6, <1>7, <1>8, <1>9, <1>10, <1>11, <1>12, <1>13, <1>14, <1>15, <1>16, <1>17, <1>18, <1>19, <1>20, <1>21, <1>22, <1>23, <1>24, <1>25, <1>26, <1>27, <1>28, <1>29, <1>30, <1>31, <1>32, <1>33, <1>34 DEF SessionNext, SessionMain, SessionWriter, SessionReader, Callers

LEMMA RestIs == Rest \in Slots /\ ~Rest.pending /\ ~Rest.wake
BY DEF Rest, Slots

LEMMA OverTypes ==
    \A at \in {"return", "exited"}, bad \in BOOLEAN : Over(at, bad) => RuntimeTypes'
<1> SUFFICES ASSUME NEW at \in {"return", "exited"}, NEW bad \in BOOLEAN, Over(at, bad) PROVE RuntimeTypes'
  OBVIOUS
<1>1. run' \in Runs
  BY DEF Over, Runs
<1>2. host' \in Hosts
  BY StartupAssumption, RuntimeAssumption DEF Over, Hosts
<1>3. worker' \in [Worker -> Workers]
  BY DEF Over, Workers
<1>4. published' \in 0 .. MaxPublish
  BY RuntimeAssumption DEF Over
<1> QED BY <1>1, <1>2, <1>3, <1>4, RestIs DEF Over, RuntimeTypes

LEMMA RecordedTypes ==
    ASSUME RuntimeTypes, NEW bad \in BOOLEAN, Recorded(bad) PROVE RuntimeTypes'
<1>1. CASE Over("return", bad)
  BY <1>1, OverTypes
<1>2. CASE run' = [run EXCEPT !.at = "finish", !.recorded = Done, !.bad = bad] /\ UNCHANGED <<host, slot, status, worker, published>>
  <2>1. Done \in SUBSET Worker
    BY DEF Done
  <2>2. run' \in Runs
    BY <1>2, <2>1 DEF RuntimeTypes, Runs
  <2> QED BY <1>2, <2>2 DEF RuntimeTypes
<1> QED BY <1>1, <1>2 DEF Recorded

LEMMA PipeEnds ==
    ASSUME pipe \in Pipes
    PROVE  HungUp \in Pipes /\ TornUp \in Pipes
<1>1. HungUp \in Pipes
  BY NoMessages DEF HungUp, Pipes, Place
<1>2. pipe.up \in Seq(Up) /\ [type |-> "torn", value |-> 0] \in Up
  BY DEF Pipes, Up
<1>3. Append(pipe.up, [type |-> "torn", value |-> 0]) \in Seq(Up)
  BY <1>2
<1>4. HungUp.up = pipe.up
  BY DEF HungUp, Pipes
<1>5. TornUp = [HungUp EXCEPT !.up = IF pipe.host = "closed" THEN pipe.up ELSE Append(pipe.up, [type |-> "torn", value |-> 0]), !.torn = TRUE]
  BY <1>1, <1>4 DEF TornUp, Pipes
<1>6. TornUp \in Pipes
  BY <1>1, <1>2, <1>3, <1>5 DEF Pipes
<1> QED BY <1>1, <1>6

LEMMA SentUpTypes ==
    ASSUME pipe \in Pipes, NEW m \in Up PROVE [pipe EXCEPT !.up = Append(pipe.up, m)] \in Pipes
<1>1. pipe.up \in Seq(Up)
  BY DEF Pipes
<1>2. Append(pipe.up, m) \in Seq(Up)
  BY <1>1
<1> QED BY <1>2, NoMessages, PipeClosed

\* A plugin whose workers run is through the handshake.
LEMMA WorkingIsStarted ==
    ASSUME Handshake, WorkersRun, Opening, HostTypes, \E w \in Worker : worker[w].at # "off" PROVE Started_ /\ ~Killed
<1>1. run.at \in {"run", "collect", "finish", "acknowledge"}
  BY DEF WorkersRun
<1>2. run.at \in Later /\ run.at # "exited"
  BY <1>1 DEF Later
<1>3. ~Killed
  BY <1>2 DEF Handshake
<1>4. CASE writer.at # "off"
  BY <1>3, <1>4 DEF Handshake
<1>5. CASE writer.at = "off"
  <2>1. ses.main = "ready"
    <3>1. ses.main \in {"launch", "accept", "hello", "ready"}
      BY <1>5, <1>3 DEF Opening, Killed, Unwatched
    <3>2. ~Unmet
      BY <1>1 DEF Unmet
    <3> QED BY <3>1, <3>2 DEF Handshake
  <2>2. Initializing
    BY <2>1 DEF Handshake
  <2>3. pipe.down = <<>>
    BY <1>1, <2>2 DEF Initializing
  <2> QED BY <1>2, <1>3, <2>3 DEF Started_
<1> QED BY <1>4, <1>5

LEMMA RuntimeTypesStep ==
    ASSUME Types, Handshake, WorkersRun, Opening, RuntimeNext PROVE RuntimeTypes' /\ PipeTypes'
<1>T. /\ run \in Runs /\ host \in Hosts /\ slot \in Slots /\ status \in Slots /\ worker \in [Worker -> Workers] /\ published \in 0 .. MaxPublish
      /\ proc \in [at : {"none", "alive", "exited"}, bad : BOOLEAN] /\ pipe \in Pipes
  BY DEF Types, RuntimeTypes, PipeTypes
<1>K. RuntimeTypes /\ HostTypes
  BY DEF Types
<1>1. ASSUME Connect PROVE RuntimeTypes' /\ PipeTypes'
  <2>1. pipe' \in Pipes
    BY <1>1, <1>T DEF Connect, Pipes, Place
  <2>2. run' \in Runs
    BY <1>T, <1>1 DEF Connect, Runs
  <2> QED BY <1>T, <1>1, <2>1, <2>2 DEF RuntimeTypes, PipeTypes, Connect
<1>2. ASSUME SendHello PROVE RuntimeTypes' /\ PipeTypes'
  <2>1. pipe' \in Pipes
    <3>1. PICK v \in HelloValue : pipe' = [pipe EXCEPT !.up = Append(pipe.up, [type |-> "hello", value |-> v])]
      BY <1>2 DEF SendHello, SentUp
    <3>2. [type |-> "hello", value |-> v] \in Up
      BY DEF Up
    <3> QED BY <1>T, <3>1, <3>2, SentUpTypes
  <2>2. run' \in Runs
    BY <1>T, <1>2 DEF SendHello, Runs
  <2> QED BY <1>T, <1>2, <2>1, <2>2 DEF RuntimeTypes, PipeTypes, SendHello
<1>3. ASSUME ReceiveInitialize PROVE RuntimeTypes' /\ PipeTypes'
  <2>1. host' \in Hosts /\ pipe' \in Pipes
    <3>1. pipe.down \in Seq(Down) /\ pipe.down # <<>> /\ Head(pipe.down).type = "initialize" /\ pipe' = [pipe EXCEPT !.down = Tail(pipe.down)]
          /\ host' = [host EXCEPT !.state = Head(pipe.down).value]
      BY <1>3, <1>T DEF ReceiveInitialize, Pipes
    <3>2. Head(pipe.down) \in Down /\ Tail(pipe.down) \in Seq(Down)
      BY <3>1
    <3>3. Head(pipe.down).value \in ControlState
      BY <3>1, <3>2, DownIs
    <3> QED BY <1>T, <3>1, <3>2, <3>3, NoMessages, PipeClosed DEF Hosts
  <2>2. run' \in Runs
    BY <1>T, <1>3 DEF ReceiveInitialize, Runs
  <2> QED BY <1>T, <1>3, <2>1, <2>2 DEF RuntimeTypes, PipeTypes, ReceiveInitialize
<1>4. ASSUME SendReady PROVE RuntimeTypes' /\ PipeTypes'
  <2>1. pipe' \in Pipes
    <3>1. [type |-> "ready", value |-> 0] \in Up
      BY DEF Up
    <3>2. pipe' = [pipe EXCEPT !.up = Append(pipe.up, [type |-> "ready", value |-> 0])]
      BY <1>4 DEF SendReady, SentUp
    <3> QED BY <1>T, <3>1, <3>2, SentUpTypes
  <2>2. run' \in Runs
    BY <1>T, <1>4 DEF SendReady, Runs
  <2>3. worker' \in [Worker -> Workers]
    BY <1>T, <1>4 DEF SendReady, Workers, Worker, Ends
  <2> QED BY <1>T, <1>4, <2>1, <2>2, <2>3 DEF RuntimeTypes, PipeTypes, SendReady
<1>5. ASSUME HandshakeFails PROVE RuntimeTypes' /\ PipeTypes'
  <2>1. RuntimeTypes'
    BY <1>5, OverTypes DEF HandshakeFails, Exit, Gone
  <2>2. pipe' \in Pipes
    BY <1>5, <1>T, PipeEnds DEF HandshakeFails, Exit
  <2>3. proc' \in [at : {"none", "alive", "exited"}, bad : BOOLEAN]
    BY <1>5, <1>T DEF HandshakeFails, Exit
  <2> QED BY <1>T, <1>5, <2>1, <2>2, <2>3 DEF RuntimeTypes, PipeTypes, HandshakeFails
<1>6. ASSUME PublishFrame PROVE RuntimeTypes' /\ PipeTypes'
  <2>1. slot' \in Slots
    <3>1. host.state.generation \in Nat
      BY <1>T DEF Hosts, ControlState
    <3> QED BY <1>T, <1>6, <3>1 DEF PublishFrame, Store, Slots
  <2>2. published' \in 0 .. MaxPublish
    BY <1>T, <1>6, RuntimeAssumption DEF PublishFrame
  <2> QED BY <1>T, <1>6, <2>1, <2>2 DEF RuntimeTypes, PipeTypes, PublishFrame
<1>7. ASSUME PublishStatus PROVE RuntimeTypes' /\ PipeTypes'
  <2>1. published' \in 0 .. MaxPublish
    BY <1>T, <1>7, RuntimeAssumption DEF PublishStatus
  <2>2. status' \in Slots
    BY <1>T, <1>7 DEF PublishStatus, Slots, Rest
  <2> QED BY <1>T, <1>7, <2>1, <2>2 DEF RuntimeTypes, PipeTypes, PublishStatus
<1>8. ASSUME TakeEvent PROVE RuntimeTypes' /\ PipeTypes'
  <2>1. host' \in Hosts
    BY <1>T, <1>8, RuntimeAssumption DEF TakeEvent, Hosts
  <2> QED BY <1>T, <1>8, <2>1 DEF RuntimeTypes, PipeTypes, TakeEvent
<1>9. ASSUME DriverReturns PROVE RuntimeTypes' /\ PipeTypes'
  <2>1. worker' \in [Worker -> Workers]
    BY <1>T, <1>9 DEF DriverReturns, Workers, Worker, Ends
  <2> QED BY <1>T, <1>9, <2>1 DEF RuntimeTypes, PipeTypes, DriverReturns
<1>10. ASSUME ReadControl PROVE RuntimeTypes' /\ PipeTypes'
  <2>1. host' \in Hosts /\ pipe' \in Pipes
    <3> DEFINE m == Head(pipe.down)
    <3>1. pipe.down \in Seq(Down) /\ pipe.down # <<>> /\ pipe' = [pipe EXCEPT !.down = Tail(pipe.down)]
      BY <1>10, <1>T DEF ReadControl, Pipes
    <3>2. m \in Down /\ Tail(pipe.down) \in Seq(Down) /\ m = pipe.down[1] /\ 1 \in DOMAIN pipe.down
      BY <3>1
    <3>3. m.type # "initialize"
      <4>1. "reader" \in Worker /\ worker["reader"].at # "off"
        BY <1>10 DEF ReadControl, Running, Worker
      <4> QED BY <4>1, <1>K, <3>2, WorkingIsStarted DEF Started_
    <3>4. CASE m.type = "shutdown"
      <4>1. host' = host \/ (host.events < EventCapacity /\ host' = [host EXCEPT !.accepted = TRUE, !.events = @ + 1])
        BY <1>10, <3>4 DEF ReadControl
      <4>2. host' \in Hosts
        <5>1. host.events < EventCapacity => host.events + 1 \in 0 .. EventCapacity
          BY <1>T, RuntimeAssumption DEF Hosts
        <5>2. host' = host \/ (host.events < EventCapacity /\ host' = [host EXCEPT !.accepted = TRUE, !.events = host.events + 1])
          BY <4>1
        <5> DEFINE n == host.events + 1
        <5> HIDE DEF n
        <5>3. host.events < EventCapacity => n \in 0 .. EventCapacity
          BY <5>1 DEF n
        <5>4. host' = host \/ (host.events < EventCapacity /\ host' = [host EXCEPT !.accepted = TRUE, !.events = n])
          BY <5>2 DEF n
        <5> QED BY <1>T, <5>3, <5>4 DEF Hosts
      <4> QED BY <1>T, <4>2, <3>1, <3>2, NoMessages, PipeClosed
    <3>5. CASE m.type # "shutdown"
      <4>1. m.type \in Kind /\ (m.type \in {"config", "generation"} => m.value \in Nat) /\ (m.type = "active" => m.value \in BOOLEAN)
        BY <3>2, <3>3, <3>5, DownIs DEF Kind
      <4>2. host.state \in ControlState
        BY <1>T DEF Hosts
      <4> HIDE DEF m
      <4>3. [host.state EXCEPT ![m.type] = m.value] \in ControlState
        BY <4>1, <4>2, ChangedState
      <4> DEFINE st == [host.state EXCEPT ![m.type] = m.value]
                 n == IF host.events < EventCapacity THEN host.events + 1 ELSE host.events
      <4>4. host' = host \/ host' = [host EXCEPT !.state = st, !.events = n]
        BY <1>10, <3>5 DEF ReadControl, m
      <4>5. n \in 0 .. EventCapacity
        BY <1>T, RuntimeAssumption DEF Hosts
      <4> HIDE DEF st, n
      <4>6. host' \in Hosts
        BY <1>T, <4>3, <4>4, <4>5 DEF Hosts, st
      <4> QED BY <1>T, <4>6, <3>1, <3>2, NoMessages, PipeClosed
    <3> QED BY <3>4, <3>5
  <2>2. slot' \in Slots
    BY <1>T, <1>10, RestIs DEF ReadControl, SlotAfter
  <2>3. worker' \in [Worker -> Workers]
    BY <1>T, <1>10 DEF ReadControl, Workers, Worker, Ends
  <2> QED BY <1>T, <1>10, <2>1, <2>2, <2>3 DEF RuntimeTypes, PipeTypes, ReadControl
<1>11. ASSUME ReadFails PROVE RuntimeTypes' /\ PipeTypes'
  <2>1. worker' \in [Worker -> Workers]
    BY <1>T, <1>11 DEF ReadFails, Workers, Worker, Ends
  <2> QED BY <1>T, <1>11, <2>1 DEF RuntimeTypes, PipeTypes, ReadFails
<1>12. ASSUME LoadFrame PROVE RuntimeTypes' /\ PipeTypes'
  <2>1. slot' \in Slots
    BY <1>T, <1>12 DEF LoadFrame, Slots, Rest, Store
  <2>2. worker' \in [Worker -> Workers]
    BY <1>T, <1>12 DEF LoadFrame, Workers, Worker, Ends
  <2> QED BY <1>T, <1>12, <2>1, <2>2 DEF RuntimeTypes, PipeTypes, LoadFrame
<1>13. ASSUME LoadStatus PROVE RuntimeTypes' /\ PipeTypes'
  <2>1. status' \in Slots
    BY <1>T, <1>13 DEF LoadStatus, Slots, Rest
  <2>2. worker' \in [Worker -> Workers]
    BY <1>T, <1>13 DEF LoadStatus, Workers, Worker, Ends
  <2> QED BY <1>T, <1>13, <2>1, <2>2 DEF RuntimeTypes, PipeTypes, LoadStatus
<1>14. ASSUME Heartbeat PROVE RuntimeTypes' /\ PipeTypes'
  <2>1. published' \in 0 .. MaxPublish
    BY <1>T, <1>14, RuntimeAssumption DEF Heartbeat
  <2>2. worker' \in [Worker -> Workers]
    BY <1>T, <1>14 DEF Heartbeat, Workers, Worker, Ends
  <2> QED BY <1>T, <1>14, <2>1, <2>2 DEF RuntimeTypes, PipeTypes, Heartbeat
<1>15. ASSUME WriteOutbound PROVE RuntimeTypes' /\ PipeTypes'
  <2>1. pipe' \in Pipes
    <3>1. worker["writer"].at \in Outbound /\ pipe' = [pipe EXCEPT !.up = Append(pipe.up, [type |-> worker["writer"].at, value |-> 0])]
      BY <1>15 DEF WriteOutbound, SentUp
    <3>2. [type |-> worker["writer"].at, value |-> 0] \in Up
      BY <3>1 DEF Up, Outbound
    <3> QED BY <1>T, <3>1, <3>2, SentUpTypes
  <2>2. worker' \in [Worker -> Workers]
    BY <1>T, <1>15 DEF WriteOutbound, Workers, Worker, Ends
  <2> QED BY <1>T, <1>15, <2>1, <2>2 DEF RuntimeTypes, PipeTypes, WriteOutbound
<1>16. ASSUME WriteFails PROVE RuntimeTypes' /\ PipeTypes'
  <2>1. pipe' \in Pipes
    BY <1>16, <1>T, PipeEnds DEF WriteFails
  <2>2. worker' \in [Worker -> Workers]
    BY <1>T, <1>16 DEF WriteFails, Workers, Worker, Ends
  <2> QED BY <1>T, <1>16, <2>1, <2>2 DEF RuntimeTypes, PipeTypes, WriteFails
<1>17. ASSUME FirstDone PROVE RuntimeTypes' /\ PipeTypes'
  <2>1. run' \in Runs
    BY <1>T, <1>17 DEF FirstDone, Runs
  <2> QED BY <1>T, <1>17, <2>1 DEF RuntimeTypes, PipeTypes, FirstDone
<1>18. ASSUME Collect PROVE RuntimeTypes' /\ PipeTypes'
  <2>1. RuntimeTypes'
    BY <1>18, <1>K, RecordedTypes DEF Collect
  <2> QED BY <1>T, <1>18, <2>1 DEF RuntimeTypes, PipeTypes, Collect
<1>19. ASSUME CollectTimeout PROVE RuntimeTypes' /\ PipeTypes'
  <2>1. RuntimeTypes'
    BY <1>19, <1>K, RecordedTypes, OverTypes DEF CollectTimeout
  <2>2. pipe' \in Pipes
    BY <1>19, <1>T, PipeEnds DEF CollectTimeout
  <2> QED BY <1>T, <1>19, <2>1, <2>2 DEF RuntimeTypes, PipeTypes, CollectTimeout
<1>20. ASSUME FinishTerminal PROVE RuntimeTypes' /\ PipeTypes'
  <2>1. pipe' \in Pipes
    <3>1. [type |-> "error", value |-> 0] \in Up
      BY DEF Up
    <3>2. pipe' = pipe \/ pipe' = [pipe EXCEPT !.up = Append(pipe.up, [type |-> "error", value |-> 0])]
      BY <1>20 DEF FinishTerminal, SentUp
    <3> QED BY <1>T, <3>1, <3>2, SentUpTypes
  <2>2. RuntimeTypes'
    <3>1. \E at \in {"return"}, bad \in BOOLEAN : Over(at, bad) \/ (run' = [run EXCEPT !.at = "acknowledge", !.bad = bad] /\ UNCHANGED <<host, slot, status, worker, published>>)
      <4>1. (run.bad \/ Failures # {}) \in BOOLEAN
        OBVIOUS
      <4> QED BY <1>20, <4>1 DEF FinishTerminal
    <3>2. ASSUME NEW bad \in BOOLEAN, run' = [run EXCEPT !.at = "acknowledge", !.bad = bad], UNCHANGED <<host, slot, status, worker, published>>
          PROVE  RuntimeTypes'
      BY <1>T, <3>2 DEF Runs, RuntimeTypes
    <3> QED BY <3>1, <3>2, OverTypes
  <2> QED BY <1>T, <1>20, <2>1, <2>2 DEF RuntimeTypes, PipeTypes, FinishTerminal
<1>21. ASSUME SendShutdownAck PROVE RuntimeTypes' /\ PipeTypes'
  <2>1. pipe' \in Pipes
    <3>1. [type |-> "ack", value |-> 0] \in Up
      BY DEF Up
    <3>2. pipe' = pipe \/ pipe' = [pipe EXCEPT !.up = Append(pipe.up, [type |-> "ack", value |-> 0])]
      BY <1>21 DEF SendShutdownAck, SentUp
    <3> QED BY <1>T, <3>1, <3>2, SentUpTypes
  <2>2. RuntimeTypes'
    <3>1. Over("return", run.bad) \/ Over("return", TRUE)
      BY <1>21 DEF SendShutdownAck
    <3>2. run.bad \in BOOLEAN
      BY <1>T DEF Runs
    <3> QED BY <3>1, <3>2, OverTypes
  <2> QED BY <1>T, <1>21, <2>1, <2>2 DEF RuntimeTypes, PipeTypes, SendShutdownAck
<1>22. ASSUME Return PROVE RuntimeTypes' /\ PipeTypes'
  <2>1. RuntimeTypes'
    BY <1>22, OverTypes DEF Return, Exit, Gone
  <2>2. pipe' \in Pipes
    BY <1>22, <1>T, PipeEnds DEF Return, Exit
  <2>3. proc' \in [at : {"none", "alive", "exited"}, bad : BOOLEAN]
    BY <1>22, <1>T DEF Return, Exit, Runs
  <2> QED BY <1>T, <1>22, <2>1, <2>2, <2>3 DEF RuntimeTypes, PipeTypes, Return
<1> QED BY <1>1, <1>2, <1>3, <1>4, <1>5, <1>6, <1>7, <1>8, <1>9, <1>10, <1>11, <1>12, <1>13, <1>14, <1>15, <1>16, <1>17, <1>18, <1>19, <1>20, <1>21, <1>22 DEF RuntimeNext

LEMMA TypesStep_ ==
    ASSUME Types, Handshake, WorkersRun, Opening, Calls, WriterKeeps, Next PROVE Types'
<1>1. CASE Host(SessionNext)
  <2>1. HostTypes' /\ PipeTypes'
    BY <1>1, HostTypesStep DEF Host
  <2>2. CASE Gone
    BY <2>1, <2>2, OverTypes DEF Gone, Types
  <2>3. CASE UNCHANGED runtimeVars
    BY <2>1, <2>3 DEF runtimeVars, Types, RuntimeTypes
  <2> QED BY <1>1, <2>2, <2>3 DEF Host
<1>2. CASE RuntimeNext /\ UNCHANGED hostVars
  <2>1. RuntimeTypes' /\ PipeTypes'
    BY <1>2, RuntimeTypesStep
  <2> QED BY <1>2, <2>1 DEF hostVars, Types, HostTypes
<1>3. ASSUME NEW torn \in BOOLEAN, ProcessDies(torn) PROVE Types'
  <2>1. RuntimeTypes'
    BY <1>3, OverTypes DEF ProcessDies, Gone
  <2>2. PipeTypes'
    BY <1>3, PipeEnds DEF ProcessDies, Types, PipeTypes
  <2> QED BY <1>3, <2>1, <2>2 DEF ProcessDies, hostVars, Types, HostTypes
<1> QED BY <1>1, <1>2, <1>3 DEF Next

-----------------------------------------------------------------------------
(* The handshake. *)

LEMMA NoHandshakeTail ==
    ASSUME NEW es \in Seq(Up), es # <<>>, NoHandshake(es) PROVE NoHandshake(Tail(es))
<1>1. \A i \in DOMAIN Tail(es) : i + 1 \in DOMAIN es /\ Tail(es)[i] = es[i + 1]
  OBVIOUS
<1> QED BY <1>1 DEF NoHandshake

LEMMA NoHandshakeAppend ==
    ASSUME NEW es \in Seq(Up), NoHandshake(es), NEW m \in Up, m.type \notin HandshakeType PROVE NoHandshake(Append(es, m))
<1>1. \A i \in DOMAIN Append(es, m) : (i \in DOMAIN es /\ Append(es, m)[i] = es[i]) \/ Append(es, m)[i] = m
  OBVIOUS
<1> QED BY <1>1 DEF NoHandshake

\* Appending behind the first.
LEMMA BehindHead ==
    ASSUME NEW S, NEW es \in Seq(S), es # <<>>, NEW m \in S
    PROVE  Append(es, m) # <<>> /\ Head(Append(es, m)) = Head(es) /\ Tail(Append(es, m)) = Append(Tail(es), m)
<1>1. Append(es, m) \in Seq(S) /\ Len(Append(es, m)) = Len(es) + 1 /\ Len(es) \in Nat \ {0} /\ Head(Append(es, m)) = Head(es)
  OBVIOUS
<1>2. Tail(Append(es, m)) \in Seq(S) /\ Len(Tail(Append(es, m))) = Len(es) /\ \A i \in 1 .. Len(es) : Tail(Append(es, m))[i] = Append(es, m)[i + 1]
  BY <1>1
<1>3. Append(Tail(es), m) \in Seq(S) /\ Len(Append(Tail(es), m)) = Len(es)
      /\ \A i \in 1 .. Len(es) : Append(Tail(es), m)[i] = Append(es, m)[i + 1]
  <2>1. Tail(es) \in Seq(S) /\ Len(Tail(es)) = Len(es) - 1 /\ \A i \in 1 .. Len(es) - 1 : Tail(es)[i] = es[i + 1]
    BY <1>1
  <2>2. Append(Tail(es), m) \in Seq(S) /\ Len(Append(Tail(es), m)) = Len(es)
        /\ (\A i \in 1 .. Len(es) - 1 : Append(Tail(es), m)[i] = Tail(es)[i]) /\ Append(Tail(es), m)[Len(es)] = m
    BY <2>1, <1>1
  <2>3. (\A i \in 1 .. Len(es) : Append(es, m)[i] = es[i]) /\ Append(es, m)[Len(es) + 1] = m
    OBVIOUS
  <2>4. ASSUME NEW i \in 1 .. Len(es) PROVE Append(Tail(es), m)[i] = Append(es, m)[i + 1]
    <3>1. CASE i = Len(es)
      BY <3>1, <2>2, <2>3
    <3>2. CASE i # Len(es)
      <4>1. i \in 1 .. Len(es) - 1 /\ i + 1 \in 1 .. Len(es)
        BY <3>2, <1>1
      <4> QED BY <4>1, <2>1, <2>2, <2>3
    <3> QED BY <3>1, <3>2
  <2> QED BY <2>2, <2>4
<1>4. \A i \in 1 .. Len(es) : Tail(Append(es, m))[i] = Append(Tail(es), m)[i]
  BY <1>2, <1>3
<1>5. Tail(Append(es, m)) = Append(Tail(es), m)
  BY <1>2, <1>3, <1>4, SeqEqual
<1> QED BY <1>1, <1>5

Early == {"launch", "accept", "hello", "ready"}

\* What a step of the host leaves of the other end.
HostLeaves ==
    /\ proc' = proc /\ pipe'.plugin = pipe.plugin
    /\ pipe'.up = pipe.up \/ pipe'.up = <<>> \/ (pipe.up # <<>> /\ pipe'.up = Tail(pipe.up))
    /\ pipe'.down = pipe.down \/ \E o \in Owners : pipe'.down = Append(pipe.down, Message(o))
    /\ Killed => Killed'
    /\ IF Killed' /\ ~Killed THEN run'.at = "exited" ELSE run' = run

\* The host is past the handshake.
LEMMA PastHandshake ==
    ASSUME Types, Handshake, HostLeaves, ses'.main \notin Early, writer'.at # "off" => writer.at # "off" PROVE Handshake'
<1>1. pipe.up \in Seq(Up) /\ pipe.down \in Seq(Down)
  BY DEF Types, PipeTypes, Pipes
<1>2. ASSUME writer'.at # "off" PROVE Started_' /\ NoHandshake(pipe'.up)
  <2>1. Started_ /\ NoHandshake(pipe.up)
    BY <1>2 DEF Handshake
  <2>2. run'.at \in Later
    BY <2>1 DEF HostLeaves, Started_, Later
  <2>3. NoHandshake(pipe'.up)
    <3>1. NoHandshake(<<>>)
      BY DEF NoHandshake
    <3> QED BY <2>1, <1>1, <3>1, NoHandshakeTail DEF HostLeaves
  <2>4. \A i \in DOMAIN pipe'.down : pipe'.down[i].type # "initialize"
    <3>1. CASE pipe'.down = pipe.down
      BY <3>1, <2>1 DEF Started_
    <3>2. ASSUME NEW o \in Owners, pipe'.down = Append(pipe.down, Message(o)) PROVE \A i \in DOMAIN pipe'.down : pipe'.down[i].type # "initialize"
      <4>1. Message(o) \in Down /\ Message(o).type # "initialize"
        BY MessageIs DEF Owners, Kind
      <4>2. \A i \in DOMAIN Append(pipe.down, Message(o)) : (i \in DOMAIN pipe.down /\ Append(pipe.down, Message(o))[i] = pipe.down[i]) \/ Append(pipe.down, Message(o))[i] = Message(o)
        BY <1>1, <4>1
      <4> QED BY <3>2, <4>1, <4>2, <2>1 DEF Started_
    <3> QED BY <3>1, <3>2 DEF HostLeaves
  <2> QED BY <2>2, <2>3, <2>4 DEF Started_
<1>3. Killed' => run'.at = "exited"
  BY DEF HostLeaves, Handshake
<1>4. run'.at = "exited" => Killed' \/ proc'.at = "exited"
  BY DEF HostLeaves, Handshake
<1>5. proc'.at # "alive" => pipe'.plugin # "open"
  BY DEF HostLeaves, Handshake
<1> QED BY <1>2, <1>3, <1>4, <1>5 DEF Handshake, Early

LEMMA HandshakeKept ==
    ASSUME Handshake, UNCHANGED <<pipe, proc, runtimeVars>>, ses'.main = ses.main, writer'.at = writer.at PROVE Handshake'
BY DEF Handshake, Unmet, Initializing, Started_, NoHandshake, Killed, Unwatched, runtimeVars

LEMMA HostLeavesOther ==
    ASSUME Types, Opening, WriterKeeps, NEW step, step => SessionNext, Host(step), ~Launch, ~HelloReceived PROVE HostLeaves
<1>0. pipe \in Pipes /\ ses \in Sessions /\ writer \in Writers
  BY DEF Types, HostTypes, PipeTypes
<1>1. Killed' /\ ~Killed => run'.at = "exited"
  BY DEF Host, Gone, Over
<1>2. ~ (Killed' /\ ~Killed) => run' = run
  BY DEF Host, runtimeVars
<1>C. Close(pipe).plugin = pipe.plugin /\ Close(pipe).up = <<>> /\ Close(pipe).down = pipe.down
  BY <1>0 DEF Close, Pipes
<1> DEFINE G == /\ proc' = proc /\ pipe'.plugin = pipe.plugin
                /\ pipe'.up = pipe.up \/ pipe'.up = <<>> \/ (pipe.up # <<>> /\ pipe'.up = Tail(pipe.up))
                /\ pipe'.down = pipe.down \/ \E o \in Owners : pipe'.down = Append(pipe.down, Message(o))
                /\ Killed => Killed' 
<1>10. ASSUME NEW c \in Call, Control(c) PROVE G
  BY <1>10, <1>0 DEF Control, Killed, Unwatched, Sessions
<1>11. ASSUME NEW c \in Call, RemovePendingControl(c) PROVE G
  BY <1>11, <1>0 DEF RemovePendingControl, Killed, Unwatched, Sessions
<1>12. ASSUME Stop PROVE G
  BY <1>12, <1>0 DEF Stop, Killed, Unwatched, Sessions
<1>13. ASSUME LaunchFails PROVE G
  BY <1>13, <1>0 DEF LaunchFails, Killed, Unwatched, Sessions, End, Ended
<1>14. ASSUME Accept PROVE G
  BY <1>14, <1>0 DEF Accept, Pipes, Killed, Unwatched
<1>15. ASSUME StartupFails PROVE G
  BY <1>15, <1>0 DEF StartupFails, Killed, Unwatched, Sessions
<1>16. ASSUME CleanupStartedProcess PROVE G
  BY <1>16, <1>0, <1>C DEF CleanupStartedProcess, Killed, Unwatched, Sessions, End, Ended
<1>17. ASSUME ReadyReceived PROVE G
  BY <1>17, <1>0 DEF ReadyReceived, Pipes, Killed, Unwatched
<1>18. ASSUME ReplayPendingControls PROVE G
  BY <1>18, <1>0 DEF ReplayPendingControls, Killed, Unwatched, Sessions, BeginShutdown
<1>19. ASSUME ReplayAnswered PROVE G
  BY <1>19, <1>0 DEF ReplayAnswered, Killed, Unwatched, Sessions, ReplayStops
<1>20. ASSUME ReplayExit PROVE G
  BY <1>20, <1>0, <1>C DEF ReplayExit, Killed, Unwatched, Sessions
<1>21. ASSUME ReplayInterrupted PROVE G
  BY <1>21, <1>0 DEF ReplayInterrupted, Killed, Unwatched, Sessions, ReplayStops
<1>22. ASSUME CompleteReplayControl PROVE G
  BY <1>22, <1>0 DEF CompleteReplayControl, Killed, Unwatched, Sessions, Ended
<1>23. ASSUME RuntimeEnds PROVE G
  BY <1>23, <1>0 DEF RuntimeEnds, Killed, Unwatched, Sessions, BeginShutdown
<1>24. ASSUME RuntimeExit PROVE G
  BY <1>24, <1>0 DEF RuntimeExit, Killed, Unwatched, Sessions
<1>25. ASSUME DrainReader PROVE G
  BY <1>25, <1>0, <1>C DEF DrainReader, Killed, Unwatched, Sessions
<1>26. ASSUME StopWriter PROVE G
  BY <1>26, <1>0 DEF StopWriter, Killed, Unwatched, Sessions, End, Ended
<1>27. ASSUME ShutdownSent PROVE G
  BY <1>27, <1>0 DEF ShutdownSent, Killed, Unwatched, Sessions
<1>28. ASSUME ShutdownWaits PROVE G
  BY <1>28, <1>0 DEF ShutdownWaits, Killed, Unwatched, Sessions
<1>29. ASSUME ShutdownDone PROVE G
  BY <1>29, <1>0, <1>C DEF ShutdownDone, Killed, Unwatched, Sessions, Finish, End, Ended
<1>30. ASSUME GracefulTimeout PROVE G
  BY <1>30, <1>0, <1>C DEF GracefulTimeout, Killed, Unwatched, Sessions, Finish, End, Ended
<1>31. ASSUME KillTimeout PROVE G
  BY <1>31, <1>0 DEF KillTimeout, Killed, Unwatched, Sessions, Finish, End, Ended
<1>32. ASSUME NEW c \in Call, WriterControl(c) PROVE G
  BY <1>32, <1>0 DEF WriterControl, Killed, Unwatched, Sessions
<1>33. ASSUME WriterShutdown PROVE G
  BY <1>33, <1>0 DEF WriterShutdown, Killed, Unwatched, Sessions
<1>34. ASSUME WriterTakes PROVE G
  BY <1>34, <1>0 DEF WriterTakes, Killed, Unwatched, Sessions
<1>35. ASSUME WriterSends PROVE G
  <2>1. writer.current \in Owners /\ UNCHANGED <<ses, proc>> /\ pipe' = [pipe EXCEPT !.down = Append(@, Message(writer.current))]
    BY <1>35, <1>0 DEF WriterSends, WriterKeeps, Writers
  <2> QED BY <2>1, <1>0 DEF Pipes, Killed, Unwatched
<1>36. ASSUME WriterFails PROVE G
  BY <1>36, <1>0 DEF WriterFails, Killed, Unwatched, Sessions
<1>37. ASSUME ReaderReceives PROVE G
  BY <1>37, <1>0 DEF ReaderReceives, Pipes, Killed, Unwatched
<1>38. ASSUME Submit PROVE G
  BY <1>38, <1>0 DEF Submit, Killed, Unwatched, Sessions
<1>39. ASSUME QueueAck PROVE G
  BY <1>39, <1>0 DEF QueueAck, Killed, Unwatched, Sessions
<1>40. ASSUME CheckAck PROVE G
  BY <1>40, <1>0 DEF CheckAck, Killed, Unwatched, Sessions
<1>41. ASSUME ReaderFails PROVE G
  BY <1>41, <1>0 DEF ReaderFails, Killed, Unwatched, Sessions
<1>3. G
  BY <1>10, <1>11, <1>12, <1>13, <1>14, <1>15, <1>16, <1>17, <1>18, <1>19, <1>20, <1>21, <1>22, <1>23, <1>24, <1>25, <1>26, <1>27, <1>28, <1>29, <1>30, <1>31, <1>32, <1>33, <1>34, <1>35, <1>36, <1>37, <1>38, <1>39, <1>40, <1>41 DEF Host, SessionNext, SessionMain, SessionWriter, SessionReader, Callers
<1> QED BY <1>1, <1>2, <1>3 DEF HostLeaves

LEMMA HandshakeHost ==
    ASSUME Types, Handshake, Opening, WriterKeeps, Host(SessionNext) PROVE Handshake'
<1>0. pipe.up \in Seq(Up) /\ pipe.down \in Seq(Down) /\ pipe \in Pipes /\ ses \in Sessions /\ writer \in Writers /\ reader \in Readers
  BY DEF Types, HostTypes, PipeTypes, Pipes
<1>1. CASE Launch
  <2>1. Killed' = FALSE /\ UNCHANGED <<runtimeVars, pipe, writer>> /\ ses'.main = "accept" /\ proc'.at = "alive" /\ ses.main = "launch"
    BY <1>1, <1>0 DEF Launch, Host, Killed, Unwatched, Sessions, PipeTypes, Types
  <2> QED BY <2>1 DEF Handshake, Unmet, Initializing, Started_, NoHandshake, Killed, Unwatched, runtimeVars
<1>2. CASE HelloReceived
  <2>1. Killed' = FALSE /\ Killed = FALSE /\ UNCHANGED <<runtimeVars, writer, proc>> /\ ses'.main = "ready" /\ ses.main = "hello"
    BY <1>2, <1>0 DEF HelloReceived, Host, Killed, Unwatched, Sessions
  <2>2. run.at # "exited" /\ writer.at = "off"
    BY <1>2, <2>1 DEF Handshake, HelloReceived, Opening
  <2>3. pipe.down = <<>> /\ Tail(pipe.up) = <<>> /\ run.at = "initialize"
    BY <2>1, <2>2, <1>2 DEF HelloReceived, Handshake, Unmet
  <2>4. pipe'.host = pipe.host /\ pipe'.plugin = pipe.plugin /\ pipe'.up = Tail(pipe.up) /\ pipe'.down = Append(pipe.down, [type |-> "initialize", value |-> Startup])
    BY <1>2, <1>0 DEF HelloReceived, Pipes
  <2>5. pipe'.down = <<[type |-> "initialize", value |-> Startup]>>
    BY <2>3, <2>4
  <2>6. Initializing'
    BY <2>1, <2>3, <2>4, <2>5 DEF Initializing, runtimeVars
  <2>7. pipe'.host = "open"
    BY <2>1, <2>4 DEF Handshake
  <2> QED BY <2>1, <2>2, <2>4, <2>6, <2>7 DEF Handshake, runtimeVars
<1>3. CASE ReadyReceived
  <2>1. Killed' = FALSE /\ Killed = FALSE /\ UNCHANGED <<runtimeVars, proc>> /\ ses'.main = "replay" /\ ses.main = "ready"
    BY <1>3, <1>0 DEF ReadyReceived, Host, Killed, Unwatched, Sessions
  <2>2. pipe.up # <<>> /\ pipe'.plugin = pipe.plugin /\ pipe'.up = Tail(pipe.up) /\ pipe'.down = pipe.down
    BY <1>3, <1>0 DEF ReadyReceived, Pipes
  <2>3. pipe.down = <<>> /\ run.at \in Later /\ NoHandshake(Tail(pipe.up))
    BY <2>1, <2>2 DEF Handshake, Initializing
  <2>4. Started_' /\ NoHandshake(pipe'.up)
    BY <2>1, <2>2, <2>3 DEF Started_, runtimeVars
  <2> QED BY <2>1, <2>2, <2>4 DEF Handshake, runtimeVars, NoHandshake
<1>4. CASE Accept
  <2>1. Killed' = FALSE /\ Killed = FALSE /\ UNCHANGED <<runtimeVars, proc, writer>> /\ ses'.main = "hello" /\ ses.main = "accept"
    BY <1>4, <1>0 DEF Accept, Host, Killed, Unwatched, Sessions
  <2>2. pipe'.host = "open" /\ pipe'.plugin = pipe.plugin /\ pipe'.up = pipe.up /\ pipe'.down = pipe.down
    BY <1>4, <1>0 DEF Accept, Pipes
  <2>3. writer.at = "off"
    BY <2>1 DEF Opening
  <2> QED BY <2>1, <2>2, <2>3 DEF Handshake, Unmet, runtimeVars
<1>5. HostLeaves \/ Launch \/ HelloReceived
  BY HostLeavesOther
<1>6. CASE (\E c \in Call : Control(c) \/ RemovePendingControl(c)) \/ Stop \/ (\E c \in Call : WriterControl(c)) \/ WriterShutdown \/ Submit \/ QueueAck \/ CheckAck \/ ReaderFails
  <2>1. UNCHANGED <<pipe, proc>> /\ ses'.main = ses.main /\ writer'.at = writer.at
    BY <1>6, <1>0 DEF Control, RemovePendingControl, Stop, WriterControl, WriterShutdown, Submit, QueueAck, CheckAck, ReaderFails, Writers, Sessions
  <2>2. UNCHANGED runtimeVars
    BY <2>1 DEF Host, Killed, Unwatched
  <2> QED BY <2>1, <2>2, HandshakeKept
<1>7. CASE WriterTakes \/ WriterSends \/ WriterFails \/ ReaderReceives
  <2>1. writer.at # "off" /\ ses' = ses
    <3>1. ReaderReceives => writer.at # "off" /\ ses' = ses
      <4>1. ReaderReceives => reader.at = "receiving" /\ ses' = ses
        BY DEF ReaderReceives
      <4>2. writer.at = "off" => reader.at = "off"
        BY DEF Opening, ReaderOff
      <4> QED BY <4>1, <4>2
    <3>2. WriterTakes => writer.at # "off" /\ ses' = ses
      BY DEF WriterTakes
    <3>3. WriterSends => writer.at # "off" /\ ses' = ses
      BY DEF WriterSends
    <3>4. WriterFails => writer.at # "off" /\ ses' = ses
      BY DEF WriterFails
    <3> QED BY <1>7, <3>1, <3>2, <3>3, <3>4
  <2>2. ses.main \notin Early
    BY <2>1 DEF Opening, Early
  <2>3. ~Launch /\ ~HelloReceived
    BY <2>1, <2>2 DEF Launch, HelloReceived, Early
  <2> QED BY <2>1, <2>2, <2>3, <1>5, PastHandshake
<1>20. CASE LaunchFails
  <2>1. ses'.main \notin Early /\ writer'.at = writer.at
    BY <1>20, <1>0 DEF LaunchFails, Sessions, Writers, Early, End, Ended
  <2> QED BY <2>1, <1>1, <1>2, <1>5, PastHandshake
<1>21. CASE StartupFails
  <2>1. ses'.main \notin Early /\ writer'.at = writer.at
    BY <1>21, <1>0 DEF StartupFails, Sessions, Writers, Early
  <2> QED BY <2>1, <1>1, <1>2, <1>5, PastHandshake
<1>22. CASE CleanupStartedProcess
  <2>1. ses'.main \notin Early /\ writer'.at = writer.at
    BY <1>22, <1>0 DEF CleanupStartedProcess, Sessions, Writers, Early, End, Ended
  <2> QED BY <2>1, <1>1, <1>2, <1>5, PastHandshake
<1>23. CASE ReplayPendingControls
  <2>1. ses'.main \notin Early /\ writer'.at = writer.at
    BY <1>23, <1>0 DEF ReplayPendingControls, Sessions, Writers, Early, BeginShutdown
  <2> QED BY <2>1, <1>1, <1>2, <1>5, PastHandshake
<1>24. CASE ReplayAnswered
  <2>1. ses'.main \notin Early /\ writer'.at = writer.at
    BY <1>24, <1>0 DEF ReplayAnswered, Sessions, Writers, Early, ReplayStops
  <2> QED BY <2>1, <1>1, <1>2, <1>5, PastHandshake
<1>25. CASE ReplayExit
  <2>1. ses'.main \notin Early /\ writer'.at = writer.at
    BY <1>25, <1>0 DEF ReplayExit, Sessions, Writers, Early
  <2> QED BY <2>1, <1>1, <1>2, <1>5, PastHandshake
<1>26. CASE ReplayInterrupted
  <2>1. ses'.main \notin Early /\ writer'.at = writer.at
    BY <1>26, <1>0 DEF ReplayInterrupted, Sessions, Writers, Early, ReplayStops
  <2> QED BY <2>1, <1>1, <1>2, <1>5, PastHandshake
<1>27. CASE CompleteReplayControl
  <2>1. ses'.main \notin Early /\ writer'.at = writer.at
    BY <1>27, <1>0 DEF CompleteReplayControl, Sessions, Writers, Early, Ended
  <2> QED BY <2>1, <1>1, <1>2, <1>5, PastHandshake
<1>28. CASE RuntimeEnds
  <2>1. ses'.main \notin Early /\ writer'.at = writer.at
    BY <1>28, <1>0 DEF RuntimeEnds, Sessions, Writers, Early, BeginShutdown
  <2> QED BY <2>1, <1>1, <1>2, <1>5, PastHandshake
<1>29. CASE RuntimeExit
  <2>1. ses'.main \notin Early /\ writer'.at = writer.at
    BY <1>29, <1>0 DEF RuntimeExit, Sessions, Writers, Early
  <2> QED BY <2>1, <1>1, <1>2, <1>5, PastHandshake
<1>30. CASE DrainReader
  <2>1. ses'.main \notin Early /\ writer'.at = writer.at
    BY <1>30, <1>0 DEF DrainReader, Sessions, Writers, Early
  <2> QED BY <2>1, <1>1, <1>2, <1>5, PastHandshake
<1>31. CASE StopWriter
  <2>1. ses'.main \notin Early /\ writer'.at = writer.at
    BY <1>31, <1>0 DEF StopWriter, Sessions, Writers, Early, End, Ended
  <2> QED BY <2>1, <1>1, <1>2, <1>5, PastHandshake
<1>32. CASE ShutdownSent
  <2>1. ses'.main \notin Early /\ writer'.at = writer.at
    BY <1>32, <1>0 DEF ShutdownSent, Sessions, Writers, Early
  <2> QED BY <2>1, <1>1, <1>2, <1>5, PastHandshake
<1>33. CASE ShutdownWaits
  <2>1. ses'.main \notin Early /\ writer'.at = writer.at
    BY <1>33, <1>0 DEF ShutdownWaits, Sessions, Writers, Early
  <2> QED BY <2>1, <1>1, <1>2, <1>5, PastHandshake
<1>34. CASE ShutdownDone
  <2>1. ses'.main \notin Early /\ writer'.at = writer.at
    BY <1>34, <1>0 DEF ShutdownDone, Sessions, Writers, Early, Finish, End, Ended
  <2> QED BY <2>1, <1>1, <1>2, <1>5, PastHandshake
<1>35. CASE GracefulTimeout
  <2>1. ses'.main \notin Early /\ writer'.at = writer.at
    BY <1>35, <1>0 DEF GracefulTimeout, Sessions, Writers, Early, Finish, End, Ended
  <2> QED BY <2>1, <1>1, <1>2, <1>5, PastHandshake
<1>36. CASE KillTimeout
  <2>1. ses'.main \notin Early /\ writer'.at = writer.at
    BY <1>36, <1>0 DEF KillTimeout, Sessions, Writers, Early, Finish, End, Ended
  <2> QED BY <2>1, <1>1, <1>2, <1>5, PastHandshake
<1> QED BY <1>1, <1>2, <1>3, <1>4, <1>6, <1>7, <1>20, <1>21, <1>22, <1>23, <1>24, <1>25, <1>26, <1>27, <1>28, <1>29, <1>30, <1>31, <1>32, <1>33, <1>34, <1>35, <1>36 DEF Host, SessionNext, SessionMain, SessionWriter, SessionReader, Callers

\* What a step of the plugin that is past the handshake leaves.
RuntimeLeaves ==
    /\ run.at \in Later \ {"exited"} /\ run'.at \in Later
    /\ pipe'.host = pipe.host
    /\ pipe'.up = pipe.up \/ \E m \in Up : m.type \notin HandshakeType /\ pipe'.up = Append(pipe.up, m)
    /\ pipe'.down = pipe.down \/ pipe'.down = <<>> \/ (pipe.down # <<>> /\ pipe'.down = Tail(pipe.down))
    /\ pipe'.plugin = pipe.plugin \/ pipe'.plugin # "open"
    /\ proc'.at = proc.at \/ (proc'.at = "exited" /\ pipe'.plugin # "open")
    /\ run'.at = "exited" => proc'.at = "exited"

LEMMA PluginEnds ==
    ASSUME pipe \in Pipes
    PROVE  /\ HungUp.host = pipe.host /\ HungUp.up = pipe.up /\ HungUp.down = <<>> /\ HungUp.plugin # "open"
           /\ TornUp.host = pipe.host /\ TornUp.down = <<>> /\ TornUp.plugin # "open"
           /\ \/ TornUp.up = pipe.up
              \/ [type |-> "torn", value |-> 0] \in Up /\ TornUp.up = Append(pipe.up, [type |-> "torn", value |-> 0])
BY DEF Pipes, HungUp, TornUp, Up

LEMMA RuntimeLeavesOther ==
    ASSUME Types, WorkersRun, RuntimeNext, ~Connect, ~SendHello, ~ReceiveInitialize, ~SendReady, ~HandshakeFails PROVE RuntimeLeaves
<1>0. pipe \in Pipes /\ run \in Runs /\ worker \in [Worker -> Workers] /\ proc \in [at : {"none", "alive", "exited"}, bad : BOOLEAN]
  BY DEF Types, RuntimeTypes, PipeTypes
<1>U. \A t \in {"torn", "frame", "status", "heartbeat", "error", "ack"} : [type |-> t, value |-> 0] \in Up /\ t \notin HandshakeType
  BY DEF Up, HandshakeType
<1>S. \A t \in {"torn", "frame", "status", "heartbeat", "error", "ack"} :
         SentUp(t, 0).host = pipe.host /\ SentUp(t, 0).plugin = pipe.plugin /\ SentUp(t, 0).down = pipe.down /\ SentUp(t, 0).up = Append(pipe.up, [type |-> t, value |-> 0])
  BY <1>0 DEF SentUp, Pipes
<1>O. \A at, bad : Over(at, bad) => run'.at = at
  BY DEF Over
<1>R. \A w \in Worker : worker[w].at # "off" => run.at \in {"run", "collect", "finish", "acknowledge"}
  BY DEF WorkersRun
<1>E. HungUp.host = pipe.host /\ HungUp.up = pipe.up /\ HungUp.down = <<>> /\ HungUp.plugin # "open"
      /\ TornUp.host = pipe.host /\ TornUp.down = <<>> /\ TornUp.plugin # "open"
      /\ (TornUp.up = pipe.up \/ TornUp.up = Append(pipe.up, [type |-> "torn", value |-> 0]))
  BY <1>0, PluginEnds
<1>10. CASE PublishFrame
  BY <1>10, <1>0, <1>R DEF PublishFrame, RuntimeLeaves, Later, Worker, Running, WriterIs, Outbound
<1>11. CASE PublishStatus
  BY <1>11, <1>0, <1>R DEF PublishStatus, RuntimeLeaves, Later, Worker, Running, WriterIs, Outbound
<1>12. CASE TakeEvent
  BY <1>12, <1>0, <1>R DEF TakeEvent, RuntimeLeaves, Later, Worker, Running, WriterIs, Outbound
<1>13. CASE DriverReturns
  BY <1>13, <1>0, <1>R DEF DriverReturns, RuntimeLeaves, Later, Worker, Running, WriterIs, Outbound
<1>14. CASE ReadControl
  BY <1>14, <1>0, <1>R, <1>U, <1>E, <1>S DEF ReadControl, RuntimeLeaves, Later, Worker, Running, WriterIs, Outbound, Pipes
<1>15. CASE ReadFails
  BY <1>15, <1>0, <1>R DEF ReadFails, RuntimeLeaves, Later, Worker, Running, WriterIs, Outbound
<1>16. CASE LoadFrame
  BY <1>16, <1>0, <1>R DEF LoadFrame, RuntimeLeaves, Later, Worker, Running, WriterIs, Outbound
<1>17. CASE LoadStatus
  BY <1>17, <1>0, <1>R DEF LoadStatus, RuntimeLeaves, Later, Worker, Running, WriterIs, Outbound
<1>18. CASE Heartbeat
  BY <1>18, <1>0, <1>R DEF Heartbeat, RuntimeLeaves, Later, Worker, Running, WriterIs, Outbound
<1>19. CASE WriteOutbound
  BY <1>19, <1>0, <1>R, <1>U, <1>E, <1>S DEF WriteOutbound, RuntimeLeaves, Later, Worker, Running, WriterIs, Outbound
<1>20. CASE WriteFails
  BY <1>20, <1>0, <1>R, <1>U, <1>E, <1>S DEF WriteFails, RuntimeLeaves, Later, Worker, Running, WriterIs, Outbound
<1>21. CASE FirstDone
  BY <1>21, <1>0, <1>R DEF FirstDone, RuntimeLeaves, Later, Worker, Running, WriterIs, Outbound, Runs
<1>22. CASE Collect
  BY <1>22, <1>0, <1>R, <1>O DEF Collect, RuntimeLeaves, Later, Worker, Running, WriterIs, Outbound, Recorded, Runs
<1>23. CASE CollectTimeout
  BY <1>23, <1>0, <1>R, <1>U, <1>E, <1>S, <1>O DEF CollectTimeout, RuntimeLeaves, Later, Worker, Running, WriterIs, Outbound, Recorded, Runs
<1>24. CASE FinishTerminal
  BY <1>24, <1>0, <1>R, <1>U, <1>E, <1>S, <1>O DEF FinishTerminal, RuntimeLeaves, Later, Worker, Running, WriterIs, Outbound, Recorded, Runs
<1>25. CASE SendShutdownAck
  BY <1>25, <1>0, <1>R, <1>U, <1>E, <1>S, <1>O DEF SendShutdownAck, RuntimeLeaves, Later, Worker, Running, WriterIs, Outbound, Recorded, Runs
<1>26. CASE Return
  BY <1>26, <1>0, <1>R, <1>U, <1>E, <1>S, <1>O DEF Return, RuntimeLeaves, Later, Worker, Running, WriterIs, Outbound, Exit, Gone, Runs
<1> QED BY <1>10, <1>11, <1>12, <1>13, <1>14, <1>15, <1>16, <1>17, <1>18, <1>19, <1>20, <1>21, <1>22, <1>23, <1>24, <1>25, <1>26 DEF RuntimeNext

\* The plugin is past the handshake.
LEMMA PluginPastHandshake ==
    ASSUME Types, Handshake, Opening, RuntimeLeaves, UNCHANGED hostVars, ~Unwatched PROVE Handshake'
<1>0. pipe.up \in Seq(Up) /\ pipe.down \in Seq(Down) /\ ses \in Sessions
  BY DEF Types, HostTypes, PipeTypes, Pipes
<1>1. ses' = ses /\ writer' = writer /\ Killed' = Killed
  BY DEF hostVars, Killed, Unwatched
<1>2. ASSUME NoHandshake(pipe.up) PROVE NoHandshake(pipe'.up)
  BY <1>0, <1>2, NoHandshakeAppend DEF RuntimeLeaves
<1>3. ASSUME Started_ PROVE Started_'
  <2>1. pipe'.down = <<>> => \A i \in DOMAIN pipe'.down : pipe'.down[i].type # "initialize"
    OBVIOUS
  <2>2. ASSUME pipe.down # <<>>, pipe'.down = Tail(pipe.down) PROVE \A i \in DOMAIN pipe'.down : pipe'.down[i].type # "initialize"
    <3>1. \A i \in DOMAIN Tail(pipe.down) : i + 1 \in DOMAIN pipe.down /\ Tail(pipe.down)[i] = pipe.down[i + 1]
      BY <1>0, <2>2
    <3> QED BY <3>1, <2>2, <1>3 DEF Started_
  <2> QED BY <2>1, <2>2, <1>3 DEF Started_, RuntimeLeaves
<1>4. ASSUME ses.main = "ready" PROVE Initializing'
  <2>1. pipe.down = <<>> /\ pipe.up # <<>> /\ Head(pipe.up).type = "ready" /\ NoHandshake(Tail(pipe.up))
    BY <1>4 DEF Handshake, Initializing, RuntimeLeaves, Later
  <2>2. pipe'.down = <<>>
    BY <2>1 DEF RuntimeLeaves
  <2>3. pipe'.up # <<>> /\ Head(pipe'.up).type = "ready" /\ NoHandshake(Tail(pipe'.up))
    <3>1. ASSUME NEW m \in Up, m.type \notin HandshakeType, pipe'.up = Append(pipe.up, m) PROVE pipe'.up # <<>> /\ Head(pipe'.up).type = "ready" /\ NoHandshake(Tail(pipe'.up))
      <4>1. pipe'.up # <<>> /\ Head(pipe'.up) = Head(pipe.up) /\ Tail(pipe'.up) = Append(Tail(pipe.up), m)
        BY <2>1, <3>1, <1>0, BehindHead
      <4>2. Tail(pipe.up) \in Seq(Up)
        BY <2>1, <1>0
      <4> QED BY <4>1, <4>2, <2>1, <3>1, NoHandshakeAppend
    <3> QED BY <2>1, <3>1 DEF RuntimeLeaves
  <2> QED BY <2>2, <2>3 DEF Initializing, RuntimeLeaves
<1>5. ses.main \notin {"launch", "accept", "hello"}
  <2>1. ASSUME ses.main \in {"launch", "accept", "hello"} PROVE FALSE
    BY <2>1 DEF Handshake, Unmet, RuntimeLeaves, Later
  <2> QED BY <2>1
<1>6. Killed' => run'.at = "exited"
  BY <1>1 DEF Handshake, RuntimeLeaves
<1>7. proc'.at # "alive" => pipe'.plugin # "open"
  BY DEF Handshake, RuntimeLeaves
<1> QED BY <1>1, <1>2, <1>3, <1>4, <1>5, <1>6, <1>7 DEF Handshake, RuntimeLeaves

\* The steps of the plugin within the handshake.
LEMMA HandshakeRuntime ==
    ASSUME Types, Handshake, WorkersRun, Opening, ~Killed, RuntimeNext, UNCHANGED hostVars PROVE Handshake'
<1>0. pipe \in Pipes /\ pipe.up \in Seq(Up) /\ pipe.down \in Seq(Down) /\ ses \in Sessions /\ run \in Runs /\ writer \in Writers /\ host \in Hosts
      /\ proc \in [at : {"none", "alive", "exited"}, bad : BOOLEAN]
  BY DEF Types, HostTypes, PipeTypes, RuntimeTypes, Pipes
<1>1. ses' = ses /\ writer' = writer /\ ~Killed' /\ ~Unwatched
  BY DEF hostVars, Killed, Unwatched
<1>2. ses.main \in {"launch", "accept", "hello", "ready"} \/ writer.at # "off"
  BY <1>0 DEF Opening, Killed, Unwatched, Sessions, Mains
<1>3. ASSUME Alive, run.at \in {"connect", "hello", "initialize", "ready"}
      PROVE  /\ writer.at = "off" /\ pipe.host # "closed"
             /\ \/ ses.main = "accept" /\ pipe.host = "none" /\ Unmet
                \/ ses.main = "hello" /\ pipe.host = "open" /\ Unmet
                \/ ses.main = "ready" /\ pipe.host = "open" /\ Initializing
  BY <1>2, <1>3 DEF Handshake, Started_, Later, Alive
<1>4. CASE Connect
  <2>1. Alive /\ run.at = "connect" /\ pipe'.host = pipe.host /\ pipe'.up = pipe.up /\ pipe'.down = pipe.down /\ run'.at = "hello" /\ proc' = proc
    BY <1>4, <1>0 DEF Connect, Pipes, Runs
  <2>2. pipe.down = <<>> /\ pipe.up = <<>> /\ ses.main \in {"accept", "hello"}
    BY <2>1, <1>3 DEF Unmet, Initializing, Later
  <2>3. Unmet'
    BY <2>1, <2>2 DEF Unmet
  <2> QED BY <1>1, <1>3, <2>1, <2>2, <2>3 DEF Handshake, Alive
<1>5. CASE SendHello
  <2>1. PICK v \in HelloValue : pipe' = SentUp("hello", v)
    BY <1>5 DEF SendHello
  <2>2. Alive /\ run.at = "hello" /\ run'.at = "initialize" /\ proc' = proc
    BY <1>5, <1>0 DEF SendHello, Runs
  <2>3. pipe'.host = pipe.host /\ pipe'.up = Append(pipe.up, [type |-> "hello", value |-> v]) /\ pipe'.down = pipe.down
    BY <2>1, <1>0 DEF SentUp, Pipes
  <2>4. pipe.down = <<>> /\ pipe.up = <<>> /\ ses.main \in {"accept", "hello"}
    BY <2>2, <1>3 DEF Unmet, Initializing, Later
  <2>5. pipe'.up # <<>> /\ Head(pipe'.up).type = "hello" /\ Tail(pipe'.up) = <<>>
    <3>1. pipe'.up = <<[type |-> "hello", value |-> v]>>
      BY <2>3, <2>4
    <3> QED BY <3>1
  <2>6. Unmet'
    BY <2>2, <2>3, <2>4, <2>5 DEF Unmet
  <2> QED BY <1>1, <1>3, <2>2, <2>3, <2>4, <2>6 DEF Handshake, Alive
<1>6. CASE ReceiveInitialize
  <2>1. Alive /\ run.at = "initialize" /\ run'.at = "ready" /\ proc' = proc /\ host'.state = Head(pipe.down).value
        /\ pipe'.host = pipe.host /\ pipe'.up = pipe.up /\ pipe'.down = Tail(pipe.down) /\ pipe.down # <<>>
    BY <1>6, <1>0 DEF ReceiveInitialize, Pipes, Runs, Hosts
  <2>2. ses.main = "ready" /\ pipe.down = <<[type |-> "initialize", value |-> Startup]>> /\ pipe.up = <<>>
    BY <2>1, <1>3 DEF Unmet, Initializing, Later
  <2>3. pipe'.down = <<>> /\ host'.state = Startup
    <3>1. Head(pipe.down).value = Startup /\ Tail(pipe.down) = <<>>
      BY <2>2
    <3> QED BY <2>1, <3>1
  <2>4. Initializing'
    BY <2>1, <2>2, <2>3 DEF Initializing
  <2> QED BY <1>1, <1>3, <2>1, <2>2, <2>4 DEF Handshake, Alive
<1>7. CASE SendReady
  <2>1. Alive /\ run.at = "ready" /\ run'.at = "run" /\ proc' = proc
        /\ pipe'.host = pipe.host /\ pipe'.up = Append(pipe.up, [type |-> "ready", value |-> 0]) /\ pipe'.down = pipe.down
    BY <1>7, <1>0 DEF SendReady, SentUp, Pipes, Runs
  <2>2. ses.main = "ready" /\ pipe.down = <<>> /\ pipe.up = <<>>
    BY <2>1, <1>3 DEF Unmet, Initializing, Later
  <2>3. pipe'.up # <<>> /\ Head(pipe'.up).type = "ready" /\ Tail(pipe'.up) = <<>>
    <3>1. pipe'.up = <<[type |-> "ready", value |-> 0]>>
      BY <2>1, <2>2
    <3> QED BY <3>1
  <2>4. NoHandshake(Tail(pipe'.up))
    BY <2>3 DEF NoHandshake
  <2>5. Initializing'
    BY <2>1, <2>2, <2>3, <2>4 DEF Initializing, Later
  <2> QED BY <1>1, <1>3, <2>1, <2>2, <2>5 DEF Handshake, Alive
<1>8. CASE HandshakeFails
  BY <1>3, <1>8 DEF HandshakeFails
<1>9. CASE ~Connect /\ ~SendHello /\ ~ReceiveInitialize /\ ~SendReady /\ ~HandshakeFails
  <2>1. RuntimeLeaves
    BY <1>9, RuntimeLeavesOther
  <2> QED BY <2>1, <1>1, PluginPastHandshake
<1> QED BY <1>4, <1>5, <1>6, <1>7, <1>8, <1>9

LEMMA HandshakeDies ==
    ASSUME Types, Handshake, WorkersRun, Opening, ~Unwatched, NEW torn \in BOOLEAN, ProcessDies(torn) PROVE Handshake'
<1>0. pipe \in Pipes /\ pipe.up \in Seq(Up) /\ pipe.down \in Seq(Down) /\ ses \in Sessions /\ run \in Runs /\ writer \in Writers
      /\ proc \in [at : {"none", "alive", "exited"}, bad : BOOLEAN]
  BY DEF Types, HostTypes, PipeTypes, RuntimeTypes, Pipes
<1>1. ses' = ses /\ writer' = writer /\ Killed' = Killed /\ proc.at = "alive" /\ proc'.at = "exited" /\ run'.at = "exited"
  BY <1>0 DEF ProcessDies, hostVars, Killed, Unwatched, Gone, Over
<1>2. /\ pipe'.host = pipe.host /\ pipe'.down = <<>> /\ pipe'.plugin # "open"
      /\ pipe'.up = pipe.up \/ (torn /\ [type |-> "torn", value |-> 0] \in Up /\ pipe'.up = Append(pipe.up, [type |-> "torn", value |-> 0]))
  BY <1>0, PluginEnds DEF ProcessDies
<1>3. torn => Started_ /\ ~Killed
  <2>1. torn => worker["writer"].at # "off"
    BY DEF ProcessDies, Outbound
  <2>2. HostTypes
    BY DEF Types
  <2> QED BY <2>1, <2>2, WorkingIsStarted DEF Worker
<1>4. CASE run.at \in Later \ {"exited"}
  <2>1. RuntimeLeaves
    BY <1>1, <1>2, <1>4 DEF RuntimeLeaves, Later, HandshakeType
  <2> QED BY <2>1, PluginPastHandshake DEF ProcessDies
<1>5. CASE run.at \notin Later \ {"exited"}
  <2>1. pipe'.up = pipe.up \/ run.at = "exited"
    BY <1>2, <1>3, <1>5 DEF Started_
  <2>2. ~torn
    <3>1. torn => run.at # "exited"
      BY <1>3, <1>1 DEF Handshake
    <3> QED BY <3>1, <1>3, <1>5 DEF Started_
  <2>3. pipe'.up = pipe.up
    BY <2>2, <1>2
  <2>4. writer.at # "off" => NoHandshake(pipe'.up) /\ Started_'
    BY <2>3, <1>1, <1>2 DEF Handshake, Started_, Later
  <2>5. Unmet => Unmet'
    BY <1>1, <1>2, <2>3, <1>5 DEF Unmet, Later
  <2>6. Initializing => Initializing'
    BY <1>1, <1>2, <2>3, <1>5 DEF Initializing, Later
  <2> QED BY <1>1, <1>2, <2>4, <2>5, <2>6 DEF Handshake
<1> QED BY <1>4, <1>5

LEMMA HandshakeStep ==
    ASSUME Types, Handshake, WorkersRun, Opening, WriterKeeps, Next PROVE Handshake'
BY HandshakeHost, HandshakeRuntime, HandshakeDies DEF Next

-----------------------------------------------------------------------------
(* The workers. *)

LEMMA OverRests == \A at, bad : Over(at, bad) => WorkersRun'
BY DEF Over, WorkersRun

LEMMA WorkersRunStep ==
    ASSUME Types, WorkersRun, Next PROVE WorkersRun'
<1>0. run \in Runs /\ worker \in [Worker -> Workers]
  BY DEF Types, RuntimeTypes
<1>R. \A w \in Worker : worker[w].at # "off" => run.at \in {"run", "collect", "finish", "acknowledge"}
  BY DEF WorkersRun
<1>K. ASSUME run' = run, run.at \in {"run", "collect", "finish", "acknowledge"} \/ worker' = worker PROVE WorkersRun'
  BY <1>K DEF WorkersRun
<1>1. CASE Host(SessionNext)
  BY <1>1, OverRests DEF Host, Gone, runtimeVars, WorkersRun
<1>2. ASSUME NEW torn \in BOOLEAN, ProcessDies(torn) PROVE WorkersRun'
  BY <1>2, OverRests DEF ProcessDies, Gone
<1>10. CASE Connect
  <2>1. worker' = worker /\ run.at \notin {"run", "collect", "finish", "acknowledge"}
    BY <1>10 DEF Connect
  <2> QED BY <2>1, <1>R DEF WorkersRun
<1>11. CASE SendHello
  <2>1. worker' = worker /\ run.at \notin {"run", "collect", "finish", "acknowledge"}
    BY <1>11 DEF SendHello
  <2> QED BY <2>1, <1>R DEF WorkersRun
<1>12. CASE ReceiveInitialize
  <2>1. worker' = worker /\ run.at \notin {"run", "collect", "finish", "acknowledge"}
    BY <1>12 DEF ReceiveInitialize
  <2> QED BY <2>1, <1>R DEF WorkersRun
<1>13. CASE SendReady
  <2>1. run'.at \in {"run", "collect"}
    BY <1>13, <1>0 DEF SendReady, Runs
  <2> QED BY <2>1 DEF WorkersRun
<1>14. CASE HandshakeFails
  BY <1>14, <1>0, <1>R, OverRests DEF HandshakeFails, Exit, Gone
<1>15. CASE PublishFrame
  BY <1>15, <1>0, <1>R, OverRests, <1>K DEF PublishFrame, Worker, Running, WriterIs, Outbound
<1>16. CASE PublishStatus
  BY <1>16, <1>0, <1>R, OverRests, <1>K DEF PublishStatus, Worker, Running, WriterIs, Outbound
<1>17. CASE TakeEvent
  BY <1>17, <1>0, <1>R, OverRests, <1>K DEF TakeEvent, Worker, Running, WriterIs, Outbound
<1>18. CASE DriverReturns
  BY <1>18, <1>0, <1>R, OverRests, <1>K DEF DriverReturns, Worker, Running, WriterIs, Outbound
<1>19. CASE ReadControl
  BY <1>19, <1>0, <1>R, OverRests, <1>K DEF ReadControl, Worker, Running, WriterIs, Outbound
<1>20. CASE ReadFails
  BY <1>20, <1>0, <1>R, OverRests, <1>K DEF ReadFails, Worker, Running, WriterIs, Outbound
<1>21. CASE LoadFrame
  BY <1>21, <1>0, <1>R, OverRests, <1>K DEF LoadFrame, Worker, Running, WriterIs, Outbound
<1>22. CASE LoadStatus
  BY <1>22, <1>0, <1>R, OverRests, <1>K DEF LoadStatus, Worker, Running, WriterIs, Outbound
<1>23. CASE Heartbeat
  BY <1>23, <1>0, <1>R, OverRests, <1>K DEF Heartbeat, Worker, Running, WriterIs, Outbound
<1>24. CASE WriteOutbound
  BY <1>24, <1>0, <1>R, OverRests, <1>K DEF WriteOutbound, Worker, Running, WriterIs, Outbound
<1>25. CASE WriteFails
  BY <1>25, <1>0, <1>R, OverRests, <1>K DEF WriteFails, Worker, Running, WriterIs, Outbound
<1>26. CASE FirstDone
  <2>1. run'.at \in {"run", "collect"}
    BY <1>26, <1>0 DEF FirstDone, Runs
  <2> QED BY <2>1 DEF WorkersRun
<1>27. CASE Collect
  <2>1. (\E bad : Over("return", bad)) \/ run'.at = "finish"
    BY <1>27, <1>0 DEF Collect, Recorded, Runs
  <2> QED BY <2>1, OverRests DEF WorkersRun
<1>28. CASE CollectTimeout
  <2>1. (\E bad : Over("return", bad)) \/ run'.at = "finish"
    BY <1>28, <1>0 DEF CollectTimeout, Recorded, Runs
  <2> QED BY <2>1, OverRests DEF WorkersRun
<1>29. CASE FinishTerminal
  <2>1. (\E bad : Over("return", bad)) \/ run'.at = "acknowledge"
    BY <1>29, <1>0 DEF FinishTerminal, Runs
  <2> QED BY <2>1, OverRests DEF WorkersRun
<1>30. CASE SendShutdownAck
  BY <1>30, <1>0, <1>R, OverRests DEF SendShutdownAck
<1>31. CASE Return
  BY <1>31, <1>0, <1>R, OverRests DEF Return, Exit, Gone
<1> QED BY <1>1, <1>2, <1>10, <1>11, <1>12, <1>13, <1>14, <1>15, <1>16, <1>17, <1>18, <1>19, <1>20, <1>21, <1>22, <1>23, <1>24, <1>25, <1>26, <1>27, <1>28, <1>29, <1>30, <1>31 DEF Next, RuntimeNext

-----------------------------------------------------------------------------
(* What the session has not started. *)

LEMMA OpeningKept ==
    ASSUME Opening, ses'.main = ses.main, UNCHANGED <<writer, reader, shut, told>> PROVE Opening'
BY DEF Opening, Unasked

\* A session whose goroutines run.
LEMMA OpeningOn ==
    ASSUME writer'.at # "off", reader'.at # "off", ses'.main \notin {"launch", "accept", "hello", "ready", "cleanup"},
           ses'.main \in {"replay", "replaying", "runtime", "drain"} => Unasked'
    PROVE  Opening'
BY DEF Opening

\* What the reader does with a message.
ReaderDoes(m) ==
    \/ m \in {"heartbeat", "status"} /\ reader' = reader /\ shut' = shut
    \/ m = "frame" /\ reader' = [reader EXCEPT !.at = "submit"] /\ shut' = shut
    \/ m = "error" /\ ReaderEnds("retry") /\ shut' = shut
    \/ m \in {"hello", "ready", "torn"} /\ ReaderEnds("violation") /\ shut' = shut
    \/ m = "ack" /\ shut.state = "not_started" /\ ReaderEnds("violation") /\ shut' = shut
    \/ m = "ack" /\ shut.state = "sending" /\ reader' = [reader EXCEPT !.at = "queue_ack"] /\ shut' = shut
    \/ m = "ack" /\ shut.state = "complete" /\ reader' = reader /\ shut' = [shut EXCEPT !.signal = TRUE]

LEMMA ReaderDid ==
    ASSUME shut \in Shutdowns, ReaderReceives PROVE ReaderDoes(Head(pipe.up).type)
<1>1. shut.state \in {"not_started", "sending", "complete"}
  BY DEF Shutdowns
<1>2. CASE Head(pipe.up).type = "ack"
  <2>1. CASE shut.state = "not_started"
    BY <1>2, <2>1 DEF ReaderReceives, ReaderDoes
  <2>2. CASE shut.state = "sending"
    BY <1>2, <2>2 DEF ReaderReceives, ReaderDoes
  <2>3. CASE shut.state = "complete"
    BY <1>2, <2>3 DEF ReaderReceives, ReaderDoes, Signalled
  <2> QED BY <1>1, <2>1, <2>2, <2>3
<1>3. CASE Head(pipe.up).type # "ack"
  BY <1>3 DEF ReaderReceives, ReaderDoes
<1> QED BY <1>2, <1>3

LEMMA OpeningHost ==
    ASSUME Types, Opening, SessionNext PROVE Opening'
<1>0. ses \in Sessions /\ writer \in Writers /\ reader \in Readers /\ shut \in Shutdowns
  BY DEF Types, HostTypes
<1>M. NoCall # Main /\ Main \notin Call /\ \A c \in Call : c # Main /\ c # NoCall
  BY CallAssumption DEF NoCall, Main
<1>W. ses.main \notin {"launch", "accept", "hello", "ready", "cleanup", "ended"} => writer.at # "off" /\ reader.at # "off"
  BY DEF Opening
<1>N. writer.at # "off" <=> reader.at # "off"
  BY DEF Opening, ReaderOff
<1>P. writer.at # "off" => ses.main \notin {"launch", "accept", "hello", "ready", "cleanup"}
  BY DEF Opening
<1>Q. ses.main \in {"replay", "replaying", "runtime", "drain"} => Unasked
  BY DEF Opening
<1>10. ASSUME NEW c \in Call, Control(c) PROVE Opening'
  BY <1>10, <1>0, OpeningKept DEF Control, Sessions
<1>11. ASSUME NEW c \in Call, RemovePendingControl(c) PROVE Opening'
  BY <1>11, <1>0, OpeningKept DEF RemovePendingControl, Sessions
<1>12. ASSUME Stop PROVE Opening'
  BY <1>12, <1>0, OpeningKept DEF Stop, Sessions
<1>13. ASSUME Launch PROVE Opening'
  BY <1>13, <1>0, <1>M DEF Launch, Opening, Unasked, Sessions, Mains, Writers, Readers, Shutdowns, WriterOff, ReaderOff, ShutOff
<1>14. ASSUME LaunchFails PROVE Opening'
  BY <1>14, <1>0, <1>M DEF LaunchFails, Opening, Unasked, Sessions, Mains, Writers, Readers, Shutdowns, WriterOff, ReaderOff, ShutOff, End, Ended
<1>15. ASSUME Accept PROVE Opening'
  BY <1>15, <1>0, <1>M DEF Accept, Opening, Unasked, Sessions, Mains, Writers, Readers, Shutdowns, WriterOff, ReaderOff, ShutOff
<1>16. ASSUME StartupFails PROVE Opening'
  BY <1>16, <1>0, <1>M DEF StartupFails, Opening, Unasked, Sessions, Mains, Writers, Readers, Shutdowns, WriterOff, ReaderOff, ShutOff
<1>17. ASSUME CleanupStartedProcess PROVE Opening'
  BY <1>17, <1>0, <1>M DEF CleanupStartedProcess, Opening, Unasked, Sessions, Mains, Writers, Readers, Shutdowns, WriterOff, ReaderOff, ShutOff, End, Ended
<1>18. ASSUME HelloReceived PROVE Opening'
  BY <1>18, <1>0, <1>M DEF HelloReceived, Opening, Unasked, Sessions, Mains, Writers, Readers, Shutdowns, WriterOff, ReaderOff, ShutOff
<1>19. ASSUME ReadyReceived PROVE Opening'
  BY <1>19, <1>0, <1>M DEF ReadyReceived, Opening, Unasked, Sessions, Mains, Writers, Readers, Shutdowns, WriterOff, ReaderOff, ShutOff
<1>20. ASSUME ReplayPendingControls PROVE Opening'
  <2>1. ses'.main \notin {"launch", "accept", "hello", "ready", "cleanup"} /\ writer' = writer /\ reader' = reader
    BY <1>20, <1>0 DEF ReplayPendingControls, Sessions, BeginShutdown
  <2>2. ses.main \in {"replay", "replaying", "runtime", "drain"} /\ (ses'.main = "shutdown" \/ shut' = shut)
    BY <1>20, <1>0 DEF ReplayPendingControls, Sessions, BeginShutdown
  <2> QED BY <2>1, <2>2, <1>W, <1>Q, OpeningOn DEF Unasked
<1>21. ASSUME ReplayAnswered PROVE Opening'
  <2>1. ses'.main \notin {"launch", "accept", "hello", "ready", "cleanup"} /\ writer' = writer /\ reader' = reader
    BY <1>21, <1>0 DEF ReplayAnswered, Sessions, ReplayStops
  <2>2. ses.main \in {"replay", "replaying", "runtime", "drain"} /\ (ses'.main = "shutdown" \/ shut' = shut)
    BY <1>21, <1>0 DEF ReplayAnswered, Sessions, ReplayStops
  <2> QED BY <2>1, <2>2, <1>W, <1>Q, OpeningOn DEF Unasked
<1>22. ASSUME ReplayExit PROVE Opening'
  <2>1. ses'.main \in {"stop_writer", "shutdown", "ended", "complete"} /\ ses.main \in {"replaying", "runtime", "drain", "stop_writer", "shutdown", "complete"}
    BY <1>22, <1>0 DEF ReplayExit, Sessions
  <2>2. writer'.at = writer.at /\ reader'.at = reader.at
    BY <1>22, <1>0 DEF ReplayExit, Readers, Writers, TakeReader
  <2> QED BY <2>1, <2>2, <1>W, OpeningOn
<1>23. ASSUME ReplayInterrupted PROVE Opening'
  <2>1. ses'.main \in {"stop_writer", "shutdown", "ended", "complete"} /\ ses.main \in {"replaying", "runtime", "drain", "stop_writer", "shutdown", "complete"}
    BY <1>23, <1>0 DEF ReplayInterrupted, Sessions, ReplayStops, TakeReader
  <2>2. writer'.at = writer.at /\ reader'.at = reader.at
    BY <1>23, <1>0 DEF ReplayInterrupted, Readers, Writers, TakeReader
  <2> QED BY <2>1, <2>2, <1>W, OpeningOn
<1>24. ASSUME CompleteReplayControl PROVE Opening'
  <2>1. ses'.main \in {"stop_writer", "shutdown", "ended", "complete"} /\ ses.main \in {"replaying", "runtime", "drain", "stop_writer", "shutdown", "complete"}
    BY <1>24, <1>0 DEF CompleteReplayControl, Sessions, Ended
  <2>2. writer'.at = writer.at /\ reader'.at = reader.at
    BY <1>24, <1>0 DEF CompleteReplayControl, Readers, Writers, TakeReader
  <2> QED BY <2>1, <2>2, <1>W, OpeningOn
<1>25. ASSUME RuntimeEnds PROVE Opening'
  <2>1. ses'.main \in {"stop_writer", "shutdown", "ended", "complete"} /\ ses.main \in {"replaying", "runtime", "drain", "stop_writer", "shutdown", "complete"}
    BY <1>25, <1>0 DEF RuntimeEnds, Sessions, BeginShutdown, TakeReader
  <2>2. writer'.at = writer.at /\ reader'.at = reader.at
    BY <1>25, <1>0 DEF RuntimeEnds, Readers, Writers, TakeReader
  <2> QED BY <2>1, <2>2, <1>W, OpeningOn
<1>26. ASSUME RuntimeExit PROVE Opening'
  <2>1. ses'.main = "drain" /\ ses.main = "runtime" /\ UNCHANGED <<writer, reader, shut>>
    BY <1>26, <1>0 DEF RuntimeExit, Sessions
  <2> QED BY <2>1, <1>W, <1>Q, OpeningOn DEF Unasked
<1>27. ASSUME DrainReader PROVE Opening'
  <2>1. ses'.main \in {"stop_writer", "shutdown", "ended", "complete"} /\ ses.main \in {"replaying", "runtime", "drain", "stop_writer", "shutdown", "complete"}
    BY <1>27, <1>0 DEF DrainReader, Sessions, TakeReader
  <2>2. writer'.at = writer.at /\ reader'.at = reader.at
    BY <1>27, <1>0 DEF DrainReader, Readers, Writers, TakeReader
  <2> QED BY <2>1, <2>2, <1>W, OpeningOn
<1>28. ASSUME StopWriter PROVE Opening'
  <2>1. ses'.main \in {"stop_writer", "shutdown", "ended", "complete"} /\ ses.main \in {"replaying", "runtime", "drain", "stop_writer", "shutdown", "complete"}
    BY <1>28, <1>0 DEF StopWriter, Sessions, End, Ended
  <2>2. writer'.at = writer.at /\ reader'.at = reader.at
    BY <1>28, <1>0 DEF StopWriter, Readers, Writers, TakeReader
  <2> QED BY <2>1, <2>2, <1>W, OpeningOn
<1>29. ASSUME ShutdownSent PROVE Opening'
  <2>1. ses'.main \in {"stop_writer", "shutdown", "ended", "complete"} /\ ses.main \in {"replaying", "runtime", "drain", "stop_writer", "shutdown", "complete"}
    BY <1>29, <1>0 DEF ShutdownSent, Sessions
  <2>2. writer'.at = writer.at /\ reader'.at = reader.at
    BY <1>29, <1>0 DEF ShutdownSent, Readers, Writers, TakeReader
  <2> QED BY <2>1, <2>2, <1>W, OpeningOn
<1>30. ASSUME ShutdownWaits PROVE Opening'
  <2>1. ses'.main \in {"stop_writer", "shutdown", "ended", "complete"} /\ ses.main \in {"replaying", "runtime", "drain", "stop_writer", "shutdown", "complete"}
    BY <1>30, <1>0 DEF ShutdownWaits, Sessions, TakeReader
  <2>2. writer'.at = writer.at /\ reader'.at = reader.at
    BY <1>30, <1>0 DEF ShutdownWaits, Readers, Writers, TakeReader
  <2> QED BY <2>1, <2>2, <1>W, OpeningOn
<1>31. ASSUME ShutdownDone PROVE Opening'
  <2>1. ses'.main \in {"kill", "ended", "complete"} /\ ses.main \in {"shutdown", "kill"}
    BY <1>31, <1>0 DEF ShutdownDone, Sessions, Finish, End, Ended
  <2>2. writer'.at = writer.at /\ reader'.at = reader.at
    BY <1>31, <1>0 DEF ShutdownDone, Readers
  <2> QED BY <2>1, <2>2, <1>W, OpeningOn
<1>32. ASSUME GracefulTimeout PROVE Opening'
  <2>1. ses'.main \in {"kill", "ended", "complete"} /\ ses.main \in {"shutdown", "kill"}
    BY <1>32, <1>0 DEF GracefulTimeout, Sessions, Finish, End, Ended
  <2>2. writer'.at = writer.at /\ reader'.at = reader.at
    BY <1>32, <1>0 DEF GracefulTimeout, Readers
  <2> QED BY <2>1, <2>2, <1>W, OpeningOn
<1>33. ASSUME KillTimeout PROVE Opening'
  <2>1. ses'.main \in {"kill", "ended", "complete"} /\ ses.main \in {"shutdown", "kill"}
    BY <1>33, <1>0 DEF KillTimeout, Sessions, Finish, End, Ended
  <2>2. writer'.at = writer.at /\ reader'.at = reader.at
    BY <1>33, <1>0 DEF KillTimeout, Readers
  <2> QED BY <2>1, <2>2, <1>W, OpeningOn
<1>34. ASSUME NEW c \in Call, WriterControl(c) PROVE Opening'
  <2>1. ses' = ses /\ reader' = reader /\ shut' = shut /\ told' = told /\ (writer' = writer \/ (writer.accepting /\ writer' = [writer EXCEPT !.queue = Append(writer.queue, c)]))
    BY <1>34 DEF WriterControl, Enqueued
  <2>2. ASSUME writer' # writer PROVE Opening'
    <3>1. writer.at # "off"
      BY <2>1, <2>2 DEF Opening, WriterOff
    <3>2. writer'.at = writer.at /\ writer'.current = writer.current /\ writer'.failed = writer.failed /\ writer'.queue = Append(writer.queue, c) /\ writer.queue \in Seq(Owners)
      BY <2>1, <2>2, <1>0 DEF Writers
    <3>3. Unasked => Unasked'
      <4>1. \A i \in DOMAIN Append(writer.queue, c) : (i \in DOMAIN writer.queue /\ Append(writer.queue, c)[i] = writer.queue[i]) \/ Append(writer.queue, c)[i] = c
        BY <3>2 DEF Owners
      <4> QED BY <3>2, <4>1, <2>1, <1>M DEF Unasked
    <3> QED BY <3>1, <3>2, <3>3, <2>1, <1>N, <1>P, <1>Q, OpeningOn
  <2> QED BY <2>1, <2>2, OpeningKept
<1>35. ASSUME WriterShutdown PROVE Opening'
  <2>1. ses' = ses /\ reader' = reader /\ writer'.at = writer.at /\ shut.request = "calling"
    BY <1>35, <1>0 DEF WriterShutdown, Writers
  <2>2. writer.at # "off" /\ ~Unasked
    BY <2>1 DEF Opening, Unasked, ShutOff
  <2> QED BY <2>1, <2>2, <1>N, <1>P, <1>Q, OpeningOn
<1>36. ASSUME WriterTakes PROVE Opening'
  <2>1. ses' = ses /\ reader' = reader /\ writer.at = "idle" /\ writer.queue # <<>>
    BY <1>36 DEF WriterTakes
  <2>2. writer'.at # "off"
    BY <1>36, <1>0 DEF WriterTakes, Writers
  <2>3. ASSUME Unasked PROVE Unasked'
    <3>1. writer.queue \in Seq(Owners) /\ Head(writer.queue) # Main /\ (\A i \in DOMAIN Tail(writer.queue) : Tail(writer.queue)[i] # Main)
      <4>1. writer.queue \in Seq(Owners) /\ 1 \in DOMAIN writer.queue /\ Head(writer.queue) = writer.queue[1]
            /\ \A i \in DOMAIN Tail(writer.queue) : i + 1 \in DOMAIN writer.queue /\ Tail(writer.queue)[i] = writer.queue[i + 1]
        BY <2>1, <1>0 DEF Writers
      <4> QED BY <4>1, <2>3 DEF Unasked
    <3>2. shut' = shut /\ writer'.queue = Tail(writer.queue) /\ writer'.current \in {writer.current, Head(writer.queue)} /\ writer'.at \in {"idle", "sending"}
      BY <1>36, <1>0, <3>1 DEF WriterTakes, Writers
    <3> QED BY <2>1, <3>1, <3>2, <2>3 DEF Unasked
  <2> QED BY <2>1, <2>2, <2>3, <1>N, <1>P, <1>Q, OpeningOn
<1>37. ASSUME WriterSends PROVE Opening'
  <2>1. ses' = ses /\ reader' = reader /\ writer.at = "sending"
    BY <1>37 DEF WriterSends
  <2>2. writer'.at \in {"idle", "stopped"}
    BY <1>37, <1>0 DEF WriterSends, Writers, Stops
  <2>3. ASSUME Unasked PROVE Unasked'
    <3>0. writer.current # Main /\ Main \notin ToSet(writer.queue)
      BY <2>3, <1>0 DEF Unasked, ToSet, Writers
    <3>2. writer'.current = NoCall /\ writer'.queue \in {writer.queue, <<>>} /\ (writer'.at = "stopped" => writer'.failed)
      BY <1>37, <1>0, <3>0 DEF WriterSends, Stops, Writers
    <3>3. shut' = shut
      BY <1>37, <1>0, <3>0 DEF WriterSends, Stops, Shutdowns
    <3> QED BY <2>1, <3>2, <3>3, <2>3, <1>M DEF Unasked
  <2> QED BY <2>1, <2>2, <2>3, <1>N, <1>P, <1>Q, OpeningOn
<1>38. ASSUME WriterFails PROVE Opening'
  <2>1. ses' = ses /\ reader' = reader /\ writer.at = "sending"
    BY <1>38 DEF WriterFails
  <2>2. writer'.at \in {"idle", "stopped"}
    BY <1>38, <1>0 DEF WriterFails, Writers, Stops
  <2>3. ASSUME Unasked PROVE Unasked'
    <3>0. writer.current # Main /\ Main \notin ToSet(writer.queue)
      BY <2>3, <1>0 DEF Unasked, ToSet, Writers
    <3>2. writer'.current = NoCall /\ writer'.queue \in {writer.queue, <<>>} /\ (writer'.at = "stopped" => writer'.failed)
      BY <1>38, <1>0, <3>0 DEF WriterFails, Stops, Writers
    <3>3. shut' = shut
      BY <1>38, <1>0, <3>0 DEF WriterFails, Stops, Shutdowns
    <3> QED BY <2>1, <3>2, <3>3, <2>3, <1>M DEF Unasked
  <2> QED BY <2>1, <2>2, <2>3, <1>N, <1>P, <1>Q, OpeningOn
<1>39. ASSUME ReaderReceives PROVE Opening'
  <2>1. ses' = ses /\ writer' = writer /\ reader.at = "receiving" /\ ReaderDoes(Head(pipe.up).type)
    BY <1>39, <1>0, ReaderDid DEF ReaderReceives
  <2>2. reader'.at # "off" /\ reader'.cancelled = reader.cancelled
    BY <2>1, <1>0 DEF ReaderDoes, ReaderEnds, Readers
  <2>3. Unasked => shut' = shut /\ reader'.at \notin {"queue_ack", "check_ack"}
    <3>1. Unasked => shut.state = "not_started"
      BY DEF Unasked, ShutOff
    <3>2. shut.state = "not_started" => shut' = shut
      BY <2>1 DEF ReaderDoes
    <3>3. shut.state = "not_started" => reader'.at \in {"receiving", "submit", "done"}
      BY <2>1, <1>0 DEF ReaderDoes, ReaderEnds, Readers
    <3> QED BY <3>1, <3>2, <3>3
  <2>4. Unasked => Unasked'
    BY <2>1, <2>2, <2>3 DEF Unasked
  <2> QED BY <2>1, <2>2, <2>4, <1>N, <1>P, <1>Q, OpeningOn
<1>40. ASSUME Submit PROVE Opening'
  <2>1. ses' = ses /\ writer' = writer /\ reader.at # "off" /\ reader'.at # "off" /\ reader'.cancelled = reader.cancelled
    BY <1>40, <1>0 DEF Submit, Readers
  <2>2. Unasked => shut' = shut /\ reader'.at \notin {"queue_ack", "check_ack"}
    BY <1>40, <1>0 DEF Submit, Readers, Unasked, ShutOff
  <2>3. Unasked => Unasked'
    BY <2>1, <2>2 DEF Unasked
  <2> QED BY <2>1, <2>3, <1>N, <1>P, <1>Q, OpeningOn
<1>41. ASSUME QueueAck PROVE Opening'
  <2>1. ses' = ses /\ writer' = writer /\ reader.at # "off" /\ reader'.at # "off" /\ reader'.cancelled = reader.cancelled
    BY <1>41, <1>0 DEF QueueAck, Readers
  <2>2. Unasked => shut' = shut /\ reader'.at \notin {"queue_ack", "check_ack"}
    BY <1>41, <1>0 DEF QueueAck, Readers, Unasked, ShutOff
  <2>3. Unasked => Unasked'
    BY <2>1, <2>2 DEF Unasked
  <2> QED BY <2>1, <2>3, <1>N, <1>P, <1>Q, OpeningOn
<1>42. ASSUME CheckAck PROVE Opening'
  <2>1. ses' = ses /\ writer' = writer /\ reader.at # "off" /\ reader'.at # "off" /\ reader'.cancelled = reader.cancelled
    BY <1>42, <1>0 DEF CheckAck, Readers, Signalled
  <2>2. Unasked => shut' = shut /\ reader'.at \notin {"queue_ack", "check_ack"}
    BY <1>42, <1>0 DEF CheckAck, Readers, Unasked, ShutOff, Signalled
  <2>3. Unasked => Unasked'
    BY <2>1, <2>2 DEF Unasked
  <2> QED BY <2>1, <2>3, <1>N, <1>P, <1>Q, OpeningOn
<1>43. ASSUME ReaderFails PROVE Opening'
  <2>1. ses' = ses /\ writer' = writer /\ reader.at # "off" /\ reader'.at # "off" /\ reader'.cancelled = reader.cancelled
    BY <1>43, <1>0 DEF ReaderFails, Readers, ReaderEnds
  <2>2. Unasked => shut' = shut /\ reader'.at \notin {"queue_ack", "check_ack"}
    BY <1>43, <1>0 DEF ReaderFails, Readers, Unasked, ShutOff, ReaderEnds
  <2>3. Unasked => Unasked'
    BY <2>1, <2>2 DEF Unasked
  <2> QED BY <2>1, <2>3, <1>N, <1>P, <1>Q, OpeningOn
<1> QED BY <1>10, <1>11, <1>12, <1>13, <1>14, <1>15, <1>16, <1>17, <1>18, <1>19, <1>20, <1>21, <1>22, <1>23, <1>24, <1>25, <1>26, <1>27, <1>28, <1>29, <1>30, <1>31, <1>32, <1>33, <1>34, <1>35, <1>36, <1>37, <1>38, <1>39, <1>40, <1>41, <1>42, <1>43 DEF SessionNext, SessionMain, SessionWriter, SessionReader, Callers

LEMMA OpeningStep ==
    ASSUME Types, Opening, Next PROVE Opening'
BY OpeningHost, OpeningKept DEF Next, Host, ProcessDies, hostVars

-----------------------------------------------------------------------------
(* The calls. *)

\* What becomes of a call when those that are pending are refused.
Settles(c) ==
    call'[c] = call[c] \/ (call[c].at = "pending" /\ call'[c].at = "done" /\ call'[c].answer = "refused")

LEMMA PendingRefused ==
    ASSUME HostTypes, PendingCalls, call' = AnswerAll(ToSet(pending), "refused") PROVE \A c \in Call : Settles(c)
<1>1. \A c \in ToSet(pending) : call[c].at = "pending"
  BY DEF PendingCalls, ToSet
<1>2. \A c \in Call : call[c] \in Callers_
  BY DEF HostTypes
<1> QED BY <1>1, <1>2 DEF AnswerAll, Settles, Callers_

\* Steps that settle calls, but do not touch those of the writer.
LEMMA CallsSettled ==
    ASSUME HostTypes, HostTypes', Calls, pending' \in {pending, <<>>}, \A c \in Call : Settles(c), pending' = <<>> \/ UNCHANGED call,
           writer'.queue = writer.queue, writer'.current = writer.current, writer'.accepting = writer.accepting,
           ses'.inflight \in {ses.inflight, NoCall}, ses.main = "ended" => ses'.main = "ended",
           ses'.main \in {"replaying", "complete"} => ses'.inflight \in Call
    PROVE  Calls'
<1>0. \A c \in Call : call[c] \in Callers_ /\ call'[c] \in Callers_
  BY DEF HostTypes
<1>1. PendingCalls'
  <2>1. IsInjective(<<>>)
    BY DEF IsInjective
  <2> QED BY <2>1 DEF Calls, PendingCalls
<1>2. WriterCalls'
  BY DEF Calls, WriterCalls, Queued, Settles
<1>3. ReplayedCall'
  BY CallAssumption DEF Calls, ReplayedCall, Settles
<1>4. AnsweredCalls'
  BY <1>0 DEF Calls, AnsweredCalls, Settles
<1> QED BY <1>1, <1>2, <1>3, <1>4 DEF Calls

LEMMA EndSettles ==
    ASSUME HostTypes, PendingCalls, NEW causes, End(causes)
    PROVE  (\A c \in Call : Settles(c)) /\ pending' = <<>> /\ ses'.inflight = NoCall /\ ses'.main = "ended"
BY PendingRefused DEF End, Ended, HostTypes, Sessions

LEMMA FinishSettles ==
    ASSUME HostTypes, PendingCalls, NEW causes, Finish(causes)
    PROVE  /\ \A c \in Call : Settles(c)
           /\ pending' = <<>> \/ UNCHANGED <<pending, call>>
           /\ \/ ses'.main = "ended" /\ ses'.inflight = NoCall
              \/ ses'.main = "complete" /\ ses'.inflight = ses.inflight /\ ses.inflight # NoCall
BY EndSettles DEF Finish, HostTypes, Sessions, Settles

LEMMA StopSettles ==
    ASSUME HostTypes, PendingCalls, NEW causes, ReplayStops(causes, {})
    PROVE  (\A c \in Call : Settles(c)) /\ pending' = <<>> /\ ses'.inflight = ses.inflight /\ ses'.main = "shutdown"
<1>1. \A c \in ToSet(pending) : call[c].at = "pending"
  BY DEF PendingCalls, ToSet
<1>2. \A c \in Call : call[c] \in Callers_
  BY DEF HostTypes
<1>3. \A c \in Call : Settles(c)
  BY <1>1, <1>2 DEF ReplayStops, Settles, Callers_
<1> QED BY <1>3 DEF ReplayStops, HostTypes, Sessions

LEMMA CallsMain ==
    ASSUME HostTypes, HostTypes', Opening, Calls, Stop \/ SessionMain \/ SessionReader, ~ReplayAnswered, ~CompleteReplayControl, ~(ReplayPendingControls /\ ses'.main = "replaying") PROVE Calls'
<1>0. ses \in Sessions /\ writer \in Writers /\ PendingCalls
  BY DEF HostTypes, Calls
<1>S. UNCHANGED call => \A c \in Call : Settles(c)
  BY DEF Settles
<1>R. call' = AnswerAll(ToSet(pending), "refused") => \A c \in Call : Settles(c)
  BY <1>0, PendingRefused
<1>I. ses.main \in {"replaying", "complete"} => ses.inflight \in Call
  BY DEF Calls, ReplayedCall
<1>10. CASE Stop
  <2>1. UNCHANGED <<call, pending>> /\ writer'.queue = writer.queue /\ writer'.current = writer.current /\ writer'.accepting = writer.accepting
    BY <1>10, <1>0 DEF Stop, Writers
  <2>2. ses'.inflight = ses.inflight /\ (ses.main = "ended" => ses'.main = "ended") /\ (ses'.main \in {"replaying", "complete"} => ses.main = ses'.main)
    BY <1>10, <1>0 DEF Stop, Sessions
  <2> QED BY <2>1, <2>2, <1>S, <1>I, CallsSettled
<1>11. CASE Launch
  <2>1. UNCHANGED <<call, pending>> /\ writer'.queue = writer.queue /\ writer'.current = writer.current /\ writer'.accepting = writer.accepting
    BY <1>11, <1>0 DEF Launch, Writers
  <2>2. ses'.inflight = ses.inflight /\ (ses.main = "ended" => ses'.main = "ended") /\ (ses'.main \in {"replaying", "complete"} => ses.main = ses'.main)
    BY <1>11, <1>0 DEF Launch, Sessions
  <2> QED BY <2>1, <2>2, <1>S, <1>I, CallsSettled
<1>12. CASE Accept
  <2>1. UNCHANGED <<call, pending>> /\ writer'.queue = writer.queue /\ writer'.current = writer.current /\ writer'.accepting = writer.accepting
    BY <1>12, <1>0 DEF Accept, Writers
  <2>2. ses'.inflight = ses.inflight /\ (ses.main = "ended" => ses'.main = "ended") /\ (ses'.main \in {"replaying", "complete"} => ses.main = ses'.main)
    BY <1>12, <1>0 DEF Accept, Sessions
  <2> QED BY <2>1, <2>2, <1>S, <1>I, CallsSettled
<1>13. CASE StartupFails
  <2>1. UNCHANGED <<call, pending>> /\ writer'.queue = writer.queue /\ writer'.current = writer.current /\ writer'.accepting = writer.accepting
    BY <1>13, <1>0 DEF StartupFails, Writers
  <2>2. ses'.inflight = ses.inflight /\ (ses.main = "ended" => ses'.main = "ended") /\ (ses'.main \in {"replaying", "complete"} => ses.main = ses'.main)
    BY <1>13, <1>0 DEF StartupFails, Sessions
  <2> QED BY <2>1, <2>2, <1>S, <1>I, CallsSettled
<1>14. CASE HelloReceived
  <2>1. UNCHANGED <<call, pending>> /\ writer'.queue = writer.queue /\ writer'.current = writer.current /\ writer'.accepting = writer.accepting
    BY <1>14, <1>0 DEF HelloReceived, Writers
  <2>2. ses'.inflight = ses.inflight /\ (ses.main = "ended" => ses'.main = "ended") /\ (ses'.main \in {"replaying", "complete"} => ses.main = ses'.main)
    BY <1>14, <1>0 DEF HelloReceived, Sessions
  <2> QED BY <2>1, <2>2, <1>S, <1>I, CallsSettled
<1>15. CASE RuntimeEnds
  <2>1. UNCHANGED <<call, pending>> /\ writer'.queue = writer.queue /\ writer'.current = writer.current /\ writer'.accepting = writer.accepting
    BY <1>15, <1>0 DEF RuntimeEnds, Writers
  <2>2. ses'.inflight = ses.inflight /\ (ses.main = "ended" => ses'.main = "ended") /\ (ses'.main \in {"replaying", "complete"} => ses.main = ses'.main)
    BY <1>15, <1>0 DEF RuntimeEnds, Sessions, BeginShutdown
  <2> QED BY <2>1, <2>2, <1>S, <1>I, CallsSettled
<1>16. CASE RuntimeExit
  <2>1. UNCHANGED <<call, pending>> /\ writer'.queue = writer.queue /\ writer'.current = writer.current /\ writer'.accepting = writer.accepting
    BY <1>16, <1>0 DEF RuntimeExit, Writers
  <2>2. ses'.inflight = ses.inflight /\ (ses.main = "ended" => ses'.main = "ended") /\ (ses'.main \in {"replaying", "complete"} => ses.main = ses'.main)
    BY <1>16, <1>0 DEF RuntimeExit, Sessions
  <2> QED BY <2>1, <2>2, <1>S, <1>I, CallsSettled
<1>17. CASE DrainReader
  <2>1. UNCHANGED <<call, pending>> /\ writer'.queue = writer.queue /\ writer'.current = writer.current /\ writer'.accepting = writer.accepting
    BY <1>17, <1>0 DEF DrainReader, Writers
  <2>2. ses'.inflight = ses.inflight /\ (ses.main = "ended" => ses'.main = "ended") /\ (ses'.main \in {"replaying", "complete"} => ses.main = ses'.main)
    BY <1>17, <1>0 DEF DrainReader, Sessions
  <2> QED BY <2>1, <2>2, <1>S, <1>I, CallsSettled
<1>18. CASE ShutdownSent
  <2>1. UNCHANGED <<call, pending>> /\ writer'.queue = writer.queue /\ writer'.current = writer.current /\ writer'.accepting = writer.accepting
    BY <1>18, <1>0 DEF ShutdownSent, Writers
  <2>2. ses'.inflight = ses.inflight /\ (ses.main = "ended" => ses'.main = "ended") /\ (ses'.main \in {"replaying", "complete"} => ses.main = ses'.main)
    BY <1>18, <1>0 DEF ShutdownSent, Sessions
  <2> QED BY <2>1, <2>2, <1>S, <1>I, CallsSettled
<1>19. CASE ShutdownWaits
  <2>1. UNCHANGED <<call, pending>> /\ writer'.queue = writer.queue /\ writer'.current = writer.current /\ writer'.accepting = writer.accepting
    BY <1>19, <1>0 DEF ShutdownWaits, Writers
  <2>2. ses'.inflight = ses.inflight /\ (ses.main = "ended" => ses'.main = "ended") /\ (ses'.main \in {"replaying", "complete"} => ses.main = ses'.main)
    BY <1>19, <1>0 DEF ShutdownWaits, Sessions
  <2> QED BY <2>1, <2>2, <1>S, <1>I, CallsSettled
<1>20. CASE ReaderReceives
  <2>1. UNCHANGED <<call, pending>> /\ writer'.queue = writer.queue /\ writer'.current = writer.current /\ writer'.accepting = writer.accepting
    BY <1>20, <1>0 DEF ReaderReceives, Writers
  <2>2. ses'.inflight = ses.inflight /\ (ses.main = "ended" => ses'.main = "ended") /\ (ses'.main \in {"replaying", "complete"} => ses.main = ses'.main)
    BY <1>20, <1>0 DEF ReaderReceives, Sessions
  <2> QED BY <2>1, <2>2, <1>S, <1>I, CallsSettled
<1>21. CASE Submit
  <2>1. UNCHANGED <<call, pending>> /\ writer'.queue = writer.queue /\ writer'.current = writer.current /\ writer'.accepting = writer.accepting
    BY <1>21, <1>0 DEF Submit, Writers
  <2>2. ses'.inflight = ses.inflight /\ (ses.main = "ended" => ses'.main = "ended") /\ (ses'.main \in {"replaying", "complete"} => ses.main = ses'.main)
    BY <1>21, <1>0 DEF Submit, Sessions
  <2> QED BY <2>1, <2>2, <1>S, <1>I, CallsSettled
<1>22. CASE QueueAck
  <2>1. UNCHANGED <<call, pending>> /\ writer'.queue = writer.queue /\ writer'.current = writer.current /\ writer'.accepting = writer.accepting
    BY <1>22, <1>0 DEF QueueAck, Writers
  <2>2. ses'.inflight = ses.inflight /\ (ses.main = "ended" => ses'.main = "ended") /\ (ses'.main \in {"replaying", "complete"} => ses.main = ses'.main)
    BY <1>22, <1>0 DEF QueueAck, Sessions
  <2> QED BY <2>1, <2>2, <1>S, <1>I, CallsSettled
<1>23. CASE CheckAck
  <2>1. UNCHANGED <<call, pending>> /\ writer'.queue = writer.queue /\ writer'.current = writer.current /\ writer'.accepting = writer.accepting
    BY <1>23, <1>0 DEF CheckAck, Writers
  <2>2. ses'.inflight = ses.inflight /\ (ses.main = "ended" => ses'.main = "ended") /\ (ses'.main \in {"replaying", "complete"} => ses.main = ses'.main)
    BY <1>23, <1>0 DEF CheckAck, Sessions
  <2> QED BY <2>1, <2>2, <1>S, <1>I, CallsSettled
<1>24. CASE ReaderFails
  <2>1. UNCHANGED <<call, pending>> /\ writer'.queue = writer.queue /\ writer'.current = writer.current /\ writer'.accepting = writer.accepting
    BY <1>24, <1>0 DEF ReaderFails, Writers
  <2>2. ses'.inflight = ses.inflight /\ (ses.main = "ended" => ses'.main = "ended") /\ (ses'.main \in {"replaying", "complete"} => ses.main = ses'.main)
    BY <1>24, <1>0 DEF ReaderFails, Sessions
  <2> QED BY <2>1, <2>2, <1>S, <1>I, CallsSettled
<1>25. CASE LaunchFails
  <2>1. (\E causes : End(causes)) /\ writer' = writer
    BY <1>25 DEF LaunchFails
  <2> QED BY <2>1, <1>0, EndSettles, CallsSettled
<1>26. CASE CleanupStartedProcess
  <2>1. (\E causes : End(causes)) /\ writer' = writer
    BY <1>26 DEF CleanupStartedProcess
  <2> QED BY <2>1, <1>0, EndSettles, CallsSettled
<1>27. CASE StopWriter
  <2>1. (\E causes : End(causes)) /\ writer' = writer
    BY <1>27 DEF StopWriter
  <2> QED BY <2>1, <1>0, EndSettles, CallsSettled
<1>28. CASE ShutdownDone
  <2>1. writer' = writer /\ ses.main \in {"shutdown", "kill"}
    BY <1>28 DEF ShutdownDone
  <2>2. \E causes : Finish(causes)
    BY <1>28 DEF ShutdownDone
  <2>3. /\ \A c \in Call : Settles(c)
        /\ pending' = <<>> \/ UNCHANGED <<pending, call>>
        /\ \/ ses'.main = "ended" /\ ses'.inflight = NoCall
           \/ ses'.main = "complete" /\ ses'.inflight = ses.inflight /\ ses.inflight # NoCall
           \/ ses'.main = "kill" /\ ses'.inflight = ses.inflight
    BY <2>2, <1>0, <1>S, FinishSettles
  <2>4. ses.inflight \in Call \cup {NoCall}
    BY <1>0 DEF Sessions
  <2> QED BY <2>1, <2>3, <2>4, CallsSettled
<1>29. CASE GracefulTimeout
  <2>1. writer' = writer /\ ses.main \in {"shutdown", "kill"}
    BY <1>29 DEF GracefulTimeout
  <2>2. (\E causes : Finish(causes)) \/ (UNCHANGED <<pending, call>> /\ ses'.main = "kill" /\ ses'.inflight = ses.inflight)
    BY <1>29, <1>0 DEF GracefulTimeout, Sessions
  <2>3. /\ \A c \in Call : Settles(c)
        /\ pending' = <<>> \/ UNCHANGED <<pending, call>>
        /\ \/ ses'.main = "ended" /\ ses'.inflight = NoCall
           \/ ses'.main = "complete" /\ ses'.inflight = ses.inflight /\ ses.inflight # NoCall
           \/ ses'.main = "kill" /\ ses'.inflight = ses.inflight
    BY <2>2, <1>0, <1>S, FinishSettles
  <2>4. ses.inflight \in Call \cup {NoCall}
    BY <1>0 DEF Sessions
  <2> QED BY <2>1, <2>3, <2>4, CallsSettled
<1>30. CASE KillTimeout
  <2>1. writer' = writer /\ ses.main \in {"shutdown", "kill"}
    BY <1>30 DEF KillTimeout
  <2>2. \E causes : Finish(causes)
    BY <1>30 DEF KillTimeout
  <2>3. /\ \A c \in Call : Settles(c)
        /\ pending' = <<>> \/ UNCHANGED <<pending, call>>
        /\ \/ ses'.main = "ended" /\ ses'.inflight = NoCall
           \/ ses'.main = "complete" /\ ses'.inflight = ses.inflight /\ ses.inflight # NoCall
           \/ ses'.main = "kill" /\ ses'.inflight = ses.inflight
    BY <2>2, <1>0, <1>S, FinishSettles
  <2>4. ses.inflight \in Call \cup {NoCall}
    BY <1>0 DEF Sessions
  <2> QED BY <2>1, <2>3, <2>4, CallsSettled
<1>31. CASE ReplayExit
  <2>1. call' = AnswerAll(ToSet(pending), "refused") /\ pending' = <<>> /\ writer' = writer /\ ses'.inflight = ses.inflight /\ ses.main = "replaying" /\ ses'.main = "complete"
    BY <1>31, <1>0 DEF ReplayExit, Sessions
  <2> QED BY <2>1, <1>R, <1>I, CallsSettled
<1>32. CASE ReplayPendingControls
  <2>1. ses.main = "replay" /\ writer' = writer
    BY <1>32 DEF ReplayPendingControls
  <2>2. CASE ses.phase # "replaying"
    <3>1. call' = AnswerAll(ToSet(pending), "refused") /\ pending' = <<>> /\ ses'.inflight = ses.inflight /\ ses'.main = "shutdown"
      <4>1. BeginShutdown({}) /\ call' = AnswerAll(ToSet(pending), "refused") /\ pending' = <<>>
        BY <1>32, <2>2 DEF ReplayPendingControls
      <4> QED BY <1>0, <4>1 DEF BeginShutdown, Sessions
    <3> QED BY <2>1, <3>1, <1>R, CallsSettled
  <2>3. CASE ses.phase = "replaying" /\ pending = <<>>
    <3>1. UNCHANGED <<call, pending>> /\ ses'.inflight = ses.inflight /\ ses'.main = "runtime"
      BY <1>32, <1>0, <2>3 DEF ReplayPendingControls, Sessions
    <3> QED BY <2>1, <3>1, <1>S, CallsSettled
  <2>4. CASE ses.phase = "replaying" /\ pending # <<>>
    <3>1. ses'.main = "replaying"
      BY <1>32, <1>0, <2>4 DEF ReplayPendingControls, Sessions
    <3> QED BY <3>1, <1>32
  <2> QED BY <2>2, <2>3, <2>4
<1>33. CASE ReplayInterrupted
  <2>1. ses.main = "replaying" /\ (\E causes : ReplayStops(causes, {})) /\ writer'.queue = writer.queue /\ writer'.current = writer.current /\ writer'.accepting = writer.accepting
    BY <1>33, <1>0 DEF ReplayInterrupted, Writers
  <2> QED BY <2>1, <1>0, StopSettles, CallsSettled
<1>34. CASE ReadyReceived
  <2>1. ses'.main = "replay" /\ ses'.inflight = ses.inflight /\ ses.main = "ready"
    BY <1>34, <1>0 DEF ReadyReceived, Sessions
  <2>2. writer = WriterOff
    BY <2>1 DEF Opening
  <2>3. writer'.queue = <<>> /\ writer'.current = NoCall
    BY <1>34, <2>2 DEF ReadyReceived, WriterOff
  <2>4. pending' \in {pending, <<>>} /\ (\A c \in Call : Settles(c)) /\ (pending' = <<>> \/ UNCHANGED call)
    BY <1>34, <1>R, <1>S DEF ReadyReceived
  <2>5. PendingCalls'
    <3>1. IsInjective(<<>>)
      BY DEF IsInjective
    <3> QED BY <3>1, <2>4, <1>0 DEF PendingCalls
  <2>6. WriterCalls'
    <3>1. IsInjective(<<>>)
      BY DEF IsInjective
    <3> QED BY <3>1, <2>3, CallAssumption DEF WriterCalls, Queued, NoCall, Main
  <2>7. ReplayedCall'
    BY <2>1, <2>4 DEF Calls, ReplayedCall, Settles
  <2>8. AnsweredCalls'
    BY <2>4 DEF Calls, AnsweredCalls, Settles
  <2> QED BY <2>5, <2>6, <2>7, <2>8 DEF Calls
<1> QED BY <1>10, <1>11, <1>12, <1>13, <1>14, <1>15, <1>16, <1>17, <1>18, <1>19, <1>20, <1>21, <1>22, <1>23, <1>24, <1>25, <1>26, <1>27, <1>28, <1>29, <1>30, <1>31, <1>32, <1>33, <1>34 DEF SessionMain, SessionReader

\* The answer to one call.
LEMMA ReplyIs ==
    ASSUME call \in [Call -> Callers_], ReplayedCall, NEW c \in Call, NEW a \in {"ok", "refused"}, call' = Replied(c, a)
    PROVE  /\ \A d \in Call : d # c => call'[d] = call[d]
           /\ call[c].at = "done" => call' = call
           /\ call[c].at # "done" => call'[c].answer = a /\ call'[c].at = IF c = ses.inflight THEN "replied" ELSE "done"
<1>0. call[c] \in Callers_
  OBVIOUS
<1>1. CASE call[c].at = "done"
  <2>1. c # ses.inflight
    BY <1>1 DEF ReplayedCall
  <2> QED BY <1>1, <2>1 DEF Replied
<1>2. CASE call[c].at # "done" /\ c = ses.inflight
  <2>1. call' = [call EXCEPT ![c].at = "replied", ![c].answer = a]
    BY <1>2 DEF Replied
  <2> QED BY <2>1, <1>0, <1>2 DEF Callers_
<1>3. CASE call[c].at # "done" /\ c # ses.inflight
  <2>1. call' = [call EXCEPT ![c].at = "done", ![c].answer = a]
    BY <1>3 DEF Replied, Answer
  <2> QED BY <2>1, <1>0, <1>3 DEF Callers_
<1> QED BY <1>1, <1>2, <1>3

\* Steps that leave the calls that are pending alone.
LEMMA PendingKept ==
    ASSUME HostTypes, PendingCalls, pending' = pending, \A c \in Call : call[c].at = "pending" => call'[c].at = "pending" PROVE PendingCalls'
<1>1. \A i \in DOMAIN pending : pending[i] \in Call
  BY DEF HostTypes
<1> QED BY <1>1 DEF PendingCalls

LEMMA WriterCallsKept ==
    ASSUME WriterCalls, writer' = writer, ses'.main = ses.main, \A c \in Call : call[c].at \in {"queued", "done"} => call'[c].at = call[c].at PROVE WriterCalls'
BY DEF WriterCalls, Queued

LEMMA CallsControl ==
    ASSUME HostTypes, Calls, NEW c \in Call, Control(c) PROVE Calls'
<1>0. call \in [Call -> Callers_] /\ pending \in Seq(Call) /\ PendingCalls /\ WriterCalls /\ ReplayedCall /\ AnsweredCalls
  BY DEF HostTypes, Calls
<1> DEFINE next == CASE ses.phase \in {"starting", "replaying"} /\ Len(pending) < ControlCapacity -> "pending"
                     [] ses.phase = "ready" -> "calling"
                     [] OTHER -> "done"
<1>1. next \in {"pending", "calling", "done"} /\ call[c].at = "idle" /\ UNCHANGED <<ses, writer>>
      /\ call'[c] = [at |-> next, answer |-> IF next = "done" THEN "refused" ELSE "none"]
      /\ pending' = IF next = "pending" THEN Append(pending, c) ELSE pending
  BY <1>0 DEF Control
<1>2. \A d \in Call : d # c => call'[d] = call[d]
  BY <1>0 DEF Control
<1> HIDE DEF next
<1>3. PendingCalls'
  <2>1. CASE next = "pending"
    <3>1. pending' = Append(pending, c) /\ call'[c].at = "pending"
      BY <1>1, <2>1
    <3>2. \A i \in DOMAIN pending : pending[i] # c /\ pending[i] \in Call
      BY <1>0, <1>1 DEF PendingCalls
    <3>3. \A i \in DOMAIN pending' : (i \in DOMAIN pending /\ pending'[i] = pending[i]) \/ (i = Len(pending) + 1 /\ pending'[i] = c)
      BY <1>0, <3>1
    <3>4. IsInjective(pending')
      BY <3>2, <3>3, <1>0 DEF IsInjective, PendingCalls
    <3>5. \A i \in DOMAIN pending' : call'[pending'[i]].at = "pending"
      BY <3>1, <3>2, <3>3, <1>0, <1>2 DEF PendingCalls
    <3> QED BY <3>4, <3>5 DEF PendingCalls
  <2>2. CASE next # "pending"
    BY <2>2, <1>1, <1>2, <1>0, PendingKept
  <2> QED BY <2>1, <2>2
<1>4. WriterCalls'
  BY <1>0, <1>1, <1>2, WriterCallsKept
<1>5. ReplayedCall'
  BY <1>0, <1>1, <1>2 DEF ReplayedCall
<1>6. AnsweredCalls'
  BY <1>0, <1>1, <1>2 DEF AnsweredCalls
<1> QED BY <1>3, <1>4, <1>5, <1>6 DEF Calls

LEMMA CallsRemoved ==
    ASSUME HostTypes, Calls, NEW c \in Call, RemovePendingControl(c) PROVE Calls'
<1>0. call \in [Call -> Callers_] /\ pending \in Seq(Call) /\ PendingCalls /\ WriterCalls /\ ReplayedCall /\ AnsweredCalls
  BY DEF HostTypes, Calls
<1>1. call[c].at = "pending" /\ UNCHANGED <<ses, writer>> /\ call'[c].at = "done" /\ call'[c].answer = "refused"
  BY <1>0 DEF RemovePendingControl, Answer, Callers_
<1>2. \A d \in Call : d # c => call'[d] = call[d]
  BY <1>0 DEF RemovePendingControl, Answer
<1>3. PICK k \in DOMAIN pending : pending[k] = c /\ pending' = RemoveAt(pending, k)
  BY DEF RemovePendingControl
<1>4. /\ pending' \in Seq(Call) /\ Len(pending') = Len(pending) - 1
      /\ \A j \in 1 .. Len(pending) - 1 : pending'[j] = IF j < k THEN pending[j] ELSE pending[j + 1]
  <2>1. k \in 1 .. Len(pending)
    BY <1>0
  <2> QED BY <2>1, <1>3, <1>0, RemovedAt
<1>5. \A j \in DOMAIN pending' : \E i \in DOMAIN pending : i # k /\ pending'[j] = pending[i] /\ i = IF j < k THEN j ELSE j + 1
  <2> SUFFICES ASSUME NEW j \in DOMAIN pending' PROVE \E i \in DOMAIN pending : i # k /\ pending'[j] = pending[i] /\ i = IF j < k THEN j ELSE j + 1
    OBVIOUS
  <2>1. j \in 1 .. Len(pending) - 1 /\ k \in 1 .. Len(pending)
    BY <1>4, <1>0
  <2>2. CASE j < k
    BY <2>1, <2>2, <1>4, <1>0
  <2>3. CASE ~(j < k)
    BY <2>1, <2>3, <1>4, <1>0
  <2> QED BY <2>2, <2>3
<1>6. PendingCalls'
  <2>1. IsInjective(pending')
    <3> SUFFICES ASSUME NEW x \in DOMAIN pending', NEW y \in DOMAIN pending', pending'[x] = pending'[y] PROVE x = y
      BY DEF IsInjective
    <3>1. PICK i \in DOMAIN pending : i # k /\ pending'[x] = pending[i] /\ i = IF x < k THEN x ELSE x + 1
      BY <1>5
    <3>2. PICK j \in DOMAIN pending : j # k /\ pending'[y] = pending[j] /\ j = IF y < k THEN y ELSE y + 1
      BY <1>5
    <3>3. i = j
      BY <3>1, <3>2, <1>0 DEF PendingCalls, IsInjective
    <3>4. x \in Nat /\ y \in Nat /\ k \in Nat /\ i \in Nat
      BY <1>4, <1>0
    <3> QED BY <3>1, <3>2, <3>3, <3>4
  <2>2. \A j \in DOMAIN pending' : call'[pending'[j]].at = "pending"
    <3> SUFFICES ASSUME NEW j \in DOMAIN pending' PROVE call'[pending'[j]].at = "pending"
      OBVIOUS
    <3>1. PICK i \in DOMAIN pending : i # k /\ pending'[j] = pending[i]
      BY <1>5
    <3>2. pending[i] # c /\ pending[i] \in Call
      BY <3>1, <1>3, <1>0 DEF PendingCalls, IsInjective
    <3> QED BY <3>1, <3>2, <1>2, <1>0 DEF PendingCalls
  <2> QED BY <2>1, <2>2 DEF PendingCalls
<1>7. WriterCalls'
  BY <1>0, <1>1, <1>2, WriterCallsKept
<1>8. ReplayedCall'
  BY <1>0, <1>1, <1>2 DEF ReplayedCall
<1>9. AnsweredCalls'
  BY <1>0, <1>1, <1>2 DEF AnsweredCalls
<1> QED BY <1>6, <1>7, <1>8, <1>9 DEF Calls

LEMMA CallsReplay ==
    ASSUME HostTypes, Calls, ReplayPendingControls, ses'.main = "replaying" PROVE Calls'
<1>0. ses \in Sessions /\ call \in [Call -> Callers_] /\ pending \in Seq(Call) /\ PendingCalls /\ WriterCalls /\ ReplayedCall /\ AnsweredCalls
  BY DEF HostTypes, Calls
<1>1. ses.phase = "replaying" /\ pending # <<>>
  BY <1>0 DEF ReplayPendingControls, BeginShutdown, Sessions
<1>2. ses'.inflight = Head(pending) /\ call' = [call EXCEPT ![Head(pending)].at = "calling"] /\ pending' = Tail(pending) /\ writer' = writer /\ ses.main = "replay"
  BY <1>0, <1>1 DEF ReplayPendingControls, Sessions
<1>3. Head(pending) \in Call /\ call[Head(pending)].at = "pending" /\ Head(pending) = pending[1]
      /\ \A i \in DOMAIN Tail(pending) : i + 1 \in DOMAIN pending /\ i + 1 # 1 /\ Tail(pending)[i] = pending[i + 1] /\ i \in Nat
  BY <1>0, <1>1 DEF PendingCalls
<1>4. call'[Head(pending)].at = "calling" /\ call'[Head(pending)].answer = call[Head(pending)].answer /\ \A d \in Call : d # Head(pending) => call'[d] = call[d]
  BY <1>0, <1>2, <1>3 DEF Callers_
<1>5. PendingCalls'
  <2>1. IsInjective(pending')
    <3> SUFFICES ASSUME NEW x \in DOMAIN pending', NEW y \in DOMAIN pending', pending'[x] = pending'[y] PROVE x = y
      BY DEF IsInjective
    <3>1. pending[x + 1] = pending[y + 1] /\ x + 1 \in DOMAIN pending /\ y + 1 \in DOMAIN pending /\ x \in Nat /\ y \in Nat
      BY <1>2, <1>3
    <3>2. x + 1 = y + 1
      BY <3>1, <1>0 DEF PendingCalls, IsInjective
    <3> QED BY <3>1, <3>2
  <2>2. \A i \in DOMAIN pending' : call'[pending'[i]].at = "pending"
    <3> SUFFICES ASSUME NEW i \in DOMAIN pending' PROVE call'[pending'[i]].at = "pending"
      OBVIOUS
    <3>1. i + 1 \in DOMAIN pending /\ i + 1 # 1 /\ pending'[i] = pending[i + 1] /\ 1 \in DOMAIN pending
      BY <1>2, <1>3, <1>1, <1>0
    <3>2. pending[i + 1] # Head(pending) /\ pending[i + 1] \in Call
      BY <3>1, <1>3, <1>0 DEF PendingCalls, IsInjective
    <3> QED BY <3>1, <3>2, <1>4, <1>0 DEF PendingCalls
  <2> QED BY <2>1, <2>2 DEF PendingCalls
<1>6. WriterCalls'
  BY <1>0, <1>2, <1>3, <1>4 DEF WriterCalls, Queued
<1>7. ReplayedCall'
  BY <1>2, <1>3, <1>4 DEF ReplayedCall
<1>8. AnsweredCalls'
  BY <1>0, <1>3, <1>4 DEF AnsweredCalls
<1> QED BY <1>5, <1>6, <1>7, <1>8 DEF Calls

LEMMA CallsAnswered ==
    ASSUME HostTypes, Calls, ReplayAnswered PROVE Calls'
<1>0. ses \in Sessions /\ call \in [Call -> Callers_] /\ pending \in Seq(Call) /\ PendingCalls /\ WriterCalls /\ ReplayedCall /\ AnsweredCalls
  BY DEF HostTypes, Calls
<1>1. ses.main = "replaying" /\ ses.inflight \in Call /\ call[ses.inflight].at = "replied" /\ writer' = writer /\ ses'.inflight = NoCall
      /\ ses'.main \in {"shutdown", "replay"}
  BY <1>0 DEF ReplayAnswered, ReplayedCall, ReplayStops, Sessions
<1>2. /\ call'[ses.inflight].at = "done" /\ call'[ses.inflight].answer = call[ses.inflight].answer
      /\ \A d \in Call : d # ses.inflight => Settles(d)
      /\ pending' = <<>> \/ (pending' = pending /\ \A d \in Call : d # ses.inflight => call'[d] = call[d])
  <2>1. CASE writer.failed
    <3>1. ReplayStops({"retry"}, {ses.inflight})
      BY <2>1 DEF ReplayAnswered
    <3>2. call' = [c \in Call |-> IF c = ses.inflight THEN [call[c] EXCEPT !.at = "done"]
                               ELSE IF c \in ToSet(pending) THEN [call[c] EXCEPT !.at = "done", !.answer = "refused"]
                               ELSE call[c]] /\ pending' = <<>>
      BY <3>1 DEF ReplayStops
    <3>3. \A c \in ToSet(pending) : call[c].at = "pending"
      BY <1>0 DEF PendingCalls, ToSet
    <3>4. call'[ses.inflight].at = "done" /\ call'[ses.inflight].answer = call[ses.inflight].answer
      BY <3>2, <1>0, <1>1 DEF Callers_
    <3>5. \A d \in Call : d # ses.inflight => Settles(d)
      BY <3>2, <3>3, <1>0 DEF Callers_, Settles
    <3> QED BY <3>2, <3>4, <3>5
  <2>2. CASE ~writer.failed
    BY <2>2, <1>0, <1>1 DEF ReplayAnswered, Callers_, Settles
  <2> QED BY <2>1, <2>2
<1>3. PendingCalls'
  <2>1. IsInjective(<<>>)
    BY DEF IsInjective
  <2>2. CASE pending' = <<>>
    BY <2>1, <2>2 DEF PendingCalls
  <2>3. CASE pending' = pending
    BY <2>3, <1>0, <1>1, <1>2 DEF PendingCalls
  <2> QED BY <2>2, <2>3, <1>2
<1>4. WriterCalls'
  BY <1>0, <1>1, <1>2 DEF WriterCalls, Queued, Settles
<1>5. ReplayedCall'
  BY <1>1, CallAssumption DEF ReplayedCall
<1>6. AnsweredCalls'
  BY <1>0, <1>1, <1>2 DEF AnsweredCalls, Settles
<1> QED BY <1>3, <1>4, <1>5, <1>6 DEF Calls

LEMMA CallsCompleted ==
    ASSUME HostTypes, Calls, CompleteReplayControl PROVE Calls'
<1>0. ses \in Sessions /\ call \in [Call -> Callers_] /\ pending \in Seq(Call) /\ PendingCalls /\ WriterCalls /\ ReplayedCall /\ AnsweredCalls
  BY DEF HostTypes, Calls
<1>1. ses.main = "complete" /\ ses.inflight \in Call /\ call[ses.inflight].at \in {"queued", "replied"} /\ writer' = writer /\ pending' = pending
      /\ ses'.inflight = NoCall /\ ses'.main = "ended"
  BY <1>0 DEF CompleteReplayControl, ReplayedCall, Ended, Sessions
<1>2. PICK answer \in {"refused"} \cup (IF call[ses.inflight].at = "replied" THEN {call[ses.inflight].answer} ELSE {}) : call' = Answer(ses.inflight, answer)
  BY DEF CompleteReplayControl
<1>3. call'[ses.inflight].at = "done" /\ call'[ses.inflight].answer = answer /\ answer # "none"
  BY <1>0, <1>1, <1>2 DEF Answer, Callers_, AnsweredCalls
<1>4. \A d \in Call : d # ses.inflight => call'[d] = call[d]
  BY <1>0, <1>2 DEF Answer
<1>5. PendingCalls'
  BY <1>0, <1>1, <1>4, PendingKept
<1>6. WriterCalls'
  BY <1>0, <1>1, <1>3, <1>4 DEF WriterCalls, Queued
<1>7. ReplayedCall'
  BY <1>1, CallAssumption DEF ReplayedCall
<1>8. AnsweredCalls'
  BY <1>0, <1>3, <1>4 DEF AnsweredCalls
<1> QED BY <1>5, <1>6, <1>7, <1>8 DEF Calls

\* Facts about the queue of the writer.
LEMMA QueueGrows ==
    ASSUME NEW q \in Seq(Owners), NEW o \in Owners
    PROVE  /\ Append(q, o) \in Seq(Owners)
           /\ \A i \in DOMAIN Append(q, o) : (i \in DOMAIN q /\ Append(q, o)[i] = q[i]) \/ (i = Len(q) + 1 /\ Append(q, o)[i] = o)
           /\ \A i \in DOMAIN q : i \in DOMAIN Append(q, o) /\ Append(q, o)[i] = q[i]
           /\ (\A i \in DOMAIN q : q[i] # o) /\ IsInjective(q) => IsInjective(Append(q, o))
<1>1. Append(q, o) \in Seq(Owners)
      /\ \A i \in DOMAIN Append(q, o) : (i \in DOMAIN q /\ Append(q, o)[i] = q[i]) \/ (i = Len(q) + 1 /\ Append(q, o)[i] = o)
  OBVIOUS
<1>2. \A i \in DOMAIN q : i \in DOMAIN Append(q, o) /\ Append(q, o)[i] = q[i]
  OBVIOUS
<1>3. ASSUME \A i \in DOMAIN q : q[i] # o, IsInjective(q) PROVE IsInjective(Append(q, o))
  BY <1>1, <1>3 DEF IsInjective
<1> QED BY <1>1, <1>2, <1>3

LEMMA QueueMoves ==
    ASSUME NEW q \in Seq(Owners), q # <<>>
    PROVE  /\ Tail(q) \in Seq(Owners) /\ Head(q) \in Owners /\ 1 \in DOMAIN q /\ Head(q) = q[1]
           /\ \A i \in DOMAIN Tail(q) : \E j \in DOMAIN q : j # 1 /\ Tail(q)[i] = q[j]
           /\ IsInjective(q) => IsInjective(Tail(q)) /\ \A i \in DOMAIN Tail(q) : Tail(q)[i] # Head(q)
<1>1. Tail(q) \in Seq(Owners) /\ Head(q) \in Owners /\ 1 \in DOMAIN q /\ Head(q) = q[1]
  OBVIOUS
<1>2. \A i \in DOMAIN Tail(q) : i \in Nat /\ i + 1 \in DOMAIN q /\ i + 1 # 1 /\ Tail(q)[i] = q[i + 1]
  OBVIOUS
<1>3. ASSUME IsInjective(q) PROVE IsInjective(Tail(q)) /\ \A i \in DOMAIN Tail(q) : Tail(q)[i] # Head(q)
  <2>1. ASSUME NEW x \in DOMAIN Tail(q), NEW y \in DOMAIN Tail(q), Tail(q)[x] = Tail(q)[y] PROVE x = y
    <3>1. x + 1 = y + 1
      BY <1>2, <1>3, <2>1 DEF IsInjective
    <3> QED BY <3>1, <1>2
  <2>2. ASSUME NEW x \in DOMAIN Tail(q), Tail(q)[x] = Head(q) PROVE FALSE
    <3>1. x + 1 = 1
      BY <1>1, <1>2, <1>3, <2>2 DEF IsInjective
    <3> QED BY <3>1, <1>2
  <2> QED BY <2>1, <2>2 DEF IsInjective
<1> QED BY <1>1, <1>2, <1>3

LEMMA CallsWriterControl ==
    ASSUME HostTypes, Calls, NEW c \in Call, WriterControl(c) PROVE Calls'
<1>0. ses \in Sessions /\ writer \in Writers /\ call \in [Call -> Callers_] /\ PendingCalls /\ WriterCalls /\ ReplayedCall /\ AnsweredCalls
  BY DEF HostTypes, Calls
<1>M. c # Main /\ c # NoCall
  BY CallAssumption DEF NoCall, Main
<1>1. call[c].at = "calling" /\ UNCHANGED <<ses, pending>>
  BY DEF WriterControl
<1>2. CASE Enqueued(c) = "queued"
  <2>1. writer.accepting
    BY <1>2 DEF Enqueued
  <2>2. writer' = [writer EXCEPT !.queue = Append(@, c)] /\ call' = [call EXCEPT ![c].at = "queued"]
    BY <1>2 DEF WriterControl
  <2>3. writer'.queue = Append(writer.queue, c) /\ writer'.current = writer.current /\ writer'.accepting = writer.accepting /\ writer.queue \in Seq(Owners) /\ c \in Owners
    BY <2>2, <1>0 DEF Writers, Owners
  <2>4. call'[c].at = "queued" /\ call'[c].answer = call[c].answer /\ \A d \in Call : d # c => call'[d] = call[d]
    BY <2>2, <1>0 DEF Callers_
  <2>5. c # writer.current /\ ~Queued(c)
    BY <1>0, <1>1 DEF WriterCalls
  <2>6. IsInjective(Append(writer.queue, c)) /\ \A o : Queued(o)' => Queued(o) \/ o = c
    BY <2>3, <2>5, <1>0, QueueGrows DEF WriterCalls, Queued
  <2>7. WriterCalls'
    BY <2>3, <2>4, <2>5, <2>6, <1>0, <1>1, <1>M DEF WriterCalls
  <2>8. PendingCalls'
    BY <1>0, <1>1, <2>4, PendingKept
  <2>9. ReplayedCall'
    BY <1>0, <1>1, <2>4 DEF ReplayedCall
  <2>10. AnsweredCalls'
    BY <1>0, <1>1, <2>4 DEF AnsweredCalls
  <2> QED BY <2>7, <2>8, <2>9, <2>10 DEF Calls
<1>3. CASE Enqueued(c) # "queued"
  <2>1. call' = Replied(c, "refused") /\ writer' = writer
    BY <1>3 DEF WriterControl
  <2>2. (\A d \in Call : d # c => call'[d] = call[d]) /\ call'[c].answer = "refused" /\ call'[c].at = IF c = ses.inflight THEN "replied" ELSE "done"
    BY <2>1, <1>0, <1>1, ReplyIs
  <2>3. PendingCalls'
    BY <1>0, <1>1, <2>2, PendingKept
  <2>4. WriterCalls'
    BY <1>0, <1>1, <2>1, <2>2, WriterCallsKept
  <2>5. ReplayedCall'
    BY <1>0, <1>1, <2>2 DEF ReplayedCall
  <2>6. AnsweredCalls'
    BY <1>0, <1>1, <2>2 DEF AnsweredCalls
  <2> QED BY <2>3, <2>4, <2>5, <2>6 DEF Calls
<1> QED BY <1>2, <1>3

LEMMA CallsWriterShutdown ==
    ASSUME HostTypes, Calls, WriterShutdown PROVE Calls'
<1>0. ses \in Sessions /\ writer \in Writers /\ call \in [Call -> Callers_] /\ PendingCalls /\ WriterCalls /\ ReplayedCall /\ AnsweredCalls
  BY DEF HostTypes, Calls
<1>1. UNCHANGED <<ses, pending, call>>
  BY DEF WriterShutdown
<1>2. WriterCalls'
  <2>1. CASE writer' = writer
    BY <2>1, <1>0, <1>1, WriterCallsKept
  <2>2. CASE writer' # writer
    <3>1. writer.accepting /\ writer' = [writer EXCEPT !.queue = Append(@, Main), !.accepting = FALSE]
      BY <2>2 DEF WriterShutdown, Enqueued
    <3>2. writer'.queue = Append(writer.queue, Main) /\ writer'.current = writer.current /\ ~writer'.accepting /\ writer.queue \in Seq(Owners) /\ Main \in Owners
      BY <3>1, <1>0 DEF Writers, Owners
    <3>3. Main # writer.current /\ ~Queued(Main)
      BY <1>0, <3>1 DEF WriterCalls
    <3>4. IsInjective(Append(writer.queue, Main)) /\ \A o : Queued(o)' => Queued(o) \/ o = Main
      BY <3>2, <3>3, <1>0, QueueGrows DEF WriterCalls, Queued
    <3> QED BY <3>2, <3>3, <3>4, <1>0, <1>1, CallAssumption DEF WriterCalls
  <2> QED BY <2>1, <2>2
<1>3. PendingCalls'
  BY <1>0, <1>1, PendingKept
<1>4. ReplayedCall' /\ AnsweredCalls'
  BY <1>0, <1>1 DEF ReplayedCall, AnsweredCalls
<1> QED BY <1>2, <1>3, <1>4 DEF Calls

LEMMA CallsWriterTakes ==
    ASSUME HostTypes, Calls, WriterKeeps, WriterTakes PROVE Calls'
<1>0. ses \in Sessions /\ writer \in Writers /\ call \in [Call -> Callers_] /\ PendingCalls /\ WriterCalls /\ ReplayedCall /\ AnsweredCalls
  BY DEF HostTypes, Calls
<1>1. UNCHANGED <<ses, pending>> /\ writer.queue # <<>> /\ writer.queue \in Seq(Owners)
  BY <1>0 DEF WriterTakes, Writers
<1> DEFINE o == Head(writer.queue)
<1>2. o \in Owners /\ Queued(o) /\ Tail(writer.queue) \in Seq(Owners) /\ IsInjective(Tail(writer.queue)) /\ (\A i \in DOMAIN Tail(writer.queue) : Tail(writer.queue)[i] # o)
      /\ \A i \in DOMAIN Tail(writer.queue) : \E j \in DOMAIN writer.queue : Tail(writer.queue)[i] = writer.queue[j]
  BY <1>0, <1>1, QueueMoves DEF Queued, WriterCalls
<1>3. writer'.queue = Tail(writer.queue) /\ writer'.accepting = writer.accepting
      /\ \/ writer'.current = o /\ call' = call
         \/ writer'.current = writer.current /\ o # Main /\ call' \in {Replied(o, "refused"), Replied(o, "ok")}
  BY <1>0, <1>1 DEF WriterTakes, Writers
<1> HIDE DEF o
<1>4. /\ \A i \in DOMAIN writer'.queue : writer'.queue[i] # o
      /\ \A i \in DOMAIN writer'.queue : \E j \in DOMAIN writer.queue : writer'.queue[i] = writer.queue[j]
      /\ IsInjective(writer'.queue)
  BY <1>2, <1>3
<1>5. CASE writer'.current = o /\ call' = call
  <2>1. WriterCalls'
    BY <1>0, <1>1, <1>2, <1>3, <1>4, <1>5 DEF WriterCalls, Queued
  <2>2. PendingCalls'
    BY <1>0, <1>1, <1>5, PendingKept
  <2>3. ReplayedCall' /\ AnsweredCalls'
    BY <1>0, <1>1, <1>5 DEF ReplayedCall, AnsweredCalls
  <2> QED BY <2>1, <2>2, <2>3 DEF Calls
<1>6. CASE writer'.current = writer.current /\ o # Main /\ call' \in {Replied(o, "refused"), Replied(o, "ok")}
  <2>1. o \in Call /\ call[o].at \in {"queued", "done"} /\ o # writer.current
    BY <1>0, <1>2, <1>6 DEF Owners, WriterCalls
  <2>2. /\ \A d \in Call : d # o => call'[d] = call[d]
        /\ call[o].at = "done" => call' = call
        /\ call[o].at # "done" => call'[o].answer \in {"ok", "refused"} /\ call'[o].at = IF o = ses.inflight THEN "replied" ELSE "done"
    BY <2>1, <1>0, <1>6, ReplyIs
  <2>3. WriterCalls'
    BY <1>0, <1>1, <1>2, <1>3, <1>4, <1>6, <2>1, <2>2 DEF WriterCalls, Queued
  <2>4. PendingCalls'
    BY <1>0, <1>1, <2>1, <2>2, PendingKept
  <2>5. ReplayedCall'
    BY <1>0, <1>1, <2>1, <2>2 DEF ReplayedCall
  <2>6. AnsweredCalls'
    BY <1>0, <1>1, <2>1, <2>2 DEF AnsweredCalls
  <2> QED BY <2>3, <2>4, <2>5, <2>6 DEF Calls
<1> QED BY <1>3, <1>5, <1>6

\* The end of the writer answers the calls that wait for it.
Replies(c) ==
    call'[c] = call[c] \/ ( /\ call[c].at = "queued" /\ call'[c].answer \in {"ok", "refused"}
                            /\ call'[c].at = IF c = ses.inflight THEN "replied" ELSE "done")

LEMMA StopsIs ==
    ASSUME HostTypes, WriterCalls, NEW answer \in {"ok", "refused", "failed"}, NEW failed, writer.current # Main => answer \in {"ok", "refused"},
           Stops(writer.current, answer, failed), writer.current \in Owners
    PROVE  /\ \A c \in Call : Replies(c)
           /\ writer'.queue = <<>> /\ writer'.current = NoCall /\ ~writer'.accepting /\ writer'.at = "stopped"
<1>0. writer \in Writers /\ call \in [Call -> Callers_]
  BY DEF HostTypes
<1>1. writer'.queue = <<>> /\ writer'.current = NoCall /\ ~writer'.accepting /\ writer'.at = "stopped"
  BY <1>0 DEF Stops, Writers
<1>2. ASSUME NEW c \in Call PROVE Replies(c)
  <2>1. (c \in ToSet(writer.queue) \/ c = writer.current) => call[c].at \in {"queued", "done"}
    BY DEF WriterCalls, Queued, ToSet
  <2>2. call'[c] = call[c] \/
        /\ c \in ToSet(writer.queue) \/ (writer.current # Main /\ c = writer.current)
        /\ call[c].at # "done"
        /\ call'[c] = [call[c] EXCEPT !.at = IF c = ses.inflight THEN "replied" ELSE "done", !.answer = IF c = writer.current THEN answer ELSE "refused"]
    BY DEF Stops
  <2>3. call[c] \in Callers_ /\ c # Main
    BY <1>0, CallAssumption DEF Main
  <2> QED BY <2>1, <2>2, <2>3 DEF Replies, Callers_
<1> QED BY <1>1, <1>2

LEMMA CallsStopped ==
    ASSUME HostTypes, Calls, UNCHANGED <<ses, pending>>, \A c \in Call : Replies(c),
           writer'.queue = <<>>, writer'.current = NoCall, ~writer'.accepting
    PROVE  Calls'
<1>0. PendingCalls /\ WriterCalls /\ ReplayedCall /\ AnsweredCalls
  BY DEF Calls
<1>1. PendingCalls'
  BY <1>0, PendingKept DEF Replies
<1>2. WriterCalls'
  <2>1. IsInjective(<<>>)
    BY DEF IsInjective
  <2> QED BY <2>1, CallAssumption DEF WriterCalls, Queued
<1>3. ReplayedCall' /\ AnsweredCalls'
  BY <1>0 DEF ReplayedCall, AnsweredCalls, Replies
<1> QED BY <1>1, <1>2, <1>3 DEF Calls

LEMMA CallsWriterSends ==
    ASSUME HostTypes, Calls, WriterKeeps, WriterSends PROVE Calls'
<1>0. ses \in Sessions /\ writer \in Writers /\ call \in [Call -> Callers_] /\ PendingCalls /\ WriterCalls /\ ReplayedCall /\ AnsweredCalls
  BY DEF HostTypes, Calls
<1>1. UNCHANGED <<ses, pending>> /\ writer.current \in Owners
  BY <1>0 DEF WriterSends, WriterKeeps, Writers
<1>2. CASE writer.current = Main
  <2>1. Stops(writer.current, "ok", FALSE)
    BY <1>2 DEF WriterSends
  <2> QED BY <2>1, <1>0, <1>1, StopsIs, CallsStopped
<1>3. CASE writer.current # Main
  <2>1. call' = Replied(writer.current, "ok") /\ writer'.queue = writer.queue /\ writer'.current = NoCall /\ writer'.accepting = writer.accepting
    BY <1>3, <1>0 DEF WriterSends, Writers
  <2>2. writer.current \in Call /\ call[writer.current].at \in {"queued", "done"} /\ ~Queued(NoCall)
    <3>1. \A i \in DOMAIN writer.queue : writer.queue[i] # NoCall
      BY <1>0, CallAssumption DEF Writers, Owners, NoCall, Main
    <3> QED BY <3>1, <1>0, <1>1, <1>3 DEF Owners, WriterCalls, Queued
  <2>3. /\ \A d \in Call : d # writer.current => call'[d] = call[d]
        /\ call[writer.current].at = "done" => call' = call
        /\ call[writer.current].at # "done" => call'[writer.current].answer = "ok" /\ call'[writer.current].at = IF writer.current = ses.inflight THEN "replied" ELSE "done"
    BY <2>1, <2>2, <1>0, ReplyIs
  <2>4. WriterCalls'
    BY <1>0, <1>1, <2>1, <2>2, <2>3, CallAssumption DEF WriterCalls, Queued, NoCall, Main
  <2>5. PendingCalls'
    BY <1>0, <1>1, <2>2, <2>3, PendingKept
  <2>6. ReplayedCall'
    BY <1>0, <1>1, <2>2, <2>3 DEF ReplayedCall
  <2>7. AnsweredCalls'
    BY <1>0, <1>1, <2>2, <2>3 DEF AnsweredCalls
  <2> QED BY <2>4, <2>5, <2>6, <2>7 DEF Calls
<1> QED BY <1>2, <1>3

LEMMA CallsWriterFails ==
    ASSUME HostTypes, Calls, WriterKeeps, WriterFails PROVE Calls'
<1>1. UNCHANGED <<ses, pending>> /\ writer.current \in Owners /\ WriterCalls
  BY DEF WriterFails, WriterKeeps, Writers, HostTypes, Calls
<1>2. Stops(writer.current, IF writer.current = Main THEN "failed" ELSE "refused", TRUE)
  BY DEF WriterFails
<1>3. /\ \A c \in Call : Replies(c)
      /\ writer'.queue = <<>> /\ writer'.current = NoCall /\ ~writer'.accepting
  BY <1>1, <1>2, StopsIs
<1> QED BY <1>1, <1>3, CallsStopped

LEMMA CallsStep ==
    ASSUME Types, Types', Opening, Calls, WriterKeeps, Next PROVE Calls'
<1>0. HostTypes /\ HostTypes'
  BY DEF Types
<1>1. CASE SessionNext
  BY <1>0, <1>1, CallsControl, CallsRemoved, CallsMain, CallsReplay, CallsAnswered, CallsCompleted,
     CallsWriterControl, CallsWriterShutdown, CallsWriterTakes, CallsWriterSends, CallsWriterFails DEF SessionNext, SessionWriter, Callers
<1>2. CASE UNCHANGED hostVars
  BY <1>2 DEF hostVars, Calls, PendingCalls, WriterCalls, ReplayedCall, AnsweredCalls, Queued
<1> QED BY <1>1, <1>2 DEF Next, Host, ProcessDies

-----------------------------------------------------------------------------
(* The writer's state. *)

LEMMA WriterKeepsHost ==
    ASSUME HostTypes, Opening, WriterKeeps, SessionNext PROVE WriterKeeps'
<1>0. writer \in Writers /\ writer.queue \in Seq(Owners)
  BY DEF HostTypes, Writers
<1>M. NoCall \notin Owners
  BY CallAssumption DEF Owners, NoCall, Main
<1>K. ASSUME writer'.at = writer.at \/ (writer.at = "off" /\ writer'.at = "idle"), writer'.current = writer.current, writer'.state = writer.state, told' = told PROVE WriterKeeps'
  BY <1>K DEF WriterKeeps
<1>1. CASE WriterTakes
  <2>1. writer.queue # <<>> /\ writer.at = "idle" /\ told' = told /\ writer.state = told
    BY <1>1 DEF WriterTakes, WriterKeeps
  <2>2. Head(writer.queue) \in Owners
    BY <2>1, <1>0
  <2>3. CASE Head(writer.queue) = Main
    <3>1. writer'.at = "sending" /\ writer'.current = Main
      BY <1>1, <1>0, <2>3 DEF WriterTakes, Writers
    <3> QED BY <3>1, <2>2, <2>3, <1>M DEF WriterKeeps
  <2>4. CASE Head(writer.queue) # Main /\ Rises(writer.state, Request[Head(writer.queue)])
    <3>1. writer'.at = "sending" /\ writer'.current = Head(writer.queue) /\ writer'.state = Applied(writer.state, Request[Head(writer.queue)])
      BY <1>1, <1>0, <2>4 DEF WriterTakes, Writers
    <3> QED BY <3>1, <2>1, <2>2, <2>4, <1>M DEF WriterKeeps
  <2>5. CASE Head(writer.queue) # Main /\ ~Rises(writer.state, Request[Head(writer.queue)])
    <3>1. writer'.at = writer.at /\ writer'.current = writer.current /\ writer'.state = writer.state
      BY <1>1, <1>0, <2>5 DEF WriterTakes, Writers
    <3> QED BY <3>1, <2>1, <1>K
  <2> QED BY <2>3, <2>4, <2>5
<1>2. CASE WriterSends
  <2>1. CASE writer.current = Main
    <3>1. writer'.at = "stopped"
      BY <1>2, <2>1, <1>0 DEF WriterSends, Stops, Writers
    <3> QED BY <3>1 DEF WriterKeeps
  <2>2. CASE writer.current # Main
    BY <1>2, <2>2, <1>0 DEF WriterSends, Writers, WriterKeeps
  <2> QED BY <2>1, <2>2
<1>3. CASE WriterFails
  <2>1. writer'.at = "stopped"
    BY <1>3, <1>0 DEF WriterFails, Stops, Writers
  <2> QED BY <2>1 DEF WriterKeeps
<1>10. ASSUME NEW c \in Call, Control(c) PROVE WriterKeeps'
  BY <1>10, <1>0, <1>K DEF Control, Writers
<1>11. ASSUME NEW c \in Call, RemovePendingControl(c) PROVE WriterKeeps'
  BY <1>11, <1>0, <1>K DEF RemovePendingControl, Writers
<1>12. ASSUME Stop PROVE WriterKeeps'
  BY <1>12, <1>0, <1>K DEF Stop, Writers
<1>13. ASSUME Launch PROVE WriterKeeps'
  BY <1>13, <1>0, <1>K DEF Launch, Writers
<1>14. ASSUME LaunchFails PROVE WriterKeeps'
  BY <1>14, <1>0, <1>K DEF LaunchFails, Writers
<1>15. ASSUME Accept PROVE WriterKeeps'
  BY <1>15, <1>0, <1>K DEF Accept, Writers
<1>16. ASSUME StartupFails PROVE WriterKeeps'
  BY <1>16, <1>0, <1>K DEF StartupFails, Writers
<1>17. ASSUME CleanupStartedProcess PROVE WriterKeeps'
  BY <1>17, <1>0, <1>K DEF CleanupStartedProcess, Writers
<1>18. ASSUME HelloReceived PROVE WriterKeeps'
  BY <1>18, <1>0, <1>K DEF HelloReceived, Writers
<1>19. CASE ReadyReceived
  <2>1. writer.at = "off"
    BY <1>19 DEF ReadyReceived, Opening
  <2>2. writer'.at = "idle" /\ writer'.current = writer.current /\ writer'.state = writer.state /\ told' = told
    BY <1>19, <1>0 DEF ReadyReceived, Writers
  <2> QED BY <2>1, <2>2, <1>K
<1>20. ASSUME ReplayPendingControls PROVE WriterKeeps'
  BY <1>20, <1>0, <1>K DEF ReplayPendingControls, Writers
<1>21. ASSUME ReplayAnswered PROVE WriterKeeps'
  BY <1>21, <1>0, <1>K DEF ReplayAnswered, Writers
<1>22. ASSUME ReplayExit PROVE WriterKeeps'
  BY <1>22, <1>0, <1>K DEF ReplayExit, Writers
<1>23. ASSUME ReplayInterrupted PROVE WriterKeeps'
  BY <1>23, <1>0, <1>K DEF ReplayInterrupted, Writers
<1>24. ASSUME CompleteReplayControl PROVE WriterKeeps'
  BY <1>24, <1>0, <1>K DEF CompleteReplayControl, Writers
<1>25. ASSUME RuntimeEnds PROVE WriterKeeps'
  BY <1>25, <1>0, <1>K DEF RuntimeEnds, Writers
<1>26. ASSUME RuntimeExit PROVE WriterKeeps'
  BY <1>26, <1>0, <1>K DEF RuntimeExit, Writers
<1>27. ASSUME DrainReader PROVE WriterKeeps'
  BY <1>27, <1>0, <1>K DEF DrainReader, Writers
<1>28. ASSUME StopWriter PROVE WriterKeeps'
  BY <1>28, <1>0, <1>K DEF StopWriter, Writers
<1>29. ASSUME ShutdownSent PROVE WriterKeeps'
  BY <1>29, <1>0, <1>K DEF ShutdownSent, Writers
<1>30. ASSUME ShutdownWaits PROVE WriterKeeps'
  BY <1>30, <1>0, <1>K DEF ShutdownWaits, Writers
<1>31. ASSUME ShutdownDone PROVE WriterKeeps'
  BY <1>31, <1>0, <1>K DEF ShutdownDone, Writers
<1>32. ASSUME GracefulTimeout PROVE WriterKeeps'
  BY <1>32, <1>0, <1>K DEF GracefulTimeout, Writers
<1>33. ASSUME KillTimeout PROVE WriterKeeps'
  BY <1>33, <1>0, <1>K DEF KillTimeout, Writers
<1>34. ASSUME NEW c \in Call, WriterControl(c) PROVE WriterKeeps'
  BY <1>34, <1>0, <1>K DEF WriterControl, Writers
<1>35. ASSUME WriterShutdown PROVE WriterKeeps'
  BY <1>35, <1>0, <1>K DEF WriterShutdown, Writers
<1>36. ASSUME ReaderReceives PROVE WriterKeeps'
  BY <1>36, <1>0, <1>K DEF ReaderReceives, Writers
<1>37. ASSUME Submit PROVE WriterKeeps'
  BY <1>37, <1>0, <1>K DEF Submit, Writers
<1>38. ASSUME QueueAck PROVE WriterKeeps'
  BY <1>38, <1>0, <1>K DEF QueueAck, Writers
<1>39. ASSUME CheckAck PROVE WriterKeeps'
  BY <1>39, <1>0, <1>K DEF CheckAck, Writers
<1>40. ASSUME ReaderFails PROVE WriterKeeps'
  BY <1>40, <1>0, <1>K DEF ReaderFails, Writers
<1> QED BY <1>1, <1>2, <1>3, <1>10, <1>11, <1>12, <1>13, <1>14, <1>15, <1>16, <1>17, <1>18, <1>19, <1>20, <1>21, <1>22, <1>23, <1>24, <1>25, <1>26, <1>27, <1>28, <1>29, <1>30, <1>31, <1>32, <1>33, <1>34, <1>35, <1>36, <1>37, <1>38, <1>39, <1>40 DEF SessionNext, SessionMain, SessionWriter, SessionReader, Callers

LEMMA WriterKeepsStep ==
    ASSUME Types, Opening, WriterKeeps, Next PROVE WriterKeeps'
<1>1. CASE UNCHANGED hostVars
  BY <1>1 DEF hostVars, WriterKeeps
<1> QED BY <1>1, WriterKeepsHost DEF Types, Next, Host, ProcessDies

-----------------------------------------------------------------------------
(* The end of the session. *)

LEMMA EndingHost ==
    ASSUME Types, Handshake, Opening, Ending, Acknowledged, SessionNext PROVE Ending'
<1>0. ses \in Sessions /\ pipe \in Pipes /\ reader \in Readers /\ shut \in Shutdowns /\ proc \in [at : {"none", "alive", "exited"}, bad : BOOLEAN]
      /\ writer \in Writers
  BY DEF Types, HostTypes, PipeTypes
<1>1. \A causes : Ended(causes).main = "ended" /\ Ended(causes).phase = "ended" /\ Ended(causes).causes = causes
  BY <1>0 DEF Ended, Sessions
<1>2. ASSUME NEW causes, End(causes) PROVE ses'.main = "ended" /\ ses'.phase = "ended" /\ ses'.causes = causes
  BY <1>1, <1>2 DEF End
<1>3. ASSUME NEW causes, Finish(causes)
      PROVE  /\ ses'.causes = causes
             /\ \/ ses'.main = "ended" /\ ses'.phase = "ended"
                \/ ses'.main = "complete" /\ ses'.phase = ses.phase /\ ses'.cancelled = ses.cancelled
  BY <1>2, <1>3, <1>0 DEF Finish, Sessions
<1>4. ASSUME NEW causes, NEW cs, ReplayStops(causes, cs)
      PROVE  ses'.main = "shutdown" /\ ses'.phase = "stopping" /\ ses'.cancelled = ses.cancelled /\ shut'.exited = shut.exited
  BY <1>4, <1>0 DEF ReplayStops, Sessions, Shutdowns
<1>5. Close(pipe).host = "closed"
  BY <1>0 DEF Close, Pipes
<1>6. ReaderOff.at = "off" /\ ShutOff.exited = FALSE
  BY DEF ReaderOff, ShutOff
<1>K. ASSUME ses' = ses, reader' = reader, proc' = proc, pipe' = pipe, shut'.exited = shut.exited, writer.at = "off" => writer'.at = "off" PROVE Ending'
  BY <1>K DEF Ending, Exited
<1>10. ASSUME NEW c \in Call, Control(c) PROVE Ending'
  BY <1>10, <1>0, <1>1, <1>2, <1>3, <1>4, <1>5, <1>6 DEF Control, Ending, Opening, Exited, Sessions, Phases, Mains, Pipes, Readers, Shutdowns
<1>11. ASSUME NEW c \in Call, RemovePendingControl(c) PROVE Ending'
  BY <1>11, <1>0, <1>1, <1>2, <1>3, <1>4, <1>5, <1>6 DEF RemovePendingControl, Ending, Opening, Exited, Sessions, Phases, Mains, Pipes, Readers, Shutdowns
<1>12. ASSUME Stop PROVE Ending'
  BY <1>12, <1>0, <1>1, <1>2, <1>3, <1>4, <1>5, <1>6 DEF Stop, Ending, Opening, Exited, Sessions, Phases, Mains, Pipes, Readers, Shutdowns
<1>13. ASSUME Launch PROVE Ending'
  BY <1>13, <1>0, <1>1, <1>2, <1>3, <1>4, <1>5, <1>6 DEF Launch, Ending, Opening, Exited, Sessions, Phases, Mains, Pipes, Readers, Shutdowns, Handshake
<1>14. ASSUME LaunchFails PROVE Ending'
  BY <1>14, <1>0, <1>1, <1>2, <1>3, <1>4, <1>5, <1>6 DEF LaunchFails, Ending, Opening, Exited, Sessions, Phases, Mains, Pipes, Readers, Shutdowns, Handshake
<1>15. ASSUME Accept PROVE Ending'
  BY <1>15, <1>0, <1>1, <1>2, <1>3, <1>4, <1>5, <1>6 DEF Accept, Ending, Opening, Exited, Sessions, Phases, Mains, Pipes, Readers, Shutdowns
<1>16. ASSUME StartupFails PROVE Ending'
  BY <1>16, <1>0, <1>1, <1>2, <1>3, <1>4, <1>5, <1>6 DEF StartupFails, Ending, Opening, Exited, Sessions, Phases, Mains, Pipes, Readers, Shutdowns
<1>17. ASSUME CleanupStartedProcess PROVE Ending'
  BY <1>17, <1>0, <1>1, <1>2, <1>3, <1>4, <1>5, <1>6 DEF CleanupStartedProcess, Ending, Opening, Exited, Sessions, Phases, Mains, Pipes, Readers, Shutdowns
<1>18. ASSUME HelloReceived PROVE Ending'
  BY <1>18, <1>0, <1>1, <1>2, <1>3, <1>4, <1>5, <1>6 DEF HelloReceived, Ending, Opening, Exited, Sessions, Phases, Mains, Pipes, Readers, Shutdowns
<1>19. ASSUME ReadyReceived PROVE Ending'
  BY <1>19, <1>0, <1>1, <1>2, <1>3, <1>4, <1>5, <1>6 DEF ReadyReceived, Ending, Opening, Exited, Sessions, Phases, Mains, Pipes, Readers, Shutdowns
<1>20. ASSUME ReplayPendingControls PROVE Ending'
  <2>1. UNCHANGED <<proc, pipe>> /\ ses.main \in {"replay", "replaying", "runtime"} /\ ses.phase # "ended"
    BY <1>20 DEF ReplayPendingControls, Ending
  <2>2. ses'.main \in {"shutdown", "replay", "replaying", "runtime"} /\ ses'.cancelled = ses.cancelled /\ shut'.exited = shut.exited
        /\ (ses'.phase \in {ses.phase, "stopping"} \/ (ses'.phase = "ready" /\ ses.phase = "replaying"))
    BY <1>20, <1>0, <1>4 DEF ReplayPendingControls, Sessions, Shutdowns, BeginShutdown
  <2> QED BY <2>1, <2>2 DEF Ending, Exited
<1>21. ASSUME ReplayAnswered PROVE Ending'
  <2>1. UNCHANGED <<proc, pipe>> /\ ses.main \in {"replay", "replaying", "runtime"} /\ ses.phase # "ended"
    BY <1>21 DEF ReplayAnswered, Ending
  <2>2. ses'.main \in {"shutdown", "replay", "replaying", "runtime"} /\ ses'.cancelled = ses.cancelled /\ shut'.exited = shut.exited
        /\ (ses'.phase \in {ses.phase, "stopping"} \/ (ses'.phase = "ready" /\ ses.phase = "replaying"))
    BY <1>21, <1>0, <1>4 DEF ReplayAnswered, Sessions, Shutdowns, BeginShutdown
  <2> QED BY <2>1, <2>2 DEF Ending, Exited
<1>22. ASSUME ReplayExit PROVE Ending'
  BY <1>22, <1>0, <1>1, <1>2, <1>3, <1>4, <1>5, <1>6 DEF ReplayExit, Ending, Opening, Exited, Sessions, Phases, Mains, Pipes, Readers, Shutdowns
<1>23. ASSUME ReplayInterrupted PROVE Ending'
  BY <1>23, <1>0, <1>1, <1>2, <1>3, <1>4, <1>5, <1>6 DEF ReplayInterrupted, Ending, Opening, Exited, Sessions, Phases, Mains, Pipes, Readers, Shutdowns, TakeReader
<1>24. ASSUME CompleteReplayControl PROVE Ending'
  BY <1>24, <1>0, <1>1, <1>2, <1>3, <1>4, <1>5, <1>6 DEF CompleteReplayControl, Ending, Opening, Exited, Sessions, Phases, Mains, Pipes, Readers, Shutdowns, Ended
<1>25. ASSUME RuntimeEnds PROVE Ending'
  <2>1. UNCHANGED <<proc, pipe>> /\ ses.main \in {"replay", "replaying", "runtime"} /\ ses.phase # "ended"
    BY <1>25 DEF RuntimeEnds, Ending
  <2>2. ses'.main \in {"shutdown", "replay", "replaying", "runtime"} /\ ses'.cancelled = ses.cancelled /\ shut'.exited = shut.exited
        /\ (ses'.phase \in {ses.phase, "stopping"} \/ (ses'.phase = "ready" /\ ses.phase = "replaying"))
    BY <1>25, <1>0, <1>4 DEF RuntimeEnds, Sessions, Shutdowns, BeginShutdown
  <2> QED BY <2>1, <2>2 DEF Ending, Exited
<1>26. ASSUME RuntimeExit PROVE Ending'
  BY <1>26, <1>0, <1>1, <1>2, <1>3, <1>4, <1>5, <1>6 DEF RuntimeExit, Ending, Opening, Exited, Sessions, Phases, Mains, Pipes, Readers, Shutdowns
<1>27. ASSUME DrainReader PROVE Ending'
  BY <1>27, <1>0, <1>1, <1>2, <1>3, <1>4, <1>5, <1>6 DEF DrainReader, Ending, Opening, Exited, Sessions, Phases, Mains, Pipes, Readers, Shutdowns, TakeReader
<1>28. ASSUME StopWriter PROVE Ending'
  BY <1>28, <1>0, <1>1, <1>2, <1>3, <1>4, <1>5, <1>6 DEF StopWriter, Ending, Opening, Exited, Sessions, Phases, Mains, Pipes, Readers, Shutdowns
<1>29. ASSUME ShutdownSent PROVE Ending'
  BY <1>29, <1>0, <1>1, <1>2, <1>3, <1>4, <1>5, <1>6 DEF ShutdownSent, Ending, Opening, Exited, Sessions, Phases, Mains, Pipes, Readers, Shutdowns
<1>30. ASSUME ShutdownWaits PROVE Ending'
  <2>1. ses.main = "shutdown" /\ UNCHANGED <<proc, pipe>> /\ (shut'.exited => shut.exited \/ Exited)
    BY <1>30, <1>0 DEF ShutdownWaits, Shutdowns
  <2>2. ses'.main = ses.main /\ ses'.phase = ses.phase /\ ses'.cancelled = ses.cancelled
    BY <1>30, <1>0 DEF ShutdownWaits, Sessions
  <2> QED BY <2>1, <2>2 DEF Ending, Exited
<1>31. ASSUME ShutdownDone PROVE Ending'
  BY <1>31, <1>0, <1>1, <1>2, <1>3, <1>4, <1>5, <1>6 DEF ShutdownDone, Ending, Opening, Exited, Sessions, Phases, Mains, Pipes, Readers, Shutdowns, Acknowledged, AckRead, AckEndsAll
<1>32. ASSUME GracefulTimeout PROVE Ending'
  <2>1. ses.main = "shutdown" /\ UNCHANGED proc /\ shut'.exited = FALSE /\ pipe'.host = "closed"
    BY <1>32, <1>0, <1>5 DEF GracefulTimeout, Shutdowns
  <2>2. \/ shut.exited /\ \E causes : "retry" \in causes /\ Finish(causes)
        \/ ses'.main = "kill" /\ ses'.phase = ses.phase /\ ses'.cancelled = ses.cancelled /\ "retry" \in ses'.causes
    <3>1. PICK late \in {{}, ReaderResult}, killErr \in {{}} \cup (IF Exited THEN {{"retry"}} ELSE {}) :
             IF shut.exited THEN Finish(ses.causes \cup {"retry"} \cup late)
             ELSE ses' = [ses EXCEPT !.main = "kill", !.causes = (ses.causes \cup {"retry"} \cup late) \cup killErr]
      BY <1>32 DEF GracefulTimeout
    <3>2. CASE shut.exited
      BY <3>1, <3>2
    <3>3. CASE ~shut.exited
      <4> DEFINE cs == (ses.causes \cup {"retry"} \cup late) \cup killErr
      <4>1. ses' = [ses EXCEPT !.main = "kill", !.causes = cs] /\ "retry" \in cs
        BY <3>1, <3>3
      <4> HIDE DEF cs
      <4>2. ses'.main = "kill" /\ ses'.phase = ses.phase /\ ses'.cancelled = ses.cancelled /\ ses'.causes = cs
        BY <4>1, <1>0 DEF Sessions
      <4> QED BY <4>1, <4>2
    <3> QED BY <3>2, <3>3
  <2>3. CASE shut.exited /\ \E causes : "retry" \in causes /\ Finish(causes)
    <3>1. "retry" \in ses'.causes /\ Exited /\ ses.phase # "ended"
          /\ \/ ses'.main = "ended" /\ ses'.phase = "ended"
             \/ ses'.main = "complete" /\ ses'.phase = ses.phase /\ ses'.cancelled = ses.cancelled
      BY <2>1, <2>3, <1>3 DEF Ending
    <3> QED BY <3>1, <2>1 DEF Ending, Exited
  <2>4. CASE ses'.main = "kill" /\ ses'.phase = ses.phase /\ ses'.cancelled = ses.cancelled /\ "retry" \in ses'.causes
    BY <2>1, <2>4 DEF Ending
  <2> QED BY <2>2, <2>3, <2>4
<1>33. ASSUME KillTimeout PROVE Ending'
  BY <1>33, <1>0, <1>1, <1>2, <1>3, <1>4, <1>5, <1>6 DEF KillTimeout, Ending, Opening, Exited, Sessions, Phases, Mains, Pipes, Readers, Shutdowns
<1>34. ASSUME NEW c \in Call, WriterControl(c) PROVE Ending'
  <2>1. UNCHANGED <<ses, reader, proc, pipe>> /\ shut'.exited = shut.exited /\ (writer.at = "off" => writer'.at = "off")
    BY <1>34, <1>0 DEF WriterControl, Shutdowns, Writers
  <2> QED BY <2>1, <1>K
<1>35. ASSUME WriterShutdown PROVE Ending'
  <2>1. UNCHANGED <<ses, reader, proc, pipe>> /\ shut'.exited = shut.exited /\ (writer.at = "off" => writer'.at = "off")
    BY <1>35, <1>0 DEF WriterShutdown, Shutdowns, Writers
  <2> QED BY <2>1, <1>K
<1>36. ASSUME WriterTakes PROVE Ending'
  <2>1. UNCHANGED <<ses, reader, proc, pipe>> /\ shut'.exited = shut.exited /\ (writer.at = "off" => writer'.at = "off")
    BY <1>36, <1>0 DEF WriterTakes, Shutdowns, Writers
  <2> QED BY <2>1, <1>K
<1>37. ASSUME WriterSends PROVE Ending'
  BY <1>37, <1>0, <1>1, <1>2, <1>3, <1>4, <1>5, <1>6 DEF WriterSends, Ending, Opening, Exited, Sessions, Phases, Mains, Pipes, Readers, Shutdowns, Stops
<1>38. ASSUME WriterFails PROVE Ending'
  <2>1. UNCHANGED <<ses, reader, proc, pipe>> /\ shut'.exited = shut.exited /\ (writer.at = "off" => writer'.at = "off")
    BY <1>38, <1>0 DEF WriterFails, Stops, Shutdowns, Writers
  <2> QED BY <2>1, <1>K
<1>39. ASSUME ReaderReceives PROVE Ending'
  <2>1. UNCHANGED <<ses, proc>> /\ pipe'.host = "open" /\ pipe.host = "open" /\ reader.at = "receiving" /\ UNCHANGED writer
    BY <1>39, <1>0 DEF ReaderReceives, Pipes
  <2>2. shut'.exited = shut.exited
    BY <1>39, <1>0 DEF ReaderReceives, Shutdowns, Signalled
  <2>3. writer.at # "off"
    BY <2>1, <1>6 DEF Opening
  <2>4. ses.main \notin {"complete", "ended"}
    BY <2>1, <2>3 DEF Ending
  <2> QED BY <2>1, <2>2, <2>4 DEF Ending, Exited
<1>40. ASSUME Submit PROVE Ending'
  BY <1>40, <1>0, <1>1, <1>2, <1>3, <1>4, <1>5, <1>6 DEF Submit, Ending, Opening, Exited, Sessions, Phases, Mains, Pipes, Readers, Shutdowns
<1>41. ASSUME QueueAck PROVE Ending'
  BY <1>41, <1>0, <1>1, <1>2, <1>3, <1>4, <1>5, <1>6 DEF QueueAck, Ending, Opening, Exited, Sessions, Phases, Mains, Pipes, Readers, Shutdowns
<1>42. ASSUME CheckAck PROVE Ending'
  BY <1>42, <1>0, <1>1, <1>2, <1>3, <1>4, <1>5, <1>6 DEF CheckAck, Ending, Opening, Exited, Sessions, Phases, Mains, Pipes, Readers, Shutdowns, Signalled
<1>43. ASSUME ReaderFails PROVE Ending'
  <2>1. UNCHANGED <<ses, writer, shut, proc, pipe>> /\ reader.at = "receiving" /\ reader'.at = "done"
    BY <1>43, <1>0 DEF ReaderFails, ReaderEnds, Readers
  <2> QED BY <2>1 DEF Ending, Exited
<1> QED BY <1>10, <1>11, <1>12, <1>13, <1>14, <1>15, <1>16, <1>17, <1>18, <1>19, <1>20, <1>21, <1>22, <1>23, <1>24, <1>25, <1>26, <1>27, <1>28, <1>29, <1>30, <1>31, <1>32, <1>33, <1>34, <1>35, <1>36, <1>37, <1>38, <1>39, <1>40, <1>41, <1>42, <1>43 DEF SessionNext, SessionMain, SessionWriter, SessionReader, Callers

\* The plugin does not open or close the end of the host.
LEMMA RuntimeQuiet ==
    ASSUME Types, WorkersRun, RuntimeNext PROVE pipe'.host = pipe.host /\ (proc'.at = proc.at \/ proc'.at = "exited")
<1>0. pipe \in Pipes /\ proc \in [at : {"none", "alive", "exited"}, bad : BOOLEAN]
  BY DEF Types, PipeTypes
<1>1. CASE Connect
  BY <1>0, <1>1 DEF Connect, Pipes
<1>2. CASE SendHello
  BY <1>0, <1>2 DEF SendHello, SentUp, Pipes
<1>3. CASE ReceiveInitialize
  BY <1>0, <1>3 DEF ReceiveInitialize, Pipes
<1>4. CASE SendReady
  BY <1>0, <1>4 DEF SendReady, SentUp, Pipes
<1>5. CASE HandshakeFails
  BY <1>0, <1>5 DEF HandshakeFails, Exit, HungUp, Pipes
<1> QED BY <1>1, <1>2, <1>3, <1>4, <1>5, RuntimeLeavesOther DEF RuntimeLeaves

LEMMA EndingStep ==
    ASSUME Types, Handshake, WorkersRun, Opening, Ending, Acknowledged, Next PROVE Ending'
<1>1. ASSUME UNCHANGED hostVars, pipe'.host = pipe.host, proc'.at = proc.at \/ proc'.at = "exited" PROVE Ending'
  BY <1>1 DEF hostVars, Ending, Exited
<1>2. ASSUME NEW torn \in BOOLEAN, ProcessDies(torn) PROVE Ending'
  <2>1. pipe'.host = pipe.host
    BY <1>2, PluginEnds DEF ProcessDies, Types, PipeTypes
  <2>2. proc'.at = "exited"
    BY <1>2 DEF ProcessDies, Types, PipeTypes
  <2> QED BY <2>1, <2>2, <1>1, <1>2 DEF ProcessDies
<1>3. ASSUME RuntimeNext, UNCHANGED hostVars PROVE Ending'
  BY <1>1, <1>3, RuntimeQuiet
<1> QED BY <1>2, <1>3, EndingHost DEF Next, Host

-----------------------------------------------------------------------------
(* The acknowledgement. *)

LEMMA CarriesNone == \A type : ~Carries(<<>>, type)
BY DEF Carries

LEMMA CarriesAppend ==
    ASSUME NEW S, NEW es \in Seq(S), NEW m \in S, NEW type, Carries(Append(es, m), type) PROVE Carries(es, type) \/ m.type = type
<1>1. \A i \in DOMAIN Append(es, m) : (i \in DOMAIN es /\ Append(es, m)[i] = es[i]) \/ Append(es, m)[i] = m
  OBVIOUS
<1> QED BY <1>1 DEF Carries

LEMMA CarriesTail ==
    ASSUME NEW S, NEW es \in Seq(S), es # <<>>, NEW type, Carries(Tail(es), type) PROVE Carries(es, type)
<1>1. \A i \in DOMAIN Tail(es) : i + 1 \in DOMAIN es /\ Tail(es)[i] = es[i + 1]
  OBVIOUS
<1> QED BY <1>1 DEF Carries

\* Working ==: the plugin has not returned.
Working == run.at \notin {"return", "exited"}

\* What a step of the plugin sends.
LEMMA SentIs ==
    ASSUME Types, WorkersRun, RuntimeNext
    PROVE  /\ \/ pipe'.up = pipe.up
              \/ Working /\ \E m \in Up : m.type # "ack" /\ pipe'.up = Append(pipe.up, m)
              \/ run.at = "acknowledge" /\ run'.at = "return" /\ \E m \in Up : m.type = "ack" /\ pipe'.up = Append(pipe.up, m)
           /\ ~Working => run'.at \in {"return", "exited"}
           /\ pipe'.down = pipe.down \/ pipe'.down = <<>> \/ (pipe.down # <<>> /\ pipe'.down = Tail(pipe.down))
<1>0. pipe \in Pipes /\ run \in Runs /\ worker \in [Worker -> Workers] /\ proc \in [at : {"none", "alive", "exited"}, bad : BOOLEAN]
  BY DEF Types, RuntimeTypes, PipeTypes
<1>U. (\A t \in {"ready", "torn", "frame", "status", "heartbeat", "error", "ack"} : [type |-> t, value |-> 0] \in Up)
      /\ \A v \in HelloValue : [type |-> "hello", value |-> v] \in Up
  BY DEF Up
<1>S. \A t, v : SentUp(t, v).down = pipe.down /\ SentUp(t, v).up = Append(pipe.up, [type |-> t, value |-> v])
  BY <1>0 DEF SentUp, Pipes
<1>O. \A at, bad : Over(at, bad) => run'.at = at
  BY DEF Over
<1>R. \A w \in Worker : worker[w].at # "off" => run.at \in {"run", "collect", "finish", "acknowledge"}
  BY DEF WorkersRun
<1>E. HungUp.up = pipe.up /\ HungUp.down = <<>> /\ TornUp.down = <<>>
      /\ (TornUp.up = pipe.up \/ TornUp.up = Append(pipe.up, [type |-> "torn", value |-> 0]))
  BY <1>0, PluginEnds
<1>10. CASE Connect
  BY <1>10, <1>0, <1>R, <1>U, <1>E, <1>S DEF Connect, Working, Worker, Running, WriterIs, Outbound, Pipes, Runs
<1>11. CASE SendHello
  <2>1. PICK v \in HelloValue : pipe' = SentUp("hello", v)
    BY <1>11 DEF SendHello
  <2>2. run.at = "hello" /\ [type |-> "hello", value |-> v].type # "ack"
    BY <1>11 DEF SendHello
  <2> QED BY <2>1, <2>2, <1>S, <1>U DEF Working
<1>12. CASE ReceiveInitialize
  BY <1>12, <1>0, <1>R, <1>U, <1>E, <1>S DEF ReceiveInitialize, Working, Worker, Running, WriterIs, Outbound, Pipes, Runs
<1>13. CASE SendReady
  BY <1>13, <1>0, <1>R, <1>U, <1>E, <1>S DEF SendReady, Working, Worker, Running, WriterIs, Outbound, Runs
<1>14. CASE HandshakeFails
  BY <1>14, <1>0, <1>R, <1>U, <1>E, <1>S, <1>O DEF HandshakeFails, Working, Worker, Running, WriterIs, Outbound, Exit, Gone, Runs
<1>15. CASE PublishFrame
  BY <1>15, <1>0, <1>R DEF PublishFrame, Working, Worker, Running, WriterIs, Outbound
<1>16. CASE PublishStatus
  BY <1>16, <1>0, <1>R DEF PublishStatus, Working, Worker, Running, WriterIs, Outbound
<1>17. CASE TakeEvent
  BY <1>17, <1>0, <1>R DEF TakeEvent, Working, Worker, Running, WriterIs, Outbound
<1>18. CASE DriverReturns
  BY <1>18, <1>0, <1>R DEF DriverReturns, Working, Worker, Running, WriterIs, Outbound
<1>19. CASE ReadControl
  BY <1>19, <1>0, <1>R, <1>U, <1>E, <1>S DEF ReadControl, Working, Worker, Running, WriterIs, Outbound, Pipes
<1>20. CASE ReadFails
  BY <1>20, <1>0, <1>R DEF ReadFails, Working, Worker, Running, WriterIs, Outbound
<1>21. CASE LoadFrame
  BY <1>21, <1>0, <1>R DEF LoadFrame, Working, Worker, Running, WriterIs, Outbound
<1>22. CASE LoadStatus
  BY <1>22, <1>0, <1>R DEF LoadStatus, Working, Worker, Running, WriterIs, Outbound
<1>23. CASE Heartbeat
  BY <1>23, <1>0, <1>R DEF Heartbeat, Working, Worker, Running, WriterIs, Outbound
<1>24. CASE WriteOutbound
  BY <1>24, <1>0, <1>R, <1>U, <1>E, <1>S DEF WriteOutbound, Working, Worker, Running, WriterIs, Outbound
<1>25. CASE WriteFails
  BY <1>25, <1>0, <1>R, <1>U, <1>E, <1>S DEF WriteFails, Working, Worker, Running, WriterIs, Outbound
<1>26. CASE FirstDone
  BY <1>26, <1>0, <1>R DEF FirstDone, Working, Worker, Running, WriterIs, Outbound, Runs
<1>27. CASE Collect
  BY <1>27, <1>0, <1>R, <1>O DEF Collect, Working, Worker, Running, WriterIs, Outbound, Recorded, Runs
<1>28. CASE CollectTimeout
  BY <1>28, <1>0, <1>R, <1>U, <1>E, <1>S, <1>O DEF CollectTimeout, Working, Worker, Running, WriterIs, Outbound, Recorded, Runs
<1>29. CASE FinishTerminal
  BY <1>29, <1>0, <1>R, <1>U, <1>E, <1>S, <1>O DEF FinishTerminal, Working, Worker, Running, WriterIs, Outbound, Recorded, Runs
<1>30. CASE SendShutdownAck
  <2>1. run.at = "acknowledge" /\ run'.at = "return" /\ (pipe' = SentUp("ack", 0) \/ pipe' = pipe)
    BY <1>30, <1>O DEF SendShutdownAck
  <2>2. [type |-> "ack", value |-> 0] \in Up /\ [type |-> "ack", value |-> 0].type = "ack"
    BY <1>U
  <2> QED BY <2>1, <2>2, <1>S DEF Working
<1>31. CASE Return
  BY <1>31, <1>0, <1>R, <1>U, <1>E, <1>S, <1>O DEF Return, Working, Worker, Running, WriterIs, Outbound, Exit, Gone, Runs
<1> QED BY <1>10, <1>11, <1>12, <1>13, <1>14, <1>15, <1>16, <1>17, <1>18, <1>19, <1>20, <1>21, <1>22, <1>23, <1>24, <1>25, <1>26, <1>27, <1>28, <1>29, <1>30, <1>31 DEF RuntimeNext

\* The plugin does not learn of a shutdown but from the pipe.
LEMMA KnownRuntime ==
    ASSUME Types, WorkersRun, RuntimeNext, ShutdownKnown' PROVE ShutdownKnown
<1>0. pipe \in Pipes /\ pipe.up \in Seq(Up) /\ pipe.down \in Seq(Down) /\ run \in Runs /\ host \in Hosts /\ worker \in [Worker -> Workers]
  BY DEF Types, RuntimeTypes, PipeTypes, Pipes
<1>1. Carries(pipe'.down, "shutdown") => ShutdownKnown
  BY <1>0, SentIs, CarriesTail, CarriesNone DEF ShutdownKnown
<1>2. Carries(pipe'.up, "ack") => ShutdownKnown
  <2>1. ASSUME NEW m \in Up, m.type # "ack", pipe'.up = Append(pipe.up, m), Carries(pipe'.up, "ack") PROVE ShutdownKnown
    BY <2>1, <1>0, CarriesAppend DEF ShutdownKnown
  <2> QED BY <2>1, SentIs DEF ShutdownKnown
<1> DEFINE G == host'.accepted \/ worker'["reader"].result = "shutdown" \/ worker'["driver"].result \in {"accepted", "error_accepted"} \/ run'.at = "acknowledge"
<1>O. \A at, bad : Over(at, bad) => run'.at = at /\ host'.accepted = FALSE /\ \A w \in Worker : worker'[w].result = "none"
  BY DEF Over
<1>V. \A at, bad : at \in {"return", "exited"} /\ Over(at, bad) => ~G
  BY DEF Over, Worker
<1>3. G => ShutdownKnown
  <2>10. CASE Connect
    BY <2>10, <1>0 DEF Connect, ShutdownKnown, Worker, Runs
  <2>11. CASE SendHello
    BY <2>11, <1>0 DEF SendHello, ShutdownKnown, Worker, Runs
  <2>12. CASE ReceiveInitialize
    BY <2>12, <1>0 DEF ReceiveInitialize, ShutdownKnown, Worker, Hosts, Runs
  <2>13. CASE SendReady
    BY <2>13, <1>0 DEF SendReady, ShutdownKnown, Worker, Ends, Workers, Runs
  <2>14. CASE HandshakeFails
    BY <2>14, <1>V DEF HandshakeFails, Exit, Gone
  <2>15. CASE PublishFrame
    BY <2>15, <1>0 DEF PublishFrame, ShutdownKnown, Worker
  <2>16. CASE PublishStatus
    BY <2>16, <1>0 DEF PublishStatus, ShutdownKnown, Worker
  <2>17. CASE TakeEvent
    BY <2>17, <1>0 DEF TakeEvent, ShutdownKnown, Worker, Hosts
  <2>18. CASE DriverReturns
    BY <2>18, <1>0 DEF DriverReturns, ShutdownKnown, Worker, Ends, Workers
  <2>19. CASE ReadControl
    <3>1. CASE Head(pipe.down).type = "shutdown"
      <4>1. 1 \in DOMAIN pipe.down /\ Head(pipe.down) = pipe.down[1]
        BY <2>19, <1>0 DEF ReadControl
      <4> QED BY <3>1, <4>1 DEF ShutdownKnown, Carries
    <3>2. CASE Head(pipe.down).type # "shutdown"
      <4>1. run' = run /\ (worker' = worker \/ Ends("reader", "regression") \/ Ends("reader", "error"))
        BY <2>19, <3>2 DEF ReadControl
      <4>2. host'.accepted = host.accepted
        BY <2>19, <3>2, <1>0 DEF ReadControl, Hosts
      <4>3. worker'["driver"] = worker["driver"] /\ worker'["reader"].result \in {worker["reader"].result, "regression", "error"}
        BY <4>1, <1>0 DEF Ends, Worker
      <4> QED BY <4>1, <4>2, <4>3 DEF ShutdownKnown
    <3> QED BY <3>1, <3>2
  <2>20. CASE ReadFails
    BY <2>20, <1>0 DEF ReadFails, ShutdownKnown, Worker, Ends, Workers
  <2>21. CASE LoadFrame
    BY <2>21, <1>0 DEF LoadFrame, ShutdownKnown, Worker, Ends, Workers
  <2>22. CASE LoadStatus
    BY <2>22, <1>0 DEF LoadStatus, ShutdownKnown, Worker, Ends, Workers
  <2>23. CASE Heartbeat
    BY <2>23, <1>0 DEF Heartbeat, ShutdownKnown, Worker, Ends, Workers
  <2>24. CASE WriteOutbound
    BY <2>24, <1>0 DEF WriteOutbound, ShutdownKnown, Worker, Ends, Workers
  <2>25. CASE WriteFails
    BY <2>25, <1>0 DEF WriteFails, ShutdownKnown, Worker, Ends, Workers
  <2>26. CASE FirstDone
    BY <2>26, <1>0 DEF FirstDone, ShutdownKnown, Worker, Runs
  <2>27. CASE Collect
    <3>1. (\E bad : Over("return", bad)) \/ (UNCHANGED <<host, worker>> /\ run'.at = "finish")
      BY <2>27, <1>0 DEF Collect, Recorded, Runs
    <3> QED BY <3>1, <1>V DEF ShutdownKnown
  <2>28. CASE CollectTimeout
    <3>1. (\E bad : Over("return", bad)) \/ (UNCHANGED <<host, worker>> /\ run'.at = "finish")
      BY <2>28, <1>0 DEF CollectTimeout, Recorded, Runs
    <3> QED BY <3>1, <1>V DEF ShutdownKnown
  <2>29. CASE FinishTerminal
    BY <2>29, <1>0, <1>O DEF FinishTerminal, ShutdownKnown, Worker, Ends, Workers, Hosts, Recorded, Runs, ShutdownSeen
  <2>30. CASE SendShutdownAck
    BY <2>30, <1>0, <1>O DEF SendShutdownAck, ShutdownKnown, Worker, Ends, Workers, Hosts, Recorded, Runs, ShutdownSeen
  <2>31. CASE Return
    BY <2>31, <1>V DEF Return, Exit, Gone
  <2> QED BY <2>10, <2>11, <2>12, <2>13, <2>14, <2>15, <2>16, <2>17, <2>18, <2>19, <2>20, <2>21, <2>22, <2>23, <2>24, <2>25, <2>26, <2>27, <2>28, <2>29, <2>30, <2>31 DEF RuntimeNext
<1> QED BY <1>1, <1>2, <1>3 DEF ShutdownKnown

\* What the host does to the pipe, and to what the plugin must know.
LEMMA HostPipe ==
    ASSUME Types, SessionNext
    PROVE  /\ WriterSends \/ HelloReceived \/ pipe'.down = pipe.down
           /\ pipe'.up \in {pipe.up, <<>>} \/ (pipe.up # <<>> /\ pipe'.up = Tail(pipe.up) /\ (ReaderReceives \/ HelloReceived \/ ReadyReceived))
           /\ pipe'.host \in {pipe.host, "closed"} \/ Accept
<1>0. pipe \in Pipes
  BY DEF Types, PipeTypes
<1>C. Close(pipe).host = "closed" /\ Close(pipe).up = <<>> /\ Close(pipe).down = pipe.down
  BY <1>0 DEF Close, Pipes
<1>10. CASE Accept
  BY <1>10, <1>0, <1>C DEF Accept, Pipes
<1>11. CASE CleanupStartedProcess
  BY <1>11, <1>0, <1>C DEF CleanupStartedProcess, Pipes
<1>12. CASE HelloReceived
  BY <1>12, <1>0, <1>C DEF HelloReceived, Pipes
<1>13. CASE ReadyReceived
  BY <1>13, <1>0, <1>C DEF ReadyReceived, Pipes
<1>14. CASE ReplayExit
  BY <1>14, <1>0, <1>C DEF ReplayExit, Pipes
<1>15. CASE DrainReader
  BY <1>15, <1>0, <1>C DEF DrainReader, Pipes
<1>16. CASE ShutdownDone
  BY <1>16, <1>0, <1>C DEF ShutdownDone, Pipes
<1>17. CASE GracefulTimeout
  BY <1>17, <1>0, <1>C DEF GracefulTimeout, Pipes
<1>18. CASE WriterSends
  BY <1>18, <1>0, <1>C DEF WriterSends, Pipes
<1>19. CASE ReaderReceives
  BY <1>19, <1>0, <1>C DEF ReaderReceives, Pipes
<1>3. ASSUME UNCHANGED pipe PROVE pipe'.up = pipe.up /\ pipe'.down = pipe.down /\ pipe'.host = pipe.host
  BY <1>3
<1> QED BY <1>3, <1>10, <1>11, <1>12, <1>13, <1>14, <1>15, <1>16, <1>17, <1>18, <1>19 DEF SessionNext, SessionMain, SessionWriter, SessionReader, Callers, Control, RemovePendingControl, Stop, Launch, LaunchFails, StartupFails, ReplayPendingControls, ReplayAnswered, ReplayInterrupted, CompleteReplayControl, RuntimeEnds, RuntimeExit, StopWriter, ShutdownSent, ShutdownWaits, KillTimeout, WriterControl, WriterShutdown, WriterTakes, WriterFails, Submit, QueueAck, CheckAck, ReaderFails

LEMMA NotedKept ==
    ASSUME Types, Opening, SessionNext, ~Accept, Noted PROVE Noted'
<1>0. shut \in Shutdowns /\ pipe \in Pipes
  BY DEF Types, HostTypes, PipeTypes
<1>1. pipe.host = "closed" => Noted'
  BY HostPipe DEF Noted
<1>2. shut'.state = shut.state => Noted'
  BY <1>1 DEF Noted
<1>3. CASE ShutdownSent
  BY <1>3, <1>0, <1>1 DEF ShutdownSent, Noted, Shutdowns
<1>4. CASE GracefulTimeout
  <2>1. pipe'.host = "closed"
    BY <1>4, <1>0 DEF GracefulTimeout, Close, Pipes
  <2> QED BY <2>1 DEF Noted
<1>5. CASE WriterTakes
  <2>1. shut' = shut \/ shut' = [shut EXCEPT !.state = "sending"] \/ shut' = [shut EXCEPT !.state = shut.state]
    BY <1>5 DEF WriterTakes
  <2>2. shut'.state \in {shut.state, "sending"}
    BY <2>1, <1>0 DEF Shutdowns
  <2> QED BY <2>2, <1>2 DEF Noted
<1>10. CASE ReplayPendingControls
  BY <1>10, <1>0, <1>2 DEF ReplayPendingControls, Shutdowns, BeginShutdown
<1>11. CASE ReplayAnswered
  BY <1>11, <1>0, <1>2 DEF ReplayAnswered, Shutdowns, ReplayStops
<1>12. CASE ReplayInterrupted
  BY <1>12, <1>0, <1>2 DEF ReplayInterrupted, Shutdowns, TakeReader, ReplayStops
<1>13. CASE RuntimeEnds
  BY <1>13, <1>0, <1>2 DEF RuntimeEnds, Shutdowns, BeginShutdown, TakeReader
<1>14. CASE DrainReader
  BY <1>14, <1>0, <1>2 DEF DrainReader, Shutdowns, TakeReader
<1>15. CASE ShutdownWaits
  BY <1>15, <1>0, <1>2 DEF ShutdownWaits, Shutdowns, TakeReader
<1>16. CASE WriterShutdown
  BY <1>16, <1>0, <1>2 DEF WriterShutdown, Shutdowns
<1>17. CASE WriterSends
  BY <1>17, <1>0, <1>2 DEF WriterSends, Shutdowns, Stops
<1>18. CASE WriterFails
  BY <1>18, <1>0, <1>2 DEF WriterFails, Shutdowns, Stops
<1>19. CASE ReaderReceives
  <2>1. ReaderDoes(Head(pipe.up).type)
    BY <1>19, <1>0, ReaderDid
  <2>2. shut' = shut \/ shut' = [shut EXCEPT !.signal = TRUE]
    BY <2>1 DEF ReaderDoes
  <2> QED BY <2>2, <1>0, <1>2 DEF Shutdowns
<1>20. CASE QueueAck
  BY <1>20, <1>0, <1>2 DEF QueueAck, Shutdowns
<1>21. CASE CheckAck
  BY <1>21, <1>0, <1>2 DEF CheckAck, Shutdowns, Signalled
<1>6. UNCHANGED shut => Noted'
  BY <1>2
<1> QED BY <1>3, <1>4, <1>5, <1>6, <1>10, <1>11, <1>12, <1>13, <1>14, <1>15, <1>16, <1>17, <1>18, <1>19, <1>20, <1>21 DEF SessionNext, SessionMain, SessionWriter, SessionReader, Callers, Control, RemovePendingControl, Stop, Launch, LaunchFails, StartupFails, CleanupStartedProcess, HelloReceived, ReadyReceived, ReplayExit, CompleteReplayControl, RuntimeExit, StopWriter, ShutdownDone, KillTimeout, WriterControl, Submit, ReaderFails

LEMMA KnownHost ==
    ASSUME Types, WriterKeeps, Host(SessionNext), ShutdownKnown' PROVE ShutdownKnown \/ (WriterSends /\ SendingShutdown)
<1>0. pipe \in Pipes /\ pipe.up \in Seq(Up) /\ pipe.down \in Seq(Down) /\ writer \in Writers
  BY DEF Types, HostTypes, PipeTypes, Pipes
<1>1. UNCHANGED runtimeVars \/ Over("exited", FALSE)
  BY DEF Host, Gone
<1>2. Carries(pipe'.up, "ack") => ShutdownKnown
  BY <1>0, HostPipe, CarriesTail, CarriesNone DEF Host, ShutdownKnown
<1>3. Carries(pipe'.down, "shutdown") => ShutdownKnown \/ (WriterSends /\ SendingShutdown)
  <2>1. CASE WriterSends
    <3>1. pipe'.down = Append(pipe.down, Message(writer.current)) /\ writer.at = "sending" /\ writer.current \in Owners
      BY <2>1, <1>0 DEF WriterSends, Pipes, WriterKeeps, Writers
    <3>2. Message(writer.current) \in Down /\ (Message(writer.current).type = "shutdown" => writer.current = Main)
      BY <3>1, MessageIs DEF Owners, Kind
    <3> QED BY <2>1, <3>1, <3>2, <1>0, CarriesAppend DEF ShutdownKnown, SendingShutdown
  <2>2. CASE HelloReceived
    <3>1. pipe'.down = Append(pipe.down, [type |-> "initialize", value |-> Startup]) /\ [type |-> "initialize", value |-> Startup] \in Down
      BY <2>2, <1>0, StartupAssumption DEF HelloReceived, Pipes, Down
    <3> QED BY <3>1, <1>0, CarriesAppend DEF ShutdownKnown
  <2>3. CASE pipe'.down = pipe.down
    BY <2>3 DEF ShutdownKnown
  <2> QED BY <2>1, <2>2, <2>3, HostPipe DEF Host
<1>4. Over("exited", FALSE) => ~host'.accepted /\ worker'["reader"].result = "none" /\ worker'["driver"].result = "none" /\ run'.at = "exited"
  BY DEF Over, Worker
<1> QED BY <1>1, <1>2, <1>3, <1>4 DEF ShutdownKnown, runtimeVars

LEMMA SendingBegins ==
    ASSUME HostTypes, SessionNext, SendingShutdown' PROVE SendingShutdown \/ (WriterTakes /\ Head(writer.queue) = Main)
<1>0. writer \in Writers /\ writer.queue \in Seq(Owners)
  BY DEF HostTypes, Writers
<1>1. ASSUME writer'.at = writer.at, writer'.current = writer.current PROVE SendingShutdown
  BY <1>1 DEF SendingShutdown
<1>2. writer'.at # "sending" => FALSE
  BY DEF SendingShutdown
<1>3. CASE WriterTakes
  <2>1. Head(writer.queue) \in Owners
    BY <1>3, <1>0 DEF WriterTakes
  <2>2. CASE Head(writer.queue) # Main /\ Rises(writer.state, Request[Head(writer.queue)])
    <3>1. writer'.current = Head(writer.queue)
      BY <1>3, <1>0, <2>2 DEF WriterTakes, Writers
    <3> QED BY <3>1, <2>2 DEF SendingShutdown
  <2>3. CASE Head(writer.queue) # Main /\ ~Rises(writer.state, Request[Head(writer.queue)])
    <3>1. writer'.at = writer.at /\ writer.at = "idle"
      BY <1>3, <1>0, <2>3 DEF WriterTakes, Writers
    <3> QED BY <3>1, <1>2
  <2> QED BY <2>2, <2>3, <1>3
<1>10. CASE ReadyReceived
  BY <1>10, <1>0, <1>1, <1>2 DEF ReadyReceived, Writers
<1>11. CASE ReplayInterrupted
  BY <1>11, <1>0, <1>1, <1>2 DEF ReplayInterrupted, Writers
<1>12. CASE RuntimeEnds
  BY <1>12, <1>0, <1>1, <1>2 DEF RuntimeEnds, Writers
<1>13. CASE ShutdownWaits
  BY <1>13, <1>0, <1>1, <1>2 DEF ShutdownWaits, Writers
<1>14. ASSUME NEW c \in Call, WriterControl(c) PROVE SendingShutdown
  BY <1>14, <1>0, <1>1, <1>2 DEF WriterControl, Writers
<1>15. CASE WriterShutdown
  BY <1>15, <1>0, <1>1, <1>2 DEF WriterShutdown, Writers
<1>16. CASE WriterSends
  BY <1>16, <1>0, <1>1, <1>2 DEF WriterSends, Writers, Stops
<1>17. CASE WriterFails
  BY <1>17, <1>0, <1>1, <1>2 DEF WriterFails, Writers, Stops
<1>4. UNCHANGED writer => SendingShutdown
  BY <1>1
<1> QED BY <1>3, <1>4, <1>10, <1>11, <1>12, <1>13, <1>14, <1>15, <1>16, <1>17 DEF SessionNext, SessionMain, SessionWriter, SessionReader, Callers, Control, RemovePendingControl, Stop, Launch, LaunchFails, Accept, StartupFails, CleanupStartedProcess, HelloReceived, ReplayPendingControls, ReplayAnswered, ReplayExit, CompleteReplayControl, RuntimeExit, DrainReader, StopWriter, ShutdownSent, ShutdownDone, GracefulTimeout, KillTimeout, ReaderReceives, Submit, QueueAck, CheckAck, ReaderFails

LEMMA NotedHost ==
    ASSUME Types, Handshake, Opening, WriterKeeps, Ending, Acknowledged, Host(SessionNext), ShutdownKnown' \/ SendingShutdown' PROVE Noted'
<1>0. shut \in Shutdowns /\ writer \in Writers /\ HostTypes /\ SessionNext
  BY DEF Types, HostTypes, Host
<1>1. CASE Accept
  <2>1. writer.at = "off" /\ shut = ShutOff /\ pipe.host = "none"
    BY <1>1 DEF Accept, Opening, Handshake
  <2>2. ~Noted
    BY <2>1 DEF Noted, ShutOff
  <2>3. ~ShutdownKnown /\ ~SendingShutdown
    BY <2>2 DEF Acknowledged
  <2>4. writer' = writer
    BY <1>1 DEF Accept
  <2> QED BY <2>3, <2>4, KnownHost DEF SendingShutdown
<1>2. CASE ~Accept /\ (ShutdownKnown \/ SendingShutdown)
  <2>1. Noted
    BY <1>2 DEF Acknowledged
  <2> QED BY <1>2, <2>1, <1>0, NotedKept
<1>3. CASE WriterTakes /\ Head(writer.queue) = Main
  <2>1. shut' = [shut EXCEPT !.state = IF ses.main = "stop_writer" THEN shut.state ELSE "sending"] /\ pipe' = pipe
    BY <1>3 DEF WriterTakes
  <2>2. CASE ses.main = "stop_writer"
    BY <2>1, <2>2 DEF Ending, Noted
  <2>3. CASE ses.main # "stop_writer"
    BY <2>1, <2>3, <1>0 DEF Noted, Shutdowns
  <2> QED BY <2>2, <2>3
<1> QED BY <1>0, <1>1, <1>2, <1>3, KnownHost, SendingBegins

\* Nothing of the plugin is torn once it has returned.
LEMMA DiesQuietly ==
    ASSUME Types, WorkersRun, NEW torn \in BOOLEAN, ProcessDies(torn)
    PROVE  /\ pipe'.up = pipe.up \/ (Working /\ \E m \in Up : m.type # "ack" /\ pipe'.up = Append(pipe.up, m))
           /\ pipe'.down = <<>> /\ run'.at = "exited" /\ ~host'.accepted /\ \A w \in Worker : worker'[w].result = "none"
           /\ pipe'.host = pipe.host
<1>0. pipe \in Pipes
  BY DEF Types, PipeTypes
<1>1. torn => Working
  BY DEF ProcessDies, Outbound, WorkersRun, Worker, Working
<1>2. run'.at = "exited" /\ ~host'.accepted /\ \A w \in Worker : worker'[w].result = "none"
  BY DEF ProcessDies, Gone, Over
<1>3. [type |-> "torn", value |-> 0].type # "ack"
  OBVIOUS
<1> QED BY <1>0, <1>1, <1>2, <1>3, PluginEnds DEF ProcessDies

LEMMA NotedStep ==
    ASSUME Types, Handshake, WorkersRun, Opening, WriterKeeps, Ending, Acknowledged, Next, ShutdownKnown' \/ SendingShutdown' PROVE Noted'
<1>0. pipe.up \in Seq(Up)
  BY DEF Types, PipeTypes, Pipes
<1>1. CASE RuntimeNext /\ UNCHANGED hostVars
  <2>1. SendingShutdown' => SendingShutdown
    BY <1>1 DEF hostVars, SendingShutdown
  <2>2. Noted
    BY <1>1, <2>1, KnownRuntime DEF Acknowledged
  <2> QED BY <1>1, <2>2, RuntimeQuiet DEF Noted, hostVars
<1>2. ASSUME NEW torn \in BOOLEAN, ProcessDies(torn) PROVE Noted'
  <2>1. UNCHANGED hostVars
    BY <1>2 DEF ProcessDies
  <2>2. SendingShutdown' => SendingShutdown
    BY <2>1 DEF hostVars, SendingShutdown
  <2>3. Carries(pipe'.up, "ack") => Carries(pipe.up, "ack")
    <3>1. ASSUME NEW m \in Up, m.type # "ack", pipe'.up = Append(pipe.up, m) PROVE Carries(pipe'.up, "ack") => Carries(pipe.up, "ack")
      BY <3>1, <1>0, CarriesAppend
    <3> QED BY <1>2, <3>1, DiesQuietly
  <2>4. ShutdownKnown' => ShutdownKnown
    BY <1>2, <2>3, DiesQuietly, CarriesNone DEF ShutdownKnown, Worker
  <2>5. Noted
    BY <2>2, <2>4 DEF Acknowledged
  <2> QED BY <1>2, <2>1, <2>5, DiesQuietly DEF Noted, hostVars
<1> QED BY <1>1, <1>2, NotedHost DEF Next

\* A sequence that may hold the acknowledgement at its end only.
LEMMA LastTail ==
    ASSUME NEW es \in Seq(Up), es # <<>>, \A i \in DOMAIN es : es[i].type = "ack" => i = Len(es)
    PROVE  \A i \in DOMAIN Tail(es) : Tail(es)[i].type = "ack" => i = Len(Tail(es)) /\ \E j \in DOMAIN es : es[j].type = "ack"
<1>1. \A i \in DOMAIN Tail(es) : i \in Nat /\ i + 1 \in DOMAIN es /\ Tail(es)[i] = es[i + 1]
  OBVIOUS
<1>2. Len(Tail(es)) = Len(es) - 1 /\ Len(es) \in Nat
  OBVIOUS
<1> QED BY <1>1, <1>2

LEMMA LastAppend ==
    ASSUME NEW es \in Seq(Up), NEW m \in Up, \A i \in DOMAIN es : es[i].type # "ack"
    PROVE  \A i \in DOMAIN Append(es, m) : Append(es, m)[i].type = "ack" => i = Len(Append(es, m)) /\ m.type = "ack"
<1>1. \A i \in DOMAIN Append(es, m) : (i \in DOMAIN es /\ Append(es, m)[i] = es[i]) \/ (i = Len(es) + 1 /\ Append(es, m)[i] = m)
  OBVIOUS
<1>2. Len(Append(es, m)) = Len(es) + 1
  OBVIOUS
<1> QED BY <1>1, <1>2

LEMMA AckIsLastStep ==
    ASSUME Types, WorkersRun, AckIsLast, Next PROVE AckIsLast'
<1>0. pipe.up \in Seq(Up)
  BY DEF Types, PipeTypes, Pipes
<1>1. CASE Host(SessionNext)
  <2>1. run' = run \/ run'.at = "exited"
    BY <1>1 DEF Host, Gone, Over, runtimeVars
  <2>2. pipe'.up \in {pipe.up, <<>>} \/ (pipe.up # <<>> /\ pipe'.up = Tail(pipe.up))
    BY <1>1, HostPipe DEF Host
  <2>3. CASE pipe'.up \in {pipe.up, <<>>}
    BY <2>1, <2>3 DEF AckIsLast
  <2>4. CASE pipe.up # <<>> /\ pipe'.up = Tail(pipe.up)
    BY <2>1, <2>4, <1>0, LastTail DEF AckIsLast
  <2> QED BY <2>2, <2>3, <2>4
<1>2. Working => \A i \in DOMAIN pipe.up : pipe.up[i].type # "ack"
  BY DEF AckIsLast, Working
<1>3. CASE RuntimeNext
  <2>1. CASE pipe'.up = pipe.up
    BY <2>1, <1>2, <1>3, SentIs DEF AckIsLast
  <2>2. ASSUME NEW m \in Up, pipe'.up = Append(pipe.up, m), Working, m.type # "ack" \/ run'.at = "return" PROVE AckIsLast'
    BY <2>2, <1>0, <1>2, LastAppend DEF AckIsLast
  <2>3. run.at = "acknowledge" => Working
    BY DEF Working
  <2> QED BY <1>3, <2>1, <2>2, <2>3, SentIs
<1>4. ASSUME NEW torn \in BOOLEAN, ProcessDies(torn) PROVE AckIsLast'
  <2>1. CASE pipe'.up = pipe.up
    BY <2>1, <1>4, DiesQuietly DEF AckIsLast
  <2>2. ASSUME NEW m \in Up, pipe'.up = Append(pipe.up, m), Working, m.type # "ack" PROVE AckIsLast'
    BY <2>2, <1>0, <1>2, LastAppend DEF AckIsLast
  <2> QED BY <1>4, <2>1, <2>2, DiesQuietly
<1> QED BY <1>1, <1>3, <1>4 DEF Next

\* Only the reader reads the acknowledgement.
LEMMA AckReadHost ==
    ASSUME Types, SessionNext, AckRead' PROVE AckRead \/ (ReaderReceives /\ Head(pipe.up).type = "ack")
<1>0. shut \in Shutdowns /\ reader \in Readers
  BY DEF Types, HostTypes
<1>1. ASSUME reader'.at = reader.at \/ reader'.at \in {"receiving", "done", "submit"}, shut'.queued => shut.queued \/ reader.at = "queue_ack", shut'.signal => shut.signal \/ shut.queued \/ reader.at = "check_ack", shut'.acked => shut.acked \/ shut.signal PROVE AckRead
  BY <1>1 DEF AckRead
<1>2. UNCHANGED <<reader, shut>> => AckRead
  BY <1>1
<1>3. CASE ReaderReceives
  <2>1. ReaderDoes(Head(pipe.up).type)
    BY <1>3, <1>0, ReaderDid
  <2>2. shut'.queued = shut.queued /\ shut'.acked = shut.acked
    BY <2>1, <1>0 DEF ReaderDoes, Shutdowns
  <2>3. Head(pipe.up).type = "ack" \/ (shut' = shut /\ (reader'.at = reader.at \/ reader'.at \in {"receiving", "done", "submit"}))
    BY <2>1, <1>0 DEF ReaderDoes, ReaderEnds, Readers
  <2> QED BY <1>3, <2>3, <1>1
<1>4. QueueAck => AckRead
  BY DEF QueueAck, AckRead
<1>10. CASE ReadyReceived
  BY <1>10, <1>0, <1>1 DEF ReadyReceived, Readers, Shutdowns
<1>11. CASE ReplayPendingControls
  BY <1>11, <1>0, <1>1 DEF ReplayPendingControls, Readers, Shutdowns, BeginShutdown
<1>12. CASE ReplayAnswered
  BY <1>12, <1>0, <1>1 DEF ReplayAnswered, Readers, Shutdowns, ReplayStops
<1>13. CASE ReplayInterrupted
  BY <1>13, <1>0, <1>1 DEF ReplayInterrupted, Readers, Shutdowns, TakeReader, ReplayStops
<1>14. CASE CompleteReplayControl
  BY <1>14, <1>0, <1>1 DEF CompleteReplayControl, Readers, Shutdowns
<1>15. CASE RuntimeEnds
  BY <1>15, <1>0, <1>1 DEF RuntimeEnds, Readers, Shutdowns, BeginShutdown, TakeReader
<1>16. CASE DrainReader
  BY <1>16, <1>0, <1>1 DEF DrainReader, Readers, Shutdowns, TakeReader
<1>17. CASE ShutdownSent
  BY <1>17, <1>0, <1>1 DEF ShutdownSent, Readers, Shutdowns
<1>18. CASE ShutdownWaits
  BY <1>18, <1>0, <1>1 DEF ShutdownWaits, Readers, Shutdowns, TakeReader
<1>19. CASE ShutdownDone
  BY <1>19, <1>0, <1>1 DEF ShutdownDone, Readers, Shutdowns
<1>20. CASE GracefulTimeout
  BY <1>20, <1>0, <1>1 DEF GracefulTimeout, Readers, Shutdowns
<1>21. CASE WriterShutdown
  BY <1>21, <1>0, <1>1 DEF WriterShutdown, Readers, Shutdowns
<1>22. CASE WriterTakes
  BY <1>22, <1>0, <1>1 DEF WriterTakes, Readers, Shutdowns
<1>23. CASE WriterSends
  BY <1>23, <1>0, <1>1 DEF WriterSends, Readers, Shutdowns, Stops
<1>24. CASE WriterFails
  BY <1>24, <1>0, <1>1 DEF WriterFails, Readers, Shutdowns, Stops
<1>25. CASE Submit
  BY <1>25, <1>0, <1>1 DEF Submit, Readers, Shutdowns
<1>26. CASE CheckAck
  BY <1>26, <1>0, <1>1 DEF CheckAck, Readers, Shutdowns, Signalled
<1>27. CASE ReaderFails
  BY <1>27, <1>0, <1>1 DEF ReaderFails, Readers, Shutdowns, ReaderEnds
<1> QED BY <1>2, <1>3, <1>4, <1>10, <1>11, <1>12, <1>13, <1>14, <1>15, <1>16, <1>17, <1>18, <1>19, <1>20, <1>21, <1>22, <1>23, <1>24, <1>25, <1>26, <1>27 DEF SessionNext, SessionMain, SessionWriter, SessionReader, Callers, Control, RemovePendingControl, Stop, Launch, LaunchFails, Accept, StartupFails, CleanupStartedProcess, HelloReceived, ReplayExit, RuntimeExit, StopWriter, KillTimeout, WriterControl

LEMMA AckNotLostHost ==
    ASSUME Types, Opening, AckNotLost, SessionNext PROVE AckNotLost' 
<1>0. shut \in Shutdowns /\ reader \in Readers
  BY DEF Types, HostTypes
<1>1. ASSUME shut'.state = shut.state \/ shut'.state # "complete" \/ (shut.queued => shut'.signal), shut'.queued = shut.queued \/ ~shut'.queued, shut.signal => shut'.signal \/ shut'.acked, shut.acked => shut'.acked, reader.at = "check_ack" => reader'.at = "check_ack" PROVE AckNotLost'
  BY <1>1 DEF AckNotLost
<1>2. UNCHANGED <<reader, shut>> => AckNotLost'
  BY <1>1
<1>3. CASE ReaderReceives
  <2>1. ReaderDoes(Head(pipe.up).type) /\ reader.at = "receiving"
    BY <1>3, <1>0, ReaderDid DEF ReaderReceives
  <2>2. shut'.state = shut.state /\ shut'.queued = shut.queued /\ shut'.acked = shut.acked /\ (shut.signal => shut'.signal)
    BY <2>1, <1>0 DEF ReaderDoes, Shutdowns
  <2> QED BY <2>1, <2>2, <1>1
<1>4. CASE ReadyReceived
  <2>1. ~shut.queued /\ shut' = shut
    BY <1>4 DEF ReadyReceived, Opening, ShutOff
  <2> QED BY <2>1 DEF AckNotLost
<1>5. CASE GracefulTimeout
  <2>1. shut'.state = "not_started"
    BY <1>5, <1>0 DEF GracefulTimeout, Shutdowns
  <2> QED BY <2>1 DEF AckNotLost
<1>6. CASE QueueAck
  <2>1. reader'.at = "check_ack"
    BY <1>6, <1>0 DEF QueueAck, Readers
  <2> QED BY <2>1 DEF AckNotLost
<1>7. CASE CheckAck
  <2>1. shut'.state = shut.state /\ (shut.state = "complete" => shut'.signal)
    BY <1>7, <1>0 DEF CheckAck, Signalled, Shutdowns
  <2> QED BY <2>1 DEF AckNotLost
<1>10. CASE ReplayPendingControls
  BY <1>10, <1>0, <1>1 DEF ReplayPendingControls, Readers, Shutdowns, BeginShutdown
<1>11. CASE ReplayAnswered
  BY <1>11, <1>0, <1>1 DEF ReplayAnswered, Readers, Shutdowns, ReplayStops
<1>12. CASE ReplayInterrupted
  BY <1>12, <1>0, <1>1 DEF ReplayInterrupted, Readers, Shutdowns, TakeReader, ReplayStops
<1>13. CASE CompleteReplayControl
  BY <1>13, <1>0, <1>1 DEF CompleteReplayControl, Readers, Shutdowns
<1>14. CASE RuntimeEnds
  BY <1>14, <1>0, <1>1 DEF RuntimeEnds, Readers, Shutdowns, BeginShutdown, TakeReader
<1>15. CASE DrainReader
  BY <1>15, <1>0, <1>1 DEF DrainReader, Readers, Shutdowns, TakeReader
<1>16. CASE ShutdownSent
  BY <1>16, <1>0, <1>1 DEF ShutdownSent, Readers, Shutdowns
<1>17. CASE ShutdownWaits
  BY <1>17, <1>0, <1>1 DEF ShutdownWaits, Readers, Shutdowns, TakeReader
<1>18. CASE ShutdownDone
  BY <1>18, <1>0, <1>1 DEF ShutdownDone, Readers, Shutdowns
<1>19. CASE WriterShutdown
  BY <1>19, <1>0, <1>1 DEF WriterShutdown, Readers, Shutdowns
<1>20. CASE WriterTakes
  BY <1>20, <1>0, <1>1 DEF WriterTakes, Readers, Shutdowns
<1>21. CASE WriterSends
  BY <1>21, <1>0, <1>1 DEF WriterSends, Readers, Shutdowns, Stops
<1>22. CASE WriterFails
  BY <1>22, <1>0, <1>1 DEF WriterFails, Readers, Shutdowns, Stops
<1>23. CASE Submit
  BY <1>23, <1>0, <1>1 DEF Submit, Readers, Shutdowns
<1>24. CASE ReaderFails
  BY <1>24, <1>0, <1>1 DEF ReaderFails, Readers, Shutdowns, ReaderEnds
<1> QED BY <1>2, <1>3, <1>4, <1>5, <1>6, <1>7, <1>10, <1>11, <1>12, <1>13, <1>14, <1>15, <1>16, <1>17, <1>18, <1>19, <1>20, <1>21, <1>22, <1>23, <1>24 DEF SessionNext, SessionMain, SessionWriter, SessionReader, Callers, Control, RemovePendingControl, Stop, Launch, LaunchFails, Accept, StartupFails, CleanupStartedProcess, HelloReceived, ReplayExit, RuntimeExit, StopWriter, KillTimeout, WriterControl

LEMMA AckEndsAllHost ==
    ASSUME Types, AckIsLast, AckEndsAll, Host(SessionNext) PROVE AckEndsAll'
<1>0. shut \in Shutdowns /\ reader \in Readers /\ pipe.up \in Seq(Up) /\ SessionNext
  BY DEF Types, HostTypes, PipeTypes, Pipes, Host
<1>1. run' = run \/ run'.at = "exited"
  BY DEF Host, Gone, Over, runtimeVars
<1>2. CASE AckRead
  <2>1. pipe.up = <<>> /\ run.at \in {"return", "exited"} /\ reader.at # "submit"
    BY <1>2 DEF AckEndsAll
  <2>2. pipe'.up = <<>>
    BY <2>1, <1>0, HostPipe
  <2>3. reader'.at # "submit"
    <3>10. CASE ReadyReceived
      BY <3>10, <2>1, <1>0 DEF ReadyReceived, Readers
    <3>11. CASE ReplayInterrupted
      BY <3>11, <2>1, <1>0 DEF ReplayInterrupted, Readers, TakeReader, ReplayStops
    <3>12. CASE CompleteReplayControl
      BY <3>12, <2>1, <1>0 DEF CompleteReplayControl, Readers
    <3>13. CASE RuntimeEnds
      BY <3>13, <2>1, <1>0 DEF RuntimeEnds, Readers, BeginShutdown, TakeReader
    <3>14. CASE DrainReader
      BY <3>14, <2>1, <1>0 DEF DrainReader, Readers, TakeReader
    <3>15. CASE ShutdownWaits
      BY <3>15, <2>1, <1>0 DEF ShutdownWaits, Readers, TakeReader
    <3>16. CASE ShutdownDone
      BY <3>16, <2>1, <1>0 DEF ShutdownDone, Readers
    <3>17. CASE GracefulTimeout
      BY <3>17, <2>1, <1>0 DEF GracefulTimeout, Readers
    <3>18. CASE Submit
      BY <3>18, <2>1, <1>0 DEF Submit, Readers
    <3>19. CASE QueueAck
      BY <3>19, <2>1, <1>0 DEF QueueAck, Readers
    <3>20. CASE CheckAck
      BY <3>20, <2>1, <1>0 DEF CheckAck, Readers, Signalled
    <3>21. CASE ReaderFails
      BY <3>21, <2>1, <1>0 DEF ReaderFails, Readers, ReaderEnds
    <3>1. ~ReaderReceives
      BY <2>1 DEF ReaderReceives
    <3>2. reader' = reader => reader'.at # "submit"
      BY <2>1
    <3> QED BY <1>0, <3>1, <3>2, <3>10, <3>11, <3>12, <3>13, <3>14, <3>15, <3>16, <3>17, <3>18, <3>19, <3>20, <3>21 DEF SessionNext, SessionMain, SessionWriter, SessionReader, Callers, Control, RemovePendingControl, Stop, Launch, LaunchFails, Accept, StartupFails, CleanupStartedProcess, HelloReceived, ReplayPendingControls, ReplayAnswered, ReplayExit, RuntimeExit, StopWriter, ShutdownSent, KillTimeout, WriterControl, WriterShutdown, WriterTakes, WriterSends, WriterFails
  <2> QED BY <1>1, <2>1, <2>2, <2>3 DEF AckEndsAll
<1>3. CASE ReaderReceives /\ Head(pipe.up).type = "ack"
  <2>1. pipe.up # <<>> /\ pipe'.up = Tail(pipe.up)
    BY <1>3, HostPipe DEF ReaderReceives, Types, PipeTypes, Pipes
  <2>2. 1 \in DOMAIN pipe.up /\ Head(pipe.up) = pipe.up[1]
    BY <2>1, <1>0
  <2>3. Len(pipe.up) = 1 /\ run.at \in {"return", "exited"}
    BY <2>2, <1>3 DEF AckIsLast
  <2>4. pipe'.up = <<>>
    <3>1. Tail(pipe.up) \in Seq(Up) /\ Len(Tail(pipe.up)) = 0
      BY <2>1, <2>3, <1>0
    <3>2. \A es \in Seq(Up) : Len(es) = 0 => es = <<>>
      OBVIOUS
    <3> QED BY <3>1, <3>2, <2>1
  <2>5. reader'.at # "submit"
    <3>1. ReaderDoes("ack") /\ reader.at = "receiving"
      BY <1>3, <1>0, ReaderDid DEF ReaderReceives
    <3> QED BY <3>1, <1>0 DEF ReaderDoes, ReaderEnds, Readers
  <2> QED BY <1>1, <2>3, <2>4, <2>5 DEF AckEndsAll
<1>4. ~AckRead' => AckEndsAll'
  BY DEF AckEndsAll
<1> QED BY <1>0, <1>2, <1>3, <1>4, AckReadHost

LEMMA AcknowledgedStep ==
    ASSUME Types, Handshake, WorkersRun, Opening, WriterKeeps, Ending, Acknowledged, Next PROVE Acknowledged'
<1>1. AckIsLast' /\ (ShutdownKnown' \/ SendingShutdown' => Noted')
  BY AckIsLastStep, NotedStep DEF Acknowledged
<1>2. AckNotLost'
  <2>1. UNCHANGED hostVars => AckNotLost'
    BY DEF Acknowledged, AckNotLost, hostVars
  <2> QED BY <2>1, AckNotLostHost DEF Next, Host, ProcessDies, Acknowledged
<1>3. AckEndsAll'
  <2>1. CASE Host(SessionNext)
    BY <2>1, AckEndsAllHost DEF Acknowledged
  <2>2. ASSUME UNCHANGED hostVars, pipe'.up = pipe.up \/ Working, ~Working => run'.at \in {"return", "exited"} PROVE AckEndsAll'
    <3>1. AckRead' => AckRead
      BY <2>2 DEF hostVars, AckRead
    <3>2. AckRead => ~Working /\ pipe.up = <<>> /\ reader.at # "submit"
      BY DEF Acknowledged, AckEndsAll, Working
    <3>3. reader' = reader
      BY <2>2 DEF hostVars
    <3> QED BY <2>2, <3>1, <3>2, <3>3 DEF AckEndsAll
  <2>3. CASE RuntimeNext /\ UNCHANGED hostVars
    <3>1. run.at = "acknowledge" => Working
      BY DEF Working
    <3> QED BY <2>3, <3>1, <2>2, SentIs
  <2>4. ASSUME NEW torn \in BOOLEAN, ProcessDies(torn) PROVE AckEndsAll'
    <3>1. UNCHANGED hostVars
      BY <2>4 DEF ProcessDies
    <3> QED BY <2>4, <3>1, <2>2, DiesQuietly
  <2> QED BY <2>1, <2>3, <2>4 DEF Next
<1> QED BY <1>1, <1>2, <1>3 DEF Acknowledged

\* What the reader finds wrong, and why.
LEMMA ReaderBlames ==
    ASSUME Types, Handshake, Opening, Acknowledged, Blamed, SessionNext
    PROVE  /\ reader'.result = "violation" => pipe.torn
           /\ reader'.result = "nil" => reader'.cancelled
           /\ reader'.at = "done" => reader'.result # "none"
<1>0. reader \in Readers /\ shut \in Shutdowns /\ pipe.up \in Seq(Up)
  BY DEF Types, HostTypes, PipeTypes, Pipes
<1>B. (reader.result = "violation" => pipe.torn) /\ (reader.result = "nil" => reader.cancelled) /\ (reader.at = "done" => reader.result # "none")
  BY DEF Blamed
<1>1. CASE ReaderReceives
  <2> DEFINE m == Head(pipe.up).type
  <2>1. ReaderDoes(m) /\ reader.at = "receiving" /\ pipe.host = "open" /\ pipe.up # <<>>
    BY <1>1, <1>0, ReaderDid DEF ReaderReceives
  <2>2. 1 \in DOMAIN pipe.up /\ pipe.up[1].type = m
    BY <2>1, <1>0
  <2>3. m \notin {"hello", "ready"}
    <3>1. writer.at # "off"
      BY <2>1 DEF Opening, ReaderOff
    <3> QED BY <3>1, <2>2 DEF Handshake, NoHandshake, HandshakeType
  <2>4. m = "ack" => shut.state # "not_started"
    BY <2>1, <2>2 DEF Acknowledged, ShutdownKnown, Carries, Noted
  <2>5. m = "torn" => pipe.torn
    BY <2>2 DEF Blamed
  <2> HIDE DEF m
  <2> QED BY <2>1, <2>3, <2>4, <2>5, <1>0, <1>B DEF ReaderDoes, ReaderEnds, Readers
<1>2. reader' = reader => reader'.result = reader.result /\ reader'.at = reader.at /\ reader'.cancelled = reader.cancelled
  OBVIOUS
<1>10. CASE ReadyReceived
  BY <1>10, <1>0, <1>B DEF ReadyReceived, Readers
<1>11. CASE ReplayInterrupted
  BY <1>11, <1>0, <1>B DEF ReplayInterrupted, Readers, TakeReader, ReplayStops
<1>12. CASE CompleteReplayControl
  BY <1>12, <1>0, <1>B DEF CompleteReplayControl, Readers
<1>13. CASE RuntimeEnds
  BY <1>13, <1>0, <1>B DEF RuntimeEnds, Readers, BeginShutdown, TakeReader
<1>14. CASE DrainReader
  BY <1>14, <1>0, <1>B DEF DrainReader, Readers, TakeReader
<1>15. CASE ShutdownWaits
  BY <1>15, <1>0, <1>B DEF ShutdownWaits, Readers, TakeReader
<1>16. CASE ShutdownDone
  BY <1>16, <1>0, <1>B DEF ShutdownDone, Readers
<1>17. CASE GracefulTimeout
  BY <1>17, <1>0, <1>B DEF GracefulTimeout, Readers
<1>18. CASE Submit
  BY <1>18, <1>0, <1>B DEF Submit, Readers
<1>19. CASE QueueAck
  BY <1>19, <1>0, <1>B DEF QueueAck, Readers
<1>20. CASE CheckAck
  BY <1>20, <1>0, <1>B DEF CheckAck, Readers, Signalled
<1>21. CASE ReaderFails
  BY <1>21, <1>0, <1>B DEF ReaderFails, Readers, ReaderEnds
<1> QED BY <1>B, <1>1, <1>2, <1>10, <1>11, <1>12, <1>13, <1>14, <1>15, <1>16, <1>17, <1>18, <1>19, <1>20, <1>21 DEF SessionNext, SessionMain, SessionWriter, SessionReader, Callers, Control, RemovePendingControl, Stop, Launch, LaunchFails, Accept, StartupFails, CleanupStartedProcess, HelloReceived, ReplayPendingControls, ReplayAnswered, ReplayExit, RuntimeExit, StopWriter, ShutdownSent, KillTimeout, WriterControl, WriterShutdown, WriterTakes, WriterSends, WriterFails

\* The host gives up with a violation only for what its reader found.
LEMMA CausesBlame ==
    ASSUME Types, Handshake, Opening, Blamed, SessionNext, "violation" \in ses'.causes PROVE pipe.torn
<1>0. ses \in Sessions /\ reader \in Readers
  BY DEF Types, HostTypes
<1>B. "violation" \in ses.causes => pipe.torn
  BY DEF Blamed, HonestPluginNotBlamed
<1>R. "violation" \in ReaderResult => pipe.torn
  BY DEF Blamed, ReaderResult
<1>W. ses.main \in {"replaying", "runtime"} /\ WriterReady => WriterCause = {"retry"}
  BY DEF Opening, Unasked, WriterReady, WriterCause
<1>N. ses.main = "runtime" /\ ReaderReady => ReaderResult # {}
  BY DEF Opening, Unasked, Blamed, ReaderReady, ReaderResult
<1>H. ses.main \in {"accept", "hello", "ready"} => \A causes \in HandshakeFailure(ses.main) : "violation" \notin causes
  <2>1. ses.main \in {"hello", "ready"} /\ pipe.up # <<>> => Head(pipe.up).type = ses.main
    BY DEF Handshake, Unmet, Initializing
  <2> QED BY <2>1 DEF HandshakeFailure
<1>E. \A causes : Ended(causes).causes = causes
  BY <1>0 DEF Ended, Sessions
<1>F. \A causes : Finish(causes) \/ End(causes) => ses'.causes = causes
  BY <1>0, <1>E DEF Finish, End, Sessions
<1>S. (\A causes : BeginShutdown(causes) => ses'.causes = ses.causes \cup causes) /\ (\A causes, cs : ReplayStops(causes, cs) => ses'.causes = ses.causes \cup causes)
  BY <1>0 DEF BeginShutdown, ReplayStops, Sessions
<1>1. ses' = ses => pipe.torn
  BY <1>B
<1>2. CASE ReplayPendingControls
  <2>1. CASE ses.phase # "replaying"
    <3>1. BeginShutdown({})
      BY <1>2, <2>1 DEF ReplayPendingControls
    <3>2. ses'.causes = ses.causes \cup {}
      BY <3>1, <1>S
    <3> QED BY <3>2, <1>B
  <2>2. CASE ses.phase = "replaying"
    <3>1. ses'.causes = ses.causes
      BY <1>2, <2>2, <1>0 DEF ReplayPendingControls, Sessions
    <3> QED BY <3>1, <1>B
  <2> QED BY <2>1, <2>2
<1>3. CASE ReplayAnswered
  <2>1. CASE writer.failed
    <3>1. ses'.causes = ses.causes \cup {"retry"}
      BY <1>3, <2>1, <1>S DEF ReplayAnswered
    <3> QED BY <3>1, <1>B
  <2>2. CASE ~writer.failed
    <3>1. ses'.causes = ses.causes
      BY <1>3, <2>2, <1>0 DEF ReplayAnswered, Sessions
    <3> QED BY <3>1, <1>B
  <2> QED BY <2>1, <2>2
<1>4. CASE GracefulTimeout
  <2>1. PICK late \in {{}, ReaderResult}, killErr \in {{}} \cup (IF Exited THEN {{"retry"}} ELSE {}) :
          LET causes == ses.causes \cup {"retry"} \cup late IN
          IF shut.exited THEN Finish(causes)
          ELSE ses' = [ses EXCEPT !.main = "kill", !.causes = causes \cup killErr] /\ UNCHANGED <<call, pending>>
    BY <1>4 DEF GracefulTimeout
  <2>2. "violation" \in late => pipe.torn
    BY <1>R
  <2>3. "violation" \notin killErr
    OBVIOUS
  <2>4. ses'.causes \subseteq ses.causes \cup {"retry"} \cup late \cup killErr
    BY <2>1, <1>0, <1>F DEF Sessions
  <2> QED BY <2>2, <2>3, <2>4, <1>B
<1>10. CASE Stop
  BY <1>10, <1>0, <1>B, <1>R, <1>W, <1>N, <1>H, <1>E, <1>F, <1>S DEF Stop, Sessions
<1>11. CASE Launch
  BY <1>11, <1>0, <1>B, <1>R, <1>W, <1>N, <1>H, <1>E, <1>F, <1>S DEF Launch, Sessions
<1>12. CASE LaunchFails
  BY <1>12, <1>0, <1>B, <1>R, <1>W, <1>N, <1>H, <1>E, <1>F, <1>S DEF LaunchFails, Sessions
<1>13. CASE Accept
  BY <1>13, <1>0, <1>B, <1>R, <1>W, <1>N, <1>H, <1>E, <1>F, <1>S DEF Accept, Sessions
<1>14. CASE StartupFails
  BY <1>14, <1>0, <1>B, <1>R, <1>W, <1>N, <1>H, <1>E, <1>F, <1>S DEF StartupFails, Sessions
<1>15. CASE CleanupStartedProcess
  BY <1>15, <1>0, <1>B, <1>R, <1>W, <1>N, <1>H, <1>E, <1>F, <1>S DEF CleanupStartedProcess, Sessions
<1>16. CASE HelloReceived
  BY <1>16, <1>0, <1>B, <1>R, <1>W, <1>N, <1>H, <1>E, <1>F, <1>S DEF HelloReceived, Sessions
<1>17. CASE ReadyReceived
  BY <1>17, <1>0, <1>B, <1>R, <1>W, <1>N, <1>H, <1>E, <1>F, <1>S DEF ReadyReceived, Sessions
<1>18. CASE ReplayExit
  BY <1>18, <1>0, <1>B, <1>R, <1>W, <1>N, <1>H, <1>E, <1>F, <1>S DEF ReplayExit, Sessions
<1>19. CASE ReplayInterrupted
  BY <1>19, <1>0, <1>B, <1>R, <1>W, <1>N, <1>H, <1>E, <1>F, <1>S DEF ReplayInterrupted, Sessions
<1>20. CASE CompleteReplayControl
  BY <1>20, <1>0, <1>B, <1>R, <1>W, <1>N, <1>H, <1>E, <1>F, <1>S DEF CompleteReplayControl, Sessions
<1>21. CASE RuntimeEnds
  BY <1>21, <1>0, <1>B, <1>R, <1>W, <1>N, <1>H, <1>E, <1>F, <1>S DEF RuntimeEnds, Sessions
<1>22. CASE RuntimeExit
  BY <1>22, <1>0, <1>B, <1>R, <1>W, <1>N, <1>H, <1>E, <1>F, <1>S DEF RuntimeExit, Sessions
<1>23. CASE DrainReader
  BY <1>23, <1>0, <1>B, <1>R, <1>W, <1>N, <1>H, <1>E, <1>F, <1>S DEF DrainReader, Sessions
<1>24. CASE StopWriter
  BY <1>24, <1>0, <1>B, <1>R, <1>W, <1>N, <1>H, <1>E, <1>F, <1>S DEF StopWriter, Sessions
<1>25. CASE ShutdownSent
  BY <1>25, <1>0, <1>B, <1>R, <1>W, <1>N, <1>H, <1>E, <1>F, <1>S DEF ShutdownSent, Sessions
<1>26. CASE ShutdownWaits
  BY <1>26, <1>0, <1>B, <1>R, <1>W, <1>N, <1>H, <1>E, <1>F, <1>S DEF ShutdownWaits, Sessions
<1>27. CASE ShutdownDone
  BY <1>27, <1>0, <1>B, <1>R, <1>W, <1>N, <1>H, <1>E, <1>F, <1>S DEF ShutdownDone, Sessions
<1>28. CASE KillTimeout
  BY <1>28, <1>0, <1>B, <1>R, <1>W, <1>N, <1>H, <1>E, <1>F, <1>S DEF KillTimeout, Sessions
<1> QED BY <1>1, <1>2, <1>3, <1>4, <1>10, <1>11, <1>12, <1>13, <1>14, <1>15, <1>16, <1>17, <1>18, <1>19, <1>20, <1>21, <1>22, <1>23, <1>24, <1>25, <1>26, <1>27, <1>28 DEF SessionNext, SessionMain, SessionWriter, SessionReader, Callers, Control, RemovePendingControl, WriterControl, WriterShutdown, WriterTakes, WriterSends, WriterFails, ReaderReceives, Submit, QueueAck, CheckAck, ReaderFails

\* Nobody mends what was cut short.
LEMMA TornHost ==
    ASSUME Types, SessionNext PROVE pipe'.torn = pipe.torn /\ (Carries(pipe'.up, "torn") => Carries(pipe.up, "torn"))
<1>0. pipe \in Pipes /\ pipe.up \in Seq(Up)
  BY DEF Types, PipeTypes, Pipes
<1>1. Carries(pipe'.up, "torn") => Carries(pipe.up, "torn")
  <2>1. pipe.up # <<>> => (Carries(Tail(pipe.up), "torn") => Carries(pipe.up, "torn"))
    BY <1>0, CarriesTail
  <2> QED BY <2>1, HostPipe, CarriesNone
<1>C. Close(pipe).torn = pipe.torn
  BY <1>0 DEF Close, Pipes
<1>2. pipe' = pipe => pipe'.torn = pipe.torn
  OBVIOUS
<1>10. CASE Accept
  BY <1>10, <1>0, <1>C, <1>1 DEF Accept, Pipes
<1>11. CASE CleanupStartedProcess
  BY <1>11, <1>0, <1>C, <1>1 DEF CleanupStartedProcess, Pipes
<1>12. CASE HelloReceived
  BY <1>12, <1>0, <1>C, <1>1 DEF HelloReceived, Pipes
<1>13. CASE ReadyReceived
  BY <1>13, <1>0, <1>C, <1>1 DEF ReadyReceived, Pipes
<1>14. CASE ReplayExit
  BY <1>14, <1>0, <1>C, <1>1 DEF ReplayExit, Pipes
<1>15. CASE DrainReader
  BY <1>15, <1>0, <1>C, <1>1 DEF DrainReader, Pipes
<1>16. CASE ShutdownDone
  BY <1>16, <1>0, <1>C, <1>1 DEF ShutdownDone, Pipes
<1>17. CASE GracefulTimeout
  BY <1>17, <1>0, <1>C, <1>1 DEF GracefulTimeout, Pipes
<1>18. CASE WriterSends
  BY <1>18, <1>0, <1>C, <1>1 DEF WriterSends, Pipes
<1>19. CASE ReaderReceives
  BY <1>19, <1>0, <1>C, <1>1 DEF ReaderReceives, Pipes
<1> QED BY <1>1, <1>2, <1>10, <1>11, <1>12, <1>13, <1>14, <1>15, <1>16, <1>17, <1>18, <1>19 DEF SessionNext, SessionMain, SessionWriter, SessionReader, Callers, Control, RemovePendingControl, Stop, Launch, LaunchFails, StartupFails, ReplayPendingControls, ReplayAnswered, ReplayInterrupted, CompleteReplayControl, RuntimeEnds, RuntimeExit, StopWriter, ShutdownSent, ShutdownWaits, KillTimeout, WriterControl, WriterShutdown, WriterTakes, WriterFails, Submit, QueueAck, CheckAck, ReaderFails

LEMMA TornUpIs ==
    ASSUME pipe \in Pipes PROVE HungUp.torn = pipe.torn /\ TornUp.torn
BY DEF HungUp, TornUp, Pipes

LEMMA TornRuntime ==
    ASSUME Types, RuntimeNext PROVE (pipe.torn => pipe'.torn) /\ (Carries(pipe'.up, "torn") => Carries(pipe.up, "torn") \/ pipe'.torn)
<1>0. pipe \in Pipes /\ pipe.up \in Seq(Up)
  BY DEF Types, PipeTypes, Pipes
<1>E. HungUp.torn = pipe.torn /\ HungUp.up = pipe.up /\ TornUp.torn
  BY <1>0, TornUpIs, PluginEnds
<1>1. \A t, v : SentUp(t, v).torn = pipe.torn
  BY <1>0 DEF SentUp, Pipes
<1>2. ASSUME NEW m \in Up, m.type # "torn", pipe'.up = Append(pipe.up, m) PROVE Carries(pipe'.up, "torn") => Carries(pipe.up, "torn")
  BY <1>0, <1>2, CarriesAppend
<1>3. ASSUME NEW t, NEW v, [type |-> t, value |-> v] \in Up, t # "torn", pipe' = SentUp(t, v)
      PROVE  (pipe.torn => pipe'.torn) /\ (Carries(pipe'.up, "torn") => Carries(pipe.up, "torn"))
  <2>1. pipe'.up = Append(pipe.up, [type |-> t, value |-> v])
    BY <1>0, <1>3 DEF SentUp, Pipes
  <2> QED BY <2>1, <1>1, <1>2, <1>3
<1>U. (\A t \in {"ready", "torn", "frame", "status", "heartbeat", "error", "ack"} : [type |-> t, value |-> 0] \in Up)
      /\ \A v \in HelloValue : [type |-> "hello", value |-> v] \in Up
  BY DEF Up
<1>4. pipe' = pipe => (pipe.torn => pipe'.torn) /\ (Carries(pipe'.up, "torn") => Carries(pipe.up, "torn"))
  OBVIOUS
<1>10. CASE Connect
  BY <1>10, <1>0, <1>E, <1>3, <1>4, <1>U DEF Connect, Pipes
<1>11. CASE SendHello
  BY <1>11, <1>0, <1>E, <1>3, <1>4, <1>U DEF SendHello, Pipes
<1>12. CASE ReceiveInitialize
  BY <1>12, <1>0, <1>E, <1>3, <1>4, <1>U DEF ReceiveInitialize, Pipes
<1>13. CASE SendReady
  BY <1>13, <1>0, <1>E, <1>3, <1>4, <1>U DEF SendReady, Pipes
<1>14. CASE HandshakeFails
  BY <1>14, <1>0, <1>E, <1>3, <1>4, <1>U DEF HandshakeFails, Exit, Pipes
<1>15. CASE ReadControl
  BY <1>15, <1>0, <1>E, <1>3, <1>4, <1>U DEF ReadControl, Pipes
<1>16. CASE WriteOutbound
  BY <1>16, <1>0, <1>E, <1>3, <1>4, <1>U DEF WriteOutbound, Outbound, Pipes
<1>17. CASE WriteFails
  BY <1>17, <1>0, <1>E, <1>3, <1>4, <1>U DEF WriteFails, Pipes
<1>18. CASE CollectTimeout
  BY <1>18, <1>0, <1>E, <1>3, <1>4, <1>U DEF CollectTimeout, Pipes
<1>19. CASE FinishTerminal
  BY <1>19, <1>0, <1>E, <1>3, <1>4, <1>U DEF FinishTerminal, Pipes
<1>20. CASE SendShutdownAck
  BY <1>20, <1>0, <1>E, <1>3, <1>4, <1>U DEF SendShutdownAck, Pipes
<1>21. CASE Return
  BY <1>21, <1>0, <1>E, <1>3, <1>4, <1>U DEF Return, Exit, Pipes
<1> QED BY <1>4, <1>10, <1>11, <1>12, <1>13, <1>14, <1>15, <1>16, <1>17, <1>18, <1>19, <1>20, <1>21 DEF RuntimeNext, PublishFrame, PublishStatus, TakeEvent, DriverReturns, ReadFails, LoadFrame, LoadStatus, Heartbeat, FirstDone, Collect

LEMMA BlamedStep ==
    ASSUME Types, Handshake, WorkersRun, Opening, Acknowledged, Blamed, Next PROVE Blamed'
<1>0. pipe \in Pipes
  BY DEF Types, PipeTypes
<1>1. CASE Host(SessionNext)
  BY <1>1, ReaderBlames, CausesBlame, TornHost DEF Host, Blamed, HonestPluginNotBlamed, Carries
<1>2. ASSUME UNCHANGED hostVars, pipe.torn => pipe'.torn, Carries(pipe'.up, "torn") => Carries(pipe.up, "torn") \/ pipe'.torn PROVE Blamed'
  BY <1>2 DEF hostVars, Blamed, HonestPluginNotBlamed, Carries
<1>3. CASE RuntimeNext /\ UNCHANGED hostVars
  BY <1>3, <1>2, TornRuntime
<1>4. ASSUME NEW torn \in BOOLEAN, ProcessDies(torn) PROVE Blamed'
  <2>1. UNCHANGED hostVars /\ pipe' \in {HungUp, TornUp}
    BY <1>4 DEF ProcessDies
  <2> QED BY <2>1, <1>0, <1>2, TornUpIs, PluginEnds
<1> QED BY <1>1, <1>3, <1>4 DEF Next

-----------------------------------------------------------------------------
(* What is in flight, and what the runtime holds back. *)

LEMMA LatestIs ==
    ASSUME NEW es \in Seq(Down), NEW kind, NEW before
    PROVE  /\ (\A i \in DOMAIN es : es[i].type # kind) => Latest(es, kind, before) = before
           /\ \A i \in DOMAIN es : es[i].type = kind /\ (\A j \in DOMAIN es : j > i => es[j].type # kind) => Latest(es, kind, before) = es[i].value
           /\ (\A i \in DOMAIN es : es[i].type # kind) \/ \E i \in DOMAIN es : es[i].type = kind /\ \A j \in DOMAIN es : j > i => es[j].type # kind
<1> DEFINE of == {i \in DOMAIN es : es[i].type = kind}
<1>1. of \in SUBSET Nat /\ Len(es) \in Nat /\ \A i \in of : i <= Len(es)
  OBVIOUS
<1>2. of # {} => Max(of) \in of /\ \A i \in of : i <= Max(of)
  <2> HIDE DEF of
  <2> QED BY <1>1, MaxIsGreatest
<1>3. Latest(es, kind, before) = IF of = {} THEN before ELSE es[Max(of)].value
  BY DEF Latest
<1>4. \A i \in of : i \in DOMAIN es /\ i \in Nat /\ es[i].type = kind
  BY <1>1
<1>5. \A i \in DOMAIN es : es[i].type = kind => i \in of
  OBVIOUS
<1> HIDE DEF of
<1>6. ASSUME NEW i \in DOMAIN es, es[i].type = kind, \A j \in DOMAIN es : j > i => es[j].type # kind PROVE Latest(es, kind, before) = es[i].value
  <2>1. i \in of /\ Max(of) \in of /\ i <= Max(of)
    BY <1>6, <1>2, <1>5
  <2>2. ~(Max(of) > i)
    BY <2>1, <1>4, <1>6
  <2>3. Max(of) = i
    BY <2>1, <2>2, <1>4
  <2> QED BY <2>1, <2>3, <1>3
<1>7. (\A i \in DOMAIN es : es[i].type # kind) => Latest(es, kind, before) = before
  BY <1>3, <1>4
<1>8. of # {} => \E i \in DOMAIN es : es[i].type = kind /\ \A j \in DOMAIN es : j > i => es[j].type # kind
  <2> SUFFICES ASSUME of # {} PROVE Max(of) \in DOMAIN es /\ es[Max(of)].type = kind /\ \A j \in DOMAIN es : j > Max(of) => es[j].type # kind
    OBVIOUS
  <2>1. \A j \in DOMAIN es : j \in Nat
    OBVIOUS
  <2> QED BY <2>1, <1>2, <1>4, <1>5
<1> QED BY <1>5, <1>6, <1>7, <1>8

LEMMA LatestNone ==
    ASSUME NEW kind, NEW before PROVE Latest(<<>>, kind, before) = before
<1>1. {i \in DOMAIN <<>> : <<>>[i].type = kind} = {}
  OBVIOUS
<1> QED BY <1>1 DEF Latest

LEMMA LatestAppend ==
    ASSUME NEW es \in Seq(Down), NEW m \in Down, NEW kind, NEW before
    PROVE  Latest(Append(es, m), kind, before) = IF m.type = kind THEN m.value ELSE Latest(es, kind, before)
<1> DEFINE new == Append(es, m)
<1>1. new \in Seq(Down) /\ DOMAIN new = 1 .. Len(es) + 1 /\ DOMAIN es = 1 .. Len(es) /\ Len(es) \in Nat /\ new[Len(es) + 1] = m
      /\ \A i \in DOMAIN es : new[i] = es[i]
  OBVIOUS
<1> HIDE DEF new
<1>2. CASE m.type = kind
  <2>1. Len(es) + 1 \in DOMAIN new /\ \A j \in DOMAIN new : ~(j > Len(es) + 1)
    BY <1>1
  <2>2. Latest(new, kind, before) = new[Len(es) + 1].value
    BY <1>1, <1>2, <2>1, LatestIs
  <2> QED BY <1>1, <1>2, <2>2 DEF new
<1>3. CASE m.type # kind /\ \A i \in DOMAIN es : es[i].type # kind
  <2>1. \A i \in DOMAIN new : new[i].type # kind
    BY <1>1, <1>3
  <2>2. Latest(new, kind, before) = before /\ Latest(es, kind, before) = before
    BY <1>1, <1>3, <2>1, LatestIs
  <2> QED BY <1>3, <2>2 DEF new
<1>4. ASSUME m.type # kind, NEW i \in DOMAIN es, es[i].type = kind, \A j \in DOMAIN es : j > i => es[j].type # kind
      PROVE  Latest(new, kind, before) = Latest(es, kind, before)
  <2>1. i \in DOMAIN new /\ new[i].type = kind /\ \A j \in DOMAIN new : j > i => new[j].type # kind
    BY <1>1, <1>4
  <2>2. Latest(new, kind, before) = new[i].value
    BY <1>1, <2>1, LatestIs
  <2>3. Latest(es, kind, before) = es[i].value
    BY <1>4, LatestIs
  <2> QED BY <1>1, <2>2, <2>3
<1>5. (\A i \in DOMAIN es : es[i].type # kind) \/ \E i \in DOMAIN es : es[i].type = kind /\ \A j \in DOMAIN es : j > i => es[j].type # kind
  BY LatestIs
<1> QED BY <1>2, <1>3, <1>4, <1>5 DEF new

LEMMA LatestTail ==
    ASSUME NEW es \in Seq(Down), es # <<>>, NEW kind, NEW before
    PROVE  Latest(es, kind, before) = Latest(Tail(es), kind, IF Head(es).type = kind THEN Head(es).value ELSE before)
<1>1. Tail(es) \in Seq(Down) /\ 1 \in DOMAIN es /\ Head(es) = es[1]
  OBVIOUS
<1>2. \A i \in DOMAIN Tail(es) : i \in Nat \ {0} /\ i + 1 \in DOMAIN es /\ Tail(es)[i] = es[i + 1]
  OBVIOUS
<1>3. \A j \in DOMAIN es : j \in Nat /\ (j = 1 \/ (j > 1 /\ j - 1 \in DOMAIN Tail(es)))
  OBVIOUS
<1> SUFFICES ASSUME NEW b, b = IF es[1].type = kind THEN es[1].value ELSE before, NEW new, new = Tail(es)
             PROVE  Latest(es, kind, before) = Latest(new, kind, b)
  BY <1>1
<1>6. new \in Seq(Down)
  BY <1>1
<1>4. \A i \in DOMAIN new : i \in Nat \ {0} /\ i + 1 \in DOMAIN es /\ new[i] = es[i + 1]
  BY <1>2
<1>5. \A j \in DOMAIN es : j \in Nat /\ (j = 1 \/ (j > 1 /\ j - 1 \in DOMAIN new))
  BY <1>3
<1>14. ASSUME NEW i \in DOMAIN new, new[i].type = kind, \A j \in DOMAIN new : j > i => new[j].type # kind
      PROVE  Latest(es, kind, before) = Latest(new, kind, b)
  <2> PICK k \in DOMAIN es : k = i + 1
    BY <1>14, <1>4
  <2>1. es[k].type = kind /\ new[i] = es[k] /\ i \in Nat \ {0}
    BY <1>14, <1>4
  <2>2. ASSUME NEW j \in DOMAIN es, j > k PROVE es[j].type # kind
    <3>1. j - 1 \in DOMAIN new /\ new[j - 1] = es[j] /\ j - 1 > i
      <4>1. j \in Nat /\ j - 1 \in DOMAIN new
        BY <2>1, <2>2, <1>5
      <4>2. new[j - 1] = es[(j - 1) + 1] /\ (j - 1) + 1 = j
        BY <4>1, <1>4
      <4>3. new[j - 1] = es[j]
        BY <4>2
      <4> QED BY <4>1, <4>3, <2>1, <2>2
    <3> QED BY <3>1, <1>14
  <2>5. \A j \in DOMAIN es : j > k => es[j].type # kind
    BY <2>2
  <2>3. Latest(es, kind, before) = es[k].value
    <3>1. \A q \in DOMAIN es : es[q].type = kind /\ (\A j \in DOMAIN es : j > q => es[j].type # kind) => Latest(es, kind, before) = es[q].value
      BY LatestIs
    <3> QED BY ONLY <3>1, <2>1, <2>5, k \in DOMAIN es
  <2>4. Latest(new, kind, b) = new[i].value
    <3>1. \A q \in DOMAIN new : new[q].type = kind /\ (\A j \in DOMAIN new : j > q => new[j].type # kind) => Latest(new, kind, b) = new[q].value
      BY ONLY <1>6, LatestIs
    <3> QED BY ONLY <3>1, <1>14, i \in DOMAIN new
  <2> QED BY <2>1, <2>3, <2>4
<1>15. CASE \A i \in DOMAIN new : new[i].type # kind
  <2>1. Latest(new, kind, b) = b
    <3>1. (\A i \in DOMAIN new : new[i].type # kind) => Latest(new, kind, b) = b
      BY ONLY <1>6, LatestIs
    <3> QED BY ONLY <3>1, <1>15
  <2>2. ASSUME NEW j \in DOMAIN es, j > 1 PROVE es[j].type # kind
    <3>1. j - 1 \in DOMAIN new /\ j \in Nat
      BY <2>2, <1>5
    <3>2. new[j - 1] = es[(j - 1) + 1] /\ (j - 1) + 1 = j
      BY <3>1, <1>4
    <3>3. new[j - 1] = es[j]
      BY <3>2
    <3> QED BY <3>1, <3>3, <1>15
  <2>4. CASE es[1].type = kind
    <3>1. Latest(es, kind, before) = es[1].value
      BY <2>2, <2>4, <1>1, LatestIs
    <3> QED BY <3>1, <2>1, <2>4
  <2>5. CASE es[1].type # kind
    <3>1. \A j \in DOMAIN es : es[j].type # kind
      BY <2>2, <2>5, <1>5
    <3>2. Latest(es, kind, before) = before
      BY <3>1, LatestIs
    <3> QED BY <3>2, <2>1, <2>5
  <2> QED BY <2>4, <2>5
<1>16. (\A i \in DOMAIN new : new[i].type # kind) \/ \E i \in DOMAIN new : new[i].type = kind /\ \A j \in DOMAIN new : j > i => new[j].type # kind
  BY <1>6, LatestIs
<1> QED BY <1>14, <1>15, <1>16

\* What a control does to the frame that waits, and to the state.
LEMMA ControlRead ==
    ASSUME Types, Handshake, WorkersRun, Opening, ReadControl
    PROVE  /\ Head(pipe.down) \in Down /\ Head(pipe.down).type # "initialize" /\ pipe.down # <<>> /\ pipe'.down = Tail(pipe.down)
           /\ \/ worker'["reader"].at = "done" /\ host'.state = host.state /\ slot' = slot
              \/ /\ Head(pipe.down).type \in Kind /\ ~Older(Head(pipe.down)) /\ host.state[Head(pipe.down).type] # Head(pipe.down).value
                 /\ host'.state = [host.state EXCEPT ![Head(pipe.down).type] = Head(pipe.down).value]
                 /\ slot' = SlotAfter(Head(pipe.down))
              \/ Head(pipe.down).type \in Kind /\ host.state[Head(pipe.down).type] = Head(pipe.down).value /\ host' = host /\ slot' = slot
           /\ run' = run /\ status' = status
<1>0. pipe \in Pipes /\ pipe.down \in Seq(Down) /\ host \in Hosts /\ worker \in [Worker -> Workers]
  BY DEF Types, RuntimeTypes, PipeTypes, Pipes
<1>1. Started_ /\ pipe.down # <<>>
  <2>1. worker["reader"].at # "off" /\ "reader" \in Worker
    BY DEF ReadControl, Running, Worker
  <2> QED BY <2>1, WorkingIsStarted DEF ReadControl, Types
<1>2. Head(pipe.down) \in Down /\ Head(pipe.down).type # "initialize"
  <2>1. 1 \in DOMAIN pipe.down /\ Head(pipe.down) = pipe.down[1] /\ Head(pipe.down) \in Down
    BY <1>0, <1>1
  <2> QED BY <1>1, <2>1 DEF Started_
<1> DEFINE m == Head(pipe.down)
<1>3. m.type \in {"config", "generation", "active", "shutdown"}
  BY <1>2, DownIs
<1>4. pipe'.down = Tail(pipe.down) /\ run' = run /\ status' = status
  BY <1>0 DEF ReadControl, Pipes
<1>5. \A r : Ends("reader", r) => worker'["reader"].at = "done"
  BY <1>0 DEF Ends, Worker
<1>H. [host EXCEPT !.accepted = TRUE, !.events = host.events + 1].state = host.state
  BY <1>0 DEF Hosts
<1>6. \/ m.type = "shutdown" /\ slot' = slot /\ host'.state = host.state /\ worker'["reader"].at = "done"
      \/ m.type # "shutdown" /\ Older(m) /\ slot' = slot /\ host' = host /\ worker'["reader"].at = "done"
      \/ m.type # "shutdown" /\ host.state[m.type] = m.value /\ host' = host /\ slot' = slot
      \/ m.type # "shutdown" /\ ~Older(m) /\ host.state[m.type] # m.value /\ slot' = SlotAfter(m)
         /\ host' = [host EXCEPT !.state[m.type] = m.value, !.events = IF host.events < EventCapacity THEN host.events + 1 ELSE host.events]
  BY <1>5, <1>H DEF ReadControl
<1>8. m \in Down /\ m.type # "initialize"
  BY <1>2
<1> HIDE DEF m
<1> QED
  <2>1. m.type # "shutdown" => m.type \in Kind
    BY <1>3 DEF Kind
  <2>2. \/ worker'["reader"].at = "done" /\ host'.state = host.state /\ slot' = slot
        \/ /\ m.type \in Kind /\ ~Older(m) /\ host.state[m.type] # m.value
           /\ host'.state = [host.state EXCEPT ![m.type] = m.value]
           /\ slot' = SlotAfter(m)
        \/ m.type \in Kind /\ host.state[m.type] = m.value /\ host' = host /\ slot' = slot
    <3>1. host' = [host EXCEPT !.state[m.type] = m.value, !.events = IF host.events < EventCapacity THEN host.events + 1 ELSE host.events]
            => host'.state = [host.state EXCEPT ![m.type] = m.value]
      BY <1>0 DEF Hosts
    <3> QED BY <1>6, <3>1, <2>1
  <2> QED BY <2>2, <1>1, <1>4, <1>8 DEF m

LEMMA ChangedTo ==
    ASSUME NEW state \in ControlState, NEW m \in Down, m.type \in Kind
    PROVE  \A kind \in Kind : [state EXCEPT ![m.type] = m.value][kind] = IF m.type = kind THEN m.value ELSE state[kind]
<1>1. (m.type \in {"config", "generation"} => m.value \in Nat) /\ (m.type = "active" => m.value \in BOOLEAN)
  BY DownIs
<1>2. ASSUME NEW k \in Kind, NEW v, (k \in {"config", "generation"} => v \in Nat) /\ (k = "active" => v \in BOOLEAN)
      PROVE  \A kind \in Kind : [state EXCEPT ![k] = v][kind] = IF k = kind THEN v ELSE state[kind]
  <2>1. CASE k = "config"
    BY <1>2, <2>1 DEF ControlState, Kind
  <2>2. CASE k = "generation"
    BY <1>2, <2>2 DEF ControlState, Kind
  <2>3. CASE k = "active"
    BY <1>2, <2>3 DEF ControlState, Kind
  <2> QED BY <2>1, <2>2, <2>3 DEF Kind
<1> QED BY <1>1, <1>2

\* The frame that waits is of the subscription in force.
LEMMA SlotRead ==
    ASSUME Types, NEW m \in Down, m.type \in Kind, ~Older(m), host.state[m.type] # m.value, FrameOfSubscription, slot.pending => slot.wake, SlotAfter(m).pending
    PROVE  SlotAfter(m) = slot /\ slot.value = [host.state EXCEPT ![m.type] = m.value]["generation"] /\ [host.state EXCEPT ![m.type] = m.value]["active"]
<1>0. host.state \in ControlState /\ slot \in Slots
  BY DEF Types, RuntimeTypes, Hosts
<1>1. SlotAfter(m) = slot /\ slot.pending /\ ~(m.type = "generation" /\ slot.value < m.value) /\ ~(m.type = "active" /\ ~m.value)
  BY RestIs DEF SlotAfter
<1>2. slot.value = host.state["generation"] /\ host.state["active"] = TRUE
  BY <1>0, <1>1 DEF FrameOfSubscription, ControlState
<1>3. m.type # "generation"
  <2>1. m.type = "generation" => m.value \in Nat /\ host.state["generation"] \in Nat
    BY <1>0, DownIs DEF ControlState
  <2> QED BY <1>1, <1>2, <2>1 DEF Older
<1>4. m.type # "active"
  <2>1. m.type = "active" => m.value \in BOOLEAN
    BY DownIs
  <2> QED BY <1>1, <1>2, <2>1
<1>5. m.type = "config"
  BY <1>3, <1>4 DEF Kind
<1>6. "generation" \in Kind /\ "active" \in Kind /\ (m.type = "config" => m.value \in Nat)
  BY DownIs DEF Kind
<1>7. [host.state EXCEPT !["config"] = m.value]["generation"] = host.state["generation"] /\ [host.state EXCEPT !["config"] = m.value]["active"] = host.state["active"]
  BY <1>0 DEF ControlState
<1> QED BY <1>1, <1>2, <1>5, <1>7

LEMMA SlotsStep ==
    ASSUME Types, Handshake, WorkersRun, Opening, FrameOfRun, FrameOfSubscription, NoLostWakeup, RuntimeNext
    PROVE  FrameOfRun' /\ FrameOfSubscription' /\ NoLostWakeup'
<1>0. host \in Hosts /\ slot \in Slots /\ status \in Slots /\ worker \in [Worker -> Workers] /\ run \in Runs
  BY DEF Types, RuntimeTypes
<1>O. \A at, bad : Over(at, bad) => ~slot'.pending /\ ~status'.pending
  BY RestIs DEF Over
<1>1. ASSUME ~slot'.pending \/ (slot' = slot /\ host'.state = host.state /\ (run'.at = run.at \/ run'.at \in {"run", "collect", "finish", "acknowledge"})),
             ~status'.pending \/ status'.wake \/ status' = status
      PROVE  FrameOfRun' /\ FrameOfSubscription' /\ NoLostWakeup'
  BY <1>1 DEF FrameOfRun, FrameOfSubscription, NoLostWakeup
<1>2. run' = run => run'.at = run.at
  OBVIOUS
<1>3. CASE PublishFrame
  <2>1. slot'.wake /\ slot'.value = host.state.generation /\ host.state.active /\ host' = host /\ run' = run /\ status' = status
    BY <1>3 DEF PublishFrame, Store
  <2>2. run.at \in {"run", "collect", "finish", "acknowledge"}
    BY <1>3 DEF PublishFrame, Running, WorkersRun, Worker
  <2> QED BY <2>1, <2>2 DEF FrameOfRun, FrameOfSubscription, NoLostWakeup
<1>4. CASE ReceiveInitialize
  <2>1. ~slot.pending /\ slot' = slot /\ status' = status
    BY <1>4 DEF ReceiveInitialize, FrameOfRun
  <2> QED BY <2>1, <1>1
<1>6. CASE Connect \/ SendHello
  <2>1. ~slot.pending /\ slot' = slot /\ status' = status
    BY <1>6 DEF Connect, SendHello, FrameOfRun
  <2> QED BY <2>1, <1>1
<1>5. CASE ReadControl
  <2> DEFINE m == Head(pipe.down)
  <2>1. m \in Down /\ run' = run /\ status' = status
        /\ \/ host'.state = host.state /\ slot' = slot
           \/ /\ m.type \in Kind /\ ~Older(m) /\ host.state[m.type] # m.value
              /\ host'.state = [host.state EXCEPT ![m.type] = m.value]
              /\ slot' = SlotAfter(m)
    BY <1>5, ControlRead
  <2> HIDE DEF m
  <2>2. CASE host'.state = host.state /\ slot' = slot
    BY <2>1, <2>2, <1>1
  <2>3. CASE m.type \in Kind /\ ~Older(m) /\ host.state[m.type] # m.value /\ host'.state = [host.state EXCEPT ![m.type] = m.value] /\ slot' = SlotAfter(m)
    <3>1. slot'.pending => slot' = slot /\ slot'.value = host'.state.generation /\ host'.state.active
      BY <2>1, <2>3, SlotRead DEF NoLostWakeup
    <3> QED BY <3>1, <2>1 DEF FrameOfRun, FrameOfSubscription, NoLostWakeup
  <2> QED BY <2>1, <2>2, <2>3
<1>10. CASE SendReady
  BY <1>10, <1>0, <1>1, <1>2, <1>O, RestIs DEF SendReady, Runs, Hosts, Slots
<1>11. CASE HandshakeFails
  BY <1>11, <1>0, <1>1, <1>2, <1>O, RestIs DEF HandshakeFails, Runs, Hosts, Slots, Exit, Gone
<1>12. CASE PublishStatus
  BY <1>12, <1>0, <1>1, <1>2, <1>O, RestIs DEF PublishStatus, Runs, Hosts, Slots, Running
<1>13. CASE TakeEvent
  BY <1>13, <1>0, <1>1, <1>2, <1>O, RestIs DEF TakeEvent, Runs, Hosts, Slots, Running
<1>14. CASE LoadFrame
  BY <1>14, <1>0, <1>1, <1>2, <1>O, RestIs DEF LoadFrame, Runs, Hosts, Slots, WriterIs
<1>15. CASE LoadStatus
  BY <1>15, <1>0, <1>1, <1>2, <1>O, RestIs DEF LoadStatus, Runs, Hosts, Slots, WriterIs
<1>16. CASE FirstDone
  BY <1>16, <1>0, <1>1, <1>2, <1>O, RestIs DEF FirstDone, Runs, Hosts, Slots
<1>17. CASE Collect
  BY <1>17, <1>0, <1>1, <1>2, <1>O, RestIs DEF Collect, Runs, Hosts, Slots, Recorded
<1>18. CASE CollectTimeout
  BY <1>18, <1>0, <1>1, <1>2, <1>O, RestIs DEF CollectTimeout, Runs, Hosts, Slots, Recorded
<1>19. CASE FinishTerminal
  BY <1>19, <1>0, <1>1, <1>2, <1>O, RestIs DEF FinishTerminal, Runs, Hosts, Slots
<1>20. CASE SendShutdownAck
  BY <1>20, <1>0, <1>1, <1>2, <1>O, RestIs DEF SendShutdownAck, Runs, Hosts, Slots
<1>21. CASE Return
  BY <1>21, <1>0, <1>1, <1>2, <1>O, RestIs DEF Return, Runs, Hosts, Slots, Exit, Gone
<1> QED BY <1>1, <1>3, <1>4, <1>5, <1>6, <1>10, <1>11, <1>12, <1>13, <1>14, <1>15, <1>16, <1>17, <1>18, <1>19, <1>20, <1>21 DEF RuntimeNext, DriverReturns, ReadFails, Heartbeat, WriteOutbound, WriteFails

\* Nothing is in flight that the plugin will not have, and nothing is missed.
LEMMA NothingMissedHost ==
    ASSUME Types, Handshake, WorkersRun, Opening, WriterKeeps, NoMissedUpdate, Host(SessionNext) PROVE NoMissedUpdate'
<1>0. pipe \in Pipes /\ pipe.down \in Seq(Down) /\ host \in Hosts /\ told \in ControlState /\ SessionNext /\ writer \in Writers
  BY DEF Types, HostTypes, RuntimeTypes, PipeTypes, Pipes, Host
<1>1. CASE worker'["reader"].at # "running"
  BY <1>1 DEF NoMissedUpdate
<1>2. CASE UNCHANGED runtimeVars /\ worker["reader"].at = "running"
  <2>1. host' = host /\ worker' = worker
    BY <1>2 DEF runtimeVars
  <2>2. run.at \in {"run", "collect", "finish", "acknowledge"}
    BY <1>2 DEF WorkersRun, Worker
  <2>3. ~HelloReceived /\ ~Launch
    BY <2>2 DEF HelloReceived, Launch, Handshake, Unmet
  <2>4. pipe'.plugin = pipe.plugin /\ proc' = proc
    <3>1. HostLeaves
      BY <1>0, <2>3, HostLeavesOther
    <3> QED BY <3>1 DEF HostLeaves
  <2>5. CASE pipe'.down = pipe.down /\ told' = told
    BY <2>1, <2>4, <2>5 DEF NoMissedUpdate, InFlight, Alive
  <2>6. CASE WriterSends
    <3>1. writer.current \in Owners /\ pipe'.down = Append(pipe.down, Message(writer.current))
      BY <2>6, <1>0 DEF WriterSends, WriterKeeps, Writers, Pipes
    <3> DEFINE m == Message(writer.current)
    <3>2. m \in Down /\ (writer.current = Main => m.type = "shutdown")
      BY <3>1, MessageIs
    <3>3. \A kind \in Kind : InFlight(kind)' = IF m.type = kind THEN m.value ELSE InFlight(kind)
      <4> HIDE DEF m
      <4>1. pipe'.down = Append(pipe.down, m)
        BY <3>1 DEF m
      <4>2. \A kind \in Kind : Latest(Append(pipe.down, m), kind, host.state[kind]) = IF m.type = kind THEN m.value ELSE Latest(pipe.down, kind, host.state[kind])
        BY <1>0, <3>2, LatestAppend
      <4> QED BY <4>1, <4>2, <2>1 DEF InFlight
    <3>4. CASE writer.current = Main
      <4>1. told' = told
        BY <2>6, <3>4 DEF WriterSends
      <4>2. \A kind \in Kind : InFlight(kind)' = InFlight(kind)
        BY <3>2, <3>3, <3>4 DEF Kind
      <4> QED BY <2>1, <2>4, <4>1, <4>2 DEF NoMissedUpdate, Alive
    <3>5. CASE writer.current # Main
      <4>1. writer.current \in Call /\ told' = Applied(told, Request[writer.current])
        BY <2>6, <3>1, <3>5 DEF WriterSends, Owners
      <4>2. Request[writer.current] \in ControlRequest /\ m.type = Request[writer.current].kind /\ m.value = Request[writer.current].value
        BY <3>1, <4>1, MessageIs
      <4>3. told'[m.type] = m.value /\ \A kind \in Kind : kind # m.type => told'[kind] = told[kind]
        BY <4>1, <4>2, <1>0, AppliedIs
      <4> HIDE DEF m
      <4> QED BY <2>1, <2>4, <3>3, <4>3 DEF NoMissedUpdate, Alive
    <3> QED BY <3>4, <3>5
  <2>7. WriterSends \/ told' = told
    BY <1>0 DEF SessionNext, SessionMain, SessionWriter, SessionReader, Callers, Control, RemovePendingControl, Stop, Launch, LaunchFails, Accept, StartupFails, CleanupStartedProcess, HelloReceived, ReadyReceived, ReplayPendingControls, ReplayAnswered, ReplayExit, ReplayInterrupted, CompleteReplayControl, RuntimeEnds, RuntimeExit, DrainReader, StopWriter, ShutdownSent, ShutdownWaits, ShutdownDone, GracefulTimeout, KillTimeout, WriterControl, WriterShutdown, WriterTakes, WriterFails, ReaderReceives, Submit, QueueAck, CheckAck, ReaderFails
  <2> QED BY <1>0, <2>3, <2>5, <2>6, <2>7, HostPipe
<1>3. UNCHANGED runtimeVars \/ worker'["reader"].at # "running"
  BY DEF Host, Gone, Over, Worker
<1>4. UNCHANGED runtimeVars => worker' = worker
  BY DEF runtimeVars
<1> QED BY <1>1, <1>2, <1>3, <1>4

LEMMA NothingMissedRuntime ==
    ASSUME Types, Handshake, WorkersRun, Opening, NoMissedUpdate, ~Killed, RuntimeNext, UNCHANGED hostVars PROVE NoMissedUpdate'
<1>0. pipe \in Pipes /\ pipe.down \in Seq(Down) /\ host \in Hosts /\ host.state \in ControlState /\ worker \in [Worker -> Workers] /\ run \in Runs /\ "reader" \in Worker
  BY DEF Types, RuntimeTypes, PipeTypes, Pipes, Hosts, Worker
<1>T. told' = told
  BY DEF hostVars
<1>1. CASE worker'["reader"].at # "running"
  BY <1>1 DEF NoMissedUpdate
<1>2. ASSUME pipe'.plugin # "open" PROVE NoMissedUpdate'
  BY <1>2 DEF NoMissedUpdate
<1>3. ASSUME worker["reader"].at = "running", pipe'.down = pipe.down, pipe'.plugin = pipe.plugin, proc' = proc, host'.state = host.state PROVE NoMissedUpdate'
  BY <1>3, <1>T DEF NoMissedUpdate, InFlight, Alive
<1>4. CASE SendReady
  <2>1. run.at = "ready" /\ run.at \notin Later /\ pipe'.down = pipe.down /\ host' = host
    BY <1>4, <1>0 DEF SendReady, Later, SentUp, Pipes
  <2>2. writer.at = "off"
    BY <2>1 DEF Handshake, Started_
  <2>3. ses.main = "ready"
    BY <2>1, <2>2 DEF Opening, Killed, Unwatched, Handshake, Unmet
  <2>4. pipe.down = <<>> /\ host.state = Startup /\ told = Startup
    BY <2>1, <2>2, <2>3 DEF Handshake, Initializing, Opening
  <2>5. \A kind \in Kind : Latest(<<>>, kind, Startup[kind]) = Startup[kind]
    BY LatestNone
  <2> QED BY <2>1, <2>4, <2>5, <1>T DEF NoMissedUpdate, InFlight
<1>5. CASE ReadControl
  <2> DEFINE m == Head(pipe.down)
  <2>1. /\ m \in Down /\ m.type # "initialize" /\ pipe.down # <<>> /\ pipe'.down = Tail(pipe.down)
        /\ \/ worker'["reader"].at = "done"
           \/ m.type \in Kind /\ host'.state = [host.state EXCEPT ![m.type] = m.value]
           \/ m.type \in Kind /\ host.state[m.type] = m.value /\ host' = host
    BY <1>5, ControlRead
  <2>2. worker["reader"].at = "running" /\ Alive /\ pipe.plugin = "open" /\ proc' = proc
    BY <1>5 DEF ReadControl, Running
  <2>3. \A kind \in Kind : Latest(pipe.down, kind, host.state[kind]) = Latest(Tail(pipe.down), kind, IF m.type = kind THEN m.value ELSE host.state[kind])
    BY <1>0, <2>1, LatestTail
  <2> HIDE DEF m
  <2>4. CASE m.type \in Kind /\ \A kind \in Kind : host'.state[kind] = IF m.type = kind THEN m.value ELSE host.state[kind]
    <3>1. \A kind \in Kind : InFlight(kind)' = InFlight(kind)
      BY <2>1, <2>3, <2>4 DEF InFlight
    <3> QED BY <3>1, <2>2, <1>T DEF NoMissedUpdate
  <2>5. m.type \in Kind /\ host'.state = [host.state EXCEPT ![m.type] = m.value] => \A kind \in Kind : host'.state[kind] = IF m.type = kind THEN m.value ELSE host.state[kind]
    BY <2>1, <1>0, ChangedTo
  <2> QED BY <1>1, <2>1, <2>4, <2>5
<1>P. (\A t, v : SentUp(t, v).down = pipe.down /\ SentUp(t, v).plugin = pipe.plugin)
  BY <1>0 DEF SentUp, Pipes
<1>E. HungUp.plugin # "open" /\ TornUp.plugin # "open"
  BY <1>0, PluginEnds
<1>O. \A at, bad : Over(at, bad) => worker'["reader"].at # "running"
  BY <1>0 DEF Over
<1>10. CASE Connect
  <2>1. worker["reader"].at # "running" /\ worker' = worker
    BY <1>10, <1>0 DEF Connect, WorkersRun
  <2> QED BY <2>1, <1>1
<1>11. CASE SendHello
  <2>1. worker["reader"].at # "running" /\ worker' = worker
    BY <1>11, <1>0 DEF SendHello, WorkersRun
  <2> QED BY <2>1, <1>1
<1>12. CASE ReceiveInitialize
  <2>1. worker["reader"].at # "running" /\ worker' = worker
    BY <1>12, <1>0 DEF ReceiveInitialize, WorkersRun
  <2> QED BY <2>1, <1>1
<1>13. CASE HandshakeFails
  BY <1>13, <1>0, <1>1, <1>2, <1>3, <1>P, <1>E, <1>O DEF HandshakeFails, Worker, Hosts, Exit, Gone
<1>14. CASE PublishFrame
  BY <1>14, <1>0, <1>1, <1>2, <1>3, <1>P, <1>E, <1>O DEF PublishFrame, Worker, Hosts, Running, Store
<1>15. CASE PublishStatus
  BY <1>15, <1>0, <1>1, <1>2, <1>3, <1>P, <1>E, <1>O DEF PublishStatus, Worker, Hosts, Running
<1>16. CASE TakeEvent
  BY <1>16, <1>0, <1>1, <1>2, <1>3, <1>P, <1>E, <1>O DEF TakeEvent, Worker, Hosts, Running
<1>17. CASE DriverReturns
  BY <1>17, <1>0, <1>1, <1>2, <1>3, <1>P, <1>E, <1>O DEF DriverReturns, Worker, Hosts, Running
<1>18. CASE ReadFails
  BY <1>18, <1>0, <1>1, <1>2, <1>3, <1>P, <1>E, <1>O DEF ReadFails, Worker, Hosts, Ends
<1>19. CASE LoadFrame
  BY <1>19, <1>0, <1>1, <1>2, <1>3, <1>P, <1>E, <1>O DEF LoadFrame, Worker, Hosts, WriterIs
<1>20. CASE LoadStatus
  BY <1>20, <1>0, <1>1, <1>2, <1>3, <1>P, <1>E, <1>O DEF LoadStatus, Worker, Hosts, WriterIs
<1>21. CASE Heartbeat
  BY <1>21, <1>0, <1>1, <1>2, <1>3, <1>P, <1>E, <1>O DEF Heartbeat, Worker, Hosts
<1>22. CASE WriteOutbound
  BY <1>22, <1>0, <1>1, <1>2, <1>3, <1>P, <1>E, <1>O DEF WriteOutbound, Worker, Hosts
<1>23. CASE WriteFails
  BY <1>23, <1>0, <1>1, <1>2, <1>3, <1>P, <1>E, <1>O DEF WriteFails, Worker, Hosts, Ends
<1>24. CASE FirstDone
  BY <1>24, <1>0, <1>1, <1>2, <1>3, <1>P, <1>E, <1>O DEF FirstDone, Worker, Hosts
<1>25. CASE Collect
  BY <1>25, <1>0, <1>1, <1>2, <1>3, <1>P, <1>E, <1>O DEF Collect, Worker, Hosts, Recorded
<1>26. CASE CollectTimeout
  BY <1>26, <1>0, <1>1, <1>2, <1>3, <1>P, <1>E, <1>O DEF CollectTimeout, Worker, Hosts, Recorded
<1>27. CASE FinishTerminal
  BY <1>27, <1>0, <1>1, <1>2, <1>3, <1>P, <1>E, <1>O DEF FinishTerminal, Worker, Hosts
<1>28. CASE SendShutdownAck
  BY <1>28, <1>0, <1>1, <1>2, <1>3, <1>P, <1>E, <1>O DEF SendShutdownAck, Worker, Hosts
<1>29. CASE Return
  BY <1>29, <1>0, <1>1, <1>2, <1>3, <1>P, <1>E, <1>O DEF Return, Worker, Hosts, Exit, Gone
<1> QED BY <1>4, <1>5, <1>10, <1>11, <1>12, <1>13, <1>14, <1>15, <1>16, <1>17, <1>18, <1>19, <1>20, <1>21, <1>22, <1>23, <1>24, <1>25, <1>26, <1>27, <1>28, <1>29 DEF RuntimeNext

LEMMA FlowStep ==
    ASSUME Types, Handshake, WorkersRun, Opening, WriterKeeps, Flow, Next PROVE Flow'
<1>1. CASE Host(SessionNext)
  <2>1. UNCHANGED runtimeVars => FrameOfRun' /\ FrameOfSubscription' /\ NoLostWakeup'
    BY DEF runtimeVars, Flow, FrameOfRun, FrameOfSubscription, NoLostWakeup
  <2>2. Gone => FrameOfRun' /\ FrameOfSubscription' /\ NoLostWakeup'
    BY RestIs DEF Gone, Over, FrameOfRun, FrameOfSubscription, NoLostWakeup
  <2>3. FrameOfRun' /\ FrameOfSubscription' /\ NoLostWakeup'
    BY <1>1, <2>1, <2>2 DEF Host
  <2> QED BY <1>1, <2>3, NothingMissedHost DEF Flow
<1>2. CASE ~Killed /\ RuntimeNext /\ UNCHANGED hostVars
  BY <1>2, SlotsStep, NothingMissedRuntime DEF Flow
<1>3. ASSUME NEW torn \in BOOLEAN, ProcessDies(torn) PROVE Flow'
  <2>1. ~slot'.pending /\ ~status'.pending /\ worker'["reader"].at # "running"
    BY <1>3, RestIs DEF ProcessDies, Gone, Over, Worker
  <2> QED BY <2>1 DEF Flow, FrameOfRun, FrameOfSubscription, NoLostWakeup, NoMissedUpdate
<1> QED BY <1>1, <1>2, <1>3 DEF Next

-----------------------------------------------------------------------------
(* The invariant. *)

LEMMA LinkInit == Init => LinkInv
<1> SUFFICES ASSUME Init PROVE LinkInv
  OBVIOUS
<1>0. /\ ses = [main |-> "launch", phase |-> "starting", cancelled |-> FALSE, inflight |-> NoCall, causes |-> {}]
      /\ pending = <<>> /\ call = [c \in Call |-> [at |-> "idle", answer |-> "none"]]
      /\ writer = WriterOff /\ reader = ReaderOff /\ shut = ShutOff /\ told = Startup
  BY DEF Init, SessionInit, WriterOff, ReaderOff, ShutOff
<1>1. /\ run = [at |-> "connect", cancelled |-> FALSE, recorded |-> {}, bad |-> FALSE]
      /\ host = [state |-> Startup, events |-> 0, accepted |-> FALSE]
      /\ slot = Rest /\ status = Rest /\ worker = [w \in Worker |-> [at |-> "off", result |-> "none"]] /\ published = 0
  BY DEF Init, RuntimeInit
<1>2. /\ proc = [at |-> "none", bad |-> FALSE]
      /\ pipe = [host |-> "none", plugin |-> "none", down |-> <<>>, up |-> <<>>, torn |-> FALSE]
  BY DEF Init, PipeInit
<1>3. WriterOff.queue = <<>> /\ WriterOff.at = "off" /\ WriterOff.current = NoCall /\ WriterOff.state = Startup /\ ~WriterOff.accepting
  BY DEF WriterOff
<1>4. Types
  <2>1. HostTypes
    <3>1. ses \in Sessions
      BY <1>0 DEF Sessions, Mains, Phases, Cause
    <3>2. call \in [Call -> Callers_]
      BY <1>0 DEF Callers_
    <3>3. writer \in Writers /\ Len(writer.queue) <= ControlCapacity
      BY <1>0, <1>3, NoMessages, NothingPending, StartupAssumption DEF Writers, WriterOff, Owners
    <3>4. reader \in Readers /\ shut \in Shutdowns
      BY <1>0 DEF ReaderOff, Readers, ShutOff, Shutdowns
    <3> QED BY <3>1, <3>2, <3>3, <3>4, <1>0, NothingPending, StartupAssumption DEF HostTypes
  <2>2. PipeTypes
    BY <1>2, NoMessages DEF PipeTypes, Pipes, Place
  <2>3. RuntimeTypes
    <3>1. run \in Runs
      BY <1>1 DEF Runs, Worker
    <3>2. host \in Hosts
      BY <1>1, StartupAssumption, RuntimeAssumption DEF Hosts
    <3>3. worker \in [Worker -> Workers]
      BY <1>1 DEF Workers
    <3> QED BY <3>1, <3>2, <3>3, <1>1, RestIs, RuntimeAssumption DEF RuntimeTypes
  <2> QED BY <2>1, <2>2, <2>3 DEF Types
<1>5. Handshake
  BY <1>0, <1>1, <1>2, <1>3 DEF Handshake, Unmet, Killed, Unwatched
<1>6. WorkersRun
  BY <1>1 DEF WorkersRun
<1>7. Opening
  BY <1>0, <1>3 DEF Opening, ReaderOff
<1>8. Calls
  <2>1. PendingCalls
    BY <1>0 DEF PendingCalls, IsInjective
  <2>2. WriterCalls
    BY <1>0, <1>3, CallAssumption DEF WriterCalls, Queued, IsInjective
  <2>3. ReplayedCall
    BY <1>0, CallAssumption DEF ReplayedCall
  <2>4. AnsweredCalls
    BY <1>0 DEF AnsweredCalls
  <2> QED BY <2>1, <2>2, <2>3, <2>4 DEF Calls
<1>9. WriterKeeps
  BY <1>0, <1>3 DEF WriterKeeps
<1>10. Ending
  BY <1>0, <1>3 DEF Ending, ShutOff
<1>11. Acknowledged
  <2>1. ~ShutdownKnown
    BY <1>1, <1>2, CarriesNone DEF ShutdownKnown, Worker
  <2>2. ~SendingShutdown /\ AckIsLast
    BY <1>0, <1>2, <1>3 DEF SendingShutdown, AckIsLast
  <2>3. AckEndsAll /\ AckNotLost
    BY <1>0 DEF AckEndsAll, AckNotLost, AckRead, ShutOff, ReaderOff
  <2> QED BY <2>1, <2>2, <2>3 DEF Acknowledged
<1>12. Blamed
  BY <1>0, <1>2 DEF Blamed, HonestPluginNotBlamed, ReaderOff
<1>13. Flow
  BY <1>1, RestIs DEF Flow, FrameOfRun, FrameOfSubscription, NoLostWakeup, NoMissedUpdate, Worker
<1> QED BY <1>4, <1>5, <1>6, <1>7, <1>8, <1>9, <1>10, <1>11, <1>12, <1>13 DEF LinkInv

LEMMA LinkKept == LinkInv /\ UNCHANGED vars => LinkInv'
<1> SUFFICES ASSUME LinkInv, UNCHANGED vars PROVE LinkInv'
  OBVIOUS
<1>1. UNCHANGED <<ses, pending, call, writer, reader, shut, told>> /\ UNCHANGED <<run, host, slot, status, worker, published>> /\ UNCHANGED <<proc, pipe>>
  BY DEF vars, hostVars, runtimeVars
<1>2. Types'
  BY <1>1 DEF LinkInv, Types, HostTypes, PipeTypes, RuntimeTypes
<1>3. Handshake' /\ WorkersRun'
  BY <1>1 DEF LinkInv, Handshake, Unmet, Initializing, Started_, NoHandshake, Killed, Unwatched, WorkersRun
<1>4. Opening' /\ Calls'
  BY <1>1 DEF LinkInv, Opening, Unasked, Calls, PendingCalls, WriterCalls, Queued, ReplayedCall, AnsweredCalls
<1>5. WriterKeeps' /\ Ending'
  BY <1>1 DEF LinkInv, WriterKeeps, Ending, Exited
<1>6. Acknowledged' /\ Blamed'
  BY <1>1 DEF LinkInv, Acknowledged, ShutdownKnown, SendingShutdown, Noted, AckIsLast, AckEndsAll, AckRead, AckNotLost, Blamed, HonestPluginNotBlamed
<1>7. Flow'
  BY <1>1 DEF LinkInv, Flow, FrameOfRun, FrameOfSubscription, NoLostWakeup, NoMissedUpdate, InFlight, Alive
<1> QED BY <1>2, <1>3, <1>4, <1>5, <1>6, <1>7 DEF LinkInv

LEMMA LinkStep == LinkInv /\ [Next]_vars => LinkInv'
<1>1. LinkInv /\ Next => LinkInv'
  <2> SUFFICES ASSUME LinkInv, Next PROVE LinkInv'
    OBVIOUS
  <2> USE DEF LinkInv
  <2>1. Types' /\ Handshake' /\ WorkersRun' /\ Opening' /\ WriterKeeps'
    BY TypesStep_, HandshakeStep, WorkersRunStep, OpeningStep, WriterKeepsStep
  <2>2. Calls'
    BY <2>1, CallsStep
  <2>3. Ending' /\ Acknowledged' /\ Blamed' /\ Flow'
    BY EndingStep, AcknowledgedStep, BlamedStep, FlowStep
  <2> QED BY <2>1, <2>2, <2>3
<1> QED BY <1>1, LinkKept

\* Every variable of the session, of the runtime and of the pipe between them
\* has its type, and what the two ends know of one another agrees: the invariant
\* that the others follow from (session.go, control.go, runtime.go).
THEOREM LinkIsInvariant == Spec => []LinkInv
BY LinkInit, LinkStep, PTL DEF Spec

LEMMA TypesAreTypes == Types => TypeOK
<1> SUFFICES ASSUME Types PROVE TypeOK
  OBVIOUS
<1>1. \A S : \A s \in Seq(S) : ToSet(s) \subseteq S
  <2>1. \A S : \A s \in Seq(S) : \A i \in DOMAIN s : s[i] \in S
    OBVIOUS
  <2> QED BY <2>1 DEF ToSet
<1>2. ses.main \in Mains /\ ses.phase \in Phases /\ ses.causes \subseteq Cause
  BY DEF Types, HostTypes, Sessions
<1>3. Len(pending) <= ControlCapacity /\ ToSet(pending) \subseteq Call /\ Len(writer.queue) <= ControlCapacity
  BY <1>1 DEF Types, HostTypes
<1>4. \A c \in Call : call[c].at \in {"idle", "pending", "calling", "queued", "replied", "done"}
  BY DEF Types, HostTypes, Callers_
<1>5. ToSet(writer.queue) \subseteq Call \cup {Main}
  <2>1. writer.queue \in Seq(Owners)
    BY DEF Types, HostTypes, Writers
  <2> QED BY <2>1, <1>1 DEF Owners
<1>6. {told, writer.state, host.state} \subseteq ControlState /\ host.events \in 0 .. EventCapacity /\ published \in 0 .. MaxPublish
  BY DEF Types, HostTypes, RuntimeTypes, Writers, Hosts
<1>7. {pipe.host, pipe.plugin} \subseteq Place
  BY DEF Types, PipeTypes, Pipes
<1> QED BY <1>2, <1>3, <1>4, <1>5, <1>6, <1>7 DEF TypeOK, Mains, Phases

\* What the runtime holds back for its writer belongs to the subscription in
\* force and has its wakeup, whatever cleared or replaced it before
\* (runtime.go applySubscription, applyActive; frame.go Store, Load).
THEOREM PublicationsAlwaysFlow == Spec => []PublicationsFlow
<1>1. LinkInv => PublicationsFlow
  BY TypesAreTypes DEF LinkInv, Flow, PublicationsFlow
<1> QED BY <1>1, LinkIsInvariant, PTL

\* As long as the plugin reads, what it has and what is in flight are exactly
\* what the host has handed over: no update is missed, doubled or reordered
\* (session.go replayPendingControls, control.go run, runtime.go readControls).
THEOREM NoUpdateEverMissed == Spec => []NoMissedUpdate
<1>1. LinkInv => NoMissedUpdate
  BY DEF LinkInv, Flow
<1> QED BY <1>1, LinkIsInvariant, PTL

\* A plugin that uses the runtime is blamed for no more than a message that was
\* cut short, and no acknowledgement falls between the two atomics (session.go
\* readRuntime and shutdownProcess).
THEOREM HandshakeAlwaysFair == Spec => []HandshakeIsFair
<1>1. LinkInv => HandshakeIsFair
  BY DEF LinkInv, Blamed, Acknowledged, HandshakeIsFair
<1> QED BY <1>1, LinkIsInvariant, PTL

\* A session that ended without an error leaves no frame to come, and a process
\* that outlives its session is in the result (session.go shutdownProcess,
\* cleanupStartedProcess, completeReplayControl).
THEOREM EndAlwaysAccounted == Spec => []EndIsAccounted
<1>1. LinkInv => EndIsAccounted
  BY DEF LinkInv, Ending, EndIsAccounted, CleanEndIsQuiet, NoUnseenOrphan
<1> QED BY <1>1, LinkIsInvariant, PTL

-----------------------------------------------------------------------------
(* The session keeps the contract of the supervisor. *)

\* A step of the contract, or none.
Keeps == Contract!ContractNext \/ UNCHANGED Contract!contractVars

HeardSame(c) == Heard(c)' = Heard(c)
HeardRefused(c) == Heard(c) \in {"waiting", "told"} /\ Heard(c)' = "refused"
HeardConfirmed(c) == Heard(c) = "told" /\ Heard(c)' = "ok"

LEMMA KeepsStill ==
    ASSUME Stage' = Stage, told' = told, \A c \in Call : HeardSame(c) PROVE Keeps
BY DEF Keeps, HeardSame, Contract!contractVars

\* Calls that were waiting are refused, and one that was told may be answered.
LEMMA KeepsRefused ==
    ASSUME Stage' = Stage, told' = told, NEW d \in Call,
           \A c \in Call : HeardSame(c) \/ HeardRefused(c) \/ (c = d /\ HeardConfirmed(c))
    PROVE  Keeps
<1> DEFINE cs == {c \in Call : HeardRefused(c)}
<1>1. CASE \A c \in Call : HeardSame(c)
  BY <1>1, KeepsStill
<1>2. ASSUME NEW b \in Call, HeardRefused(b) \/ (b = d /\ HeardConfirmed(b)), HeardConfirmed(d) => b = d PROVE Keeps
  <2>1. cs \in SUBSET Contract!Waiting /\ b \in Contract!Waiting
    BY <1>2 DEF Contract!Waiting, HeardRefused, HeardConfirmed
  <2>2. ASSUME NEW c \in Call PROVE Heard(c)' = IF c = b /\ Heard(b) = "told" /\ b \notin cs THEN "ok" ELSE IF c \in cs THEN "refused" ELSE Heard(c)
    BY <1>2 DEF HeardSame, HeardRefused, HeardConfirmed
  <2>3. [c \in Call |-> Heard(c)]' = [c \in Call |-> IF c = b /\ [e \in Call |-> Heard(e)][b] = "told" /\ b \notin cs THEN "ok" ELSE Contract!Refused(cs)[c]]
    BY <2>2 DEF Contract!Refused
  <2> HIDE DEF cs
  <2>4. Contract!Refuse
    BY <2>1, <2>3 DEF Contract!Refuse
  <2> QED BY <2>4 DEF Keeps, Contract!ContractNext
<1>3. \A c \in Call : HeardSame(c) \/ HeardRefused(c) \/ (c = d /\ HeardConfirmed(c))
  OBVIOUS
<1> QED BY <1>1, <1>2, <1>3

\* The session ends.
LEMMA KeepsEnded ==
    ASSUME Stage # "ended", Stage' = "ended", told' = told, \A c \in Call : HeardSame(c) \/ HeardRefused(c) \/ HeardConfirmed(c) PROVE Keeps
<1> DEFINE cs == {c \in Call : HeardRefused(c)}
           oks == {c \in Call : HeardConfirmed(c)}
<1>1. cs \in SUBSET Contract!Waiting /\ oks \in SUBSET {c \in Contract!Waiting : [e \in Call |-> Heard(e)][c] = "told"}
  BY DEF Contract!Waiting, HeardRefused, HeardConfirmed
<1>2. ASSUME NEW c \in Call PROVE Heard(c)' = IF c \in oks \ cs THEN "ok" ELSE IF c \in cs THEN "refused" ELSE Heard(c)
  BY DEF HeardSame, HeardRefused, HeardConfirmed
<1>3. [c \in Call |-> Heard(c)]' = [c \in Call |-> IF c \in oks \ cs THEN "ok" ELSE Contract!Refused(cs)[c]]
  BY <1>2 DEF Contract!Refused
<1> HIDE DEF cs, oks
<1>4. Contract!End
  BY <1>1, <1>3 DEF Contract!End
<1> QED BY <1>4 DEF Keeps, Contract!ContractNext

\* One call is heard of: it is asked, told, found to be in force, or answered.
LEMMA KeepsOne ==
    ASSUME NEW c \in Call, Stage' = Stage, \A d \in Call \ {c} : HeardSame(d),
           \/ told' = told /\ Heard(c) = "idle" /\ (Heard(c)' = "refused" \/ (Heard(c)' = "waiting" /\ Stage = "open"))
           \/ /\ Heard(c) = "waiting" /\ Heard(c)' \in {"told", "ok"}
              /\ \/ Stage # "ended" /\ Contract!Rises(told, Request[c]) /\ told' = [told EXCEPT ![Request[c].kind] = Request[c].value]
                 \/ told' = told /\ Contract!InForce(told, Request[c])
    PROVE  Keeps
<1> DEFINE H == [d \in Call |-> Heard(d)]
<1>1. [d \in Call |-> Heard(d)]' = [H EXCEPT ![c] = Heard(c)']
  BY DEF HeardSame
<1>2. H[c] = Heard(c)
  OBVIOUS
<1>3. CASE told' = told /\ Heard(c) = "idle" /\ (Heard(c)' = "refused" \/ (Heard(c)' = "waiting" /\ Stage = "open"))
  <2>1. Contract!Ask(c)
    BY <1>1, <1>3 DEF Contract!Ask
  <2> QED BY <2>1 DEF Keeps, Contract!ContractNext
<1>4. CASE Heard(c) = "waiting" /\ Heard(c)' \in {"told", "ok"} /\ Stage # "ended" /\ Contract!Rises(told, Request[c]) /\ told' = [told EXCEPT ![Request[c].kind] = Request[c].value]
  <2>1. Contract!Tell(c)
    BY <1>1, <1>4 DEF Contract!Tell
  <2> QED BY <2>1 DEF Keeps, Contract!ContractNext
<1>5. CASE Heard(c) = "waiting" /\ Heard(c)' \in {"told", "ok"} /\ told' = told /\ Contract!InForce(told, Request[c])
  <2>1. Contract!Repeat(c)
    BY <1>1, <1>5 DEF Contract!Repeat
  <2> QED BY <2>1 DEF Keeps, Contract!ContractNext
<1> QED BY <1>3, <1>4, <1>5

\* How what a caller hears follows from what was done to its call.
LEMMA HeardIs ==
    ASSUME HostTypes, AnsweredCalls, NEW c \in Call
    PROVE  /\ call'[c] = call[c] => HeardSame(c)
           /\ Settles(c) => HeardSame(c) \/ HeardRefused(c)
           /\ call[c].at \in {"pending", "calling", "queued"} => Heard(c) = "waiting"
           /\ call'[c].at = "done" => Heard(c)' = call'[c].answer
           /\ call'[c].at = "replied" /\ call'[c].answer = "ok" => Heard(c)' = "told"
           /\ call'[c].at \in {"pending", "calling", "queued"} \/ (call'[c].at = "replied" /\ call'[c].answer = "refused") => Heard(c)' = "waiting"
           /\ call[c].at = "replied" => (call[c].answer = "ok" /\ Heard(c) = "told") \/ (call[c].answer = "refused" /\ Heard(c) = "waiting")
<1>1. call[c] \in Callers_
  BY DEF HostTypes
<1> QED BY <1>1 DEF AnsweredCalls, HeardSame, HeardRefused, Settles, Heard, Callers_

LEMMA StageKept == ASSUME ses'.main = "ended" <=> ses.main = "ended", ses'.cancelled = ses.cancelled PROVE Stage' = Stage
BY DEF Stage

\* The session's goroutine.
LEMMA KeepsMain ==
    ASSUME HostTypes, Calls, Ending, SessionMain \/ SessionReader \/ Stop PROVE Keeps
<1>0. ses \in Sessions /\ PendingCalls /\ AnsweredCalls /\ ReplayedCall /\ call \in [Call -> Callers_]
  BY DEF HostTypes, Calls
<1>1. ASSUME call' = call, told' = told, Stage' = Stage PROVE Keeps
  BY <1>0, <1>1, HeardIs, KeepsStill
<1>2. ASSUME \A c \in Call : Settles(c), told' = told, Stage' = Stage PROVE Keeps
  <2>1. \A c \in Call : HeardSame(c) \/ HeardRefused(c)
    BY <1>0, <1>2, HeardIs
  <2>2. CASE Call = {}
    BY <1>2, <2>2, KeepsStill
  <2>3. CASE Call # {}
    <3> PICK d \in Call : TRUE
      BY <2>3
    <3> QED BY <1>2, <2>1, KeepsRefused
  <2> QED BY <2>2, <2>3
<1>3. ASSUME NEW causes, End(causes), told' = told, ses.main # "ended" PROVE Keeps
  <2>1. (\A c \in Call : Settles(c)) /\ ses'.main = "ended"
    BY <1>0, <1>3, EndSettles
  <2>2. \A c \in Call : HeardSame(c) \/ HeardRefused(c)
    BY <1>0, <2>1, HeardIs
  <2>3. Stage # "ended" /\ Stage' = "ended"
    BY <1>3, <2>1 DEF Stage
  <2> QED BY <1>3, <2>2, <2>3, KeepsEnded
<1>4. ASSUME NEW causes, Finish(causes), told' = told, ses.main # "ended" PROVE Keeps
  <2>1. CASE End(causes)
    BY <1>3, <1>4, <2>1
  <2>2. CASE ses' = [ses EXCEPT !.main = "complete", !.causes = causes] /\ UNCHANGED <<call, pending>>
    <3>1. Stage' = Stage
      BY <1>0, <1>4, <2>2 DEF Stage, Sessions
    <3> QED BY <3>1, <2>2, <1>1, <1>4
  <2> QED BY <1>4, <2>1, <2>2 DEF Finish
<1>5. CASE Stop
  <2>1. call' = call /\ told' = told /\ ~ses.cancelled /\ ses.main # "ended" /\ ses'.cancelled /\ ses'.main = ses.main
    BY <1>5, <1>0 DEF Stop, Ending, Sessions
  <2>2. \A c \in Call : HeardSame(c)
    BY <1>0, <2>1, HeardIs
  <2>3. Stage = "open" /\ Stage' = "stopping" /\ [c \in Call |-> Heard(c)]' = [c \in Call |-> Heard(c)]
    BY <2>1, <2>2 DEF Stage, HeardSame
  <2>4. Contract!StopAsked
    BY <2>1, <2>3 DEF Contract!StopAsked
  <2> QED BY <2>4 DEF Keeps, Contract!ContractNext
<1>6. CASE CompleteReplayControl
  <2>1. ses.main = "complete" /\ told' = told /\ ses'.main = "ended" /\ ses.inflight \in Call
    BY <1>6, <1>0 DEF CompleteReplayControl, Ended, Sessions, ReplayedCall
  <2> PICK d \in Call : d = ses.inflight
    BY <2>1
  <2>2. PICK answer \in {"refused"} \cup (IF call[d].at = "replied" THEN {call[d].answer} ELSE {}) : call' = Answer(d, answer)
    BY <1>6 DEF CompleteReplayControl
  <2>3. call'[d].at = "done" /\ call'[d].answer = answer /\ \A c \in Call : c # d => call'[c] = call[c]
    BY <2>1, <2>2, <1>0 DEF Answer, Callers_
  <2>4. call[d].at \in {"queued", "replied"}
    BY <1>6 DEF CompleteReplayControl
  <2>5. Heard(d)' = answer
    BY <2>1, <2>3, <1>0, HeardIs
  <2>6. HeardRefused(d) \/ HeardConfirmed(d)
    <3>1. CASE call[d].at = "queued"
      BY <3>1, <2>1, <2>2, <2>5, <1>0, HeardIs DEF HeardRefused
    <3>2. CASE call[d].at = "replied"
      <4>1. (call[d].answer = "ok" /\ Heard(d) = "told") \/ (call[d].answer = "refused" /\ Heard(d) = "waiting")
        BY <3>2, <2>1, <1>0, HeardIs
      <4> QED BY <4>1, <3>2, <2>2, <2>5 DEF HeardRefused, HeardConfirmed
    <3> QED BY <3>1, <3>2, <2>4
  <2>7. \A c \in Call : HeardSame(c) \/ HeardRefused(c) \/ HeardConfirmed(c)
    BY <2>3, <2>6, <1>0, HeardIs
  <2>8. Stage # "ended" /\ Stage' = "ended"
    BY <2>1 DEF Stage
  <2> QED BY <2>1, <2>7, <2>8, KeepsEnded
<1>7. CASE ReplayAnswered
  <2>1. ses.main = "replaying" /\ told' = told /\ ses.inflight \in Call /\ call[ses.inflight].at = "replied" /\ call[ses.inflight] \in Callers_
    BY <1>7, <1>0 DEF ReplayAnswered, ReplayedCall
  <2>2. Stage' = Stage
    <3>1. CASE writer.failed
      BY <3>1, <1>7, <1>0 DEF ReplayAnswered, ReplayStops, Stage, Sessions
    <3>2. CASE ~writer.failed
      BY <3>2, <1>7, <1>0 DEF ReplayAnswered, Stage, Sessions
    <3> QED BY <3>1, <3>2
  <2> PICK d \in Call : d = ses.inflight
    BY <2>1
  <2>3. call'[d] = [call[d] EXCEPT !.at = "done"] /\ \A c \in Call : c # d => Settles(c)
    <3>1. CASE writer.failed
      <4>1. ReplayStops({"retry"}, {d})
        BY <3>1, <1>7 DEF ReplayAnswered
      <4>2. \A c \in ToSet(pending) : call[c].at = "pending"
        BY <1>0 DEF PendingCalls, ToSet
      <4> QED BY <4>1, <4>2, <2>1, <1>0 DEF ReplayStops, Settles, Callers_
    <3>2. CASE ~writer.failed
      BY <3>2, <1>7, <1>0, <2>1 DEF ReplayAnswered, Settles
    <3> QED BY <3>1, <3>2
  <2>4. Heard(d)' = call[d].answer
    <3>1. call'[d].at = "done" /\ call'[d].answer = call[d].answer
      BY <2>1, <2>3 DEF Callers_
    <3> QED BY <3>1, <2>1, <1>0, HeardIs
  <2>5. HeardRefused(d) \/ HeardConfirmed(d)
    <3>1. (call[d].answer = "ok" /\ Heard(d) = "told") \/ (call[d].answer = "refused" /\ Heard(d) = "waiting")
      BY <2>1, <1>0, HeardIs
    <3> QED BY <3>1, <2>4 DEF HeardRefused, HeardConfirmed
  <2>6. \A c \in Call : HeardSame(c) \/ HeardRefused(c) \/ (c = d /\ HeardConfirmed(c))
    BY <2>3, <2>5, <1>0, HeardIs
  <2> QED BY <2>1, <2>2, <2>6, KeepsRefused
<1>8. CASE ReplayPendingControls
  <2>1. told' = told /\ ses.main = "replay"
    BY <1>8 DEF ReplayPendingControls
  <2>2. CASE ses.phase # "replaying"
    <3>1. Stage' = Stage
      BY <2>1, <2>2, <1>8, <1>0 DEF ReplayPendingControls, BeginShutdown, Stage, Sessions
    <3>2. call' = AnswerAll(ToSet(pending), "refused")
      BY <2>2, <1>8 DEF ReplayPendingControls
    <3> QED BY <2>1, <3>1, <3>2, <1>0, <1>2, PendingRefused
  <2>3. CASE ses.phase = "replaying" /\ pending = <<>>
    <3>1. Stage' = Stage /\ call' = call
      BY <2>1, <2>3, <1>8, <1>0 DEF ReplayPendingControls, Stage, Sessions
    <3> QED BY <2>1, <3>1, <1>1
  <2>4. CASE ses.phase = "replaying" /\ pending # <<>>
    <3>1. Stage' = Stage /\ call' = [call EXCEPT ![Head(pending)].at = "calling"]
      BY <2>1, <2>4, <1>8, <1>0 DEF ReplayPendingControls, Stage, Sessions
    <3>2. Head(pending) \in Call /\ call[Head(pending)].at = "pending"
      <4>1. 1 \in DOMAIN pending /\ Head(pending) = pending[1] /\ Head(pending) \in Call
        BY <2>4 DEF HostTypes
      <4> QED BY <4>1, <1>0 DEF PendingCalls
    <3> PICK d \in Call : d = Head(pending)
      BY <3>2
    <3>3. call'[d].at = "calling" /\ \A c \in Call : c # d => call'[c] = call[c]
      BY <3>1, <3>2, <1>0 DEF Callers_
    <3>4. Heard(d) = "waiting" /\ Heard(d)' = "waiting"
      BY <3>2, <3>3, <1>0, HeardIs
    <3>5. \A c \in Call : HeardSame(c)
      BY <3>3, <3>4, <1>0, HeardIs DEF HeardSame
    <3> QED BY <2>1, <3>1, <3>5, KeepsStill
  <2> QED BY <2>2, <2>3, <2>4
<1>9. ASSUME NEW causes, ReplayStops(causes, {}), ses.main # "ended", told' = told PROVE Keeps
  <2>1. \A c \in Call : Settles(c)
    BY <1>0, <1>9, StopSettles
  <2>2. Stage' = Stage
    BY <1>0, <1>9 DEF ReplayStops, Stage, Sessions
  <2> QED BY <1>2, <1>9, <2>1, <2>2
<1>10. CASE Launch
  <2>1. call' = call /\ told' = told
    BY <1>10 DEF Launch
  <2>2. Stage' = Stage
    BY <1>10, <1>0 DEF Launch, Stage, Sessions
  <2> QED BY <2>1, <2>2, <1>1
<1>11. CASE Accept
  <2>1. call' = call /\ told' = told
    BY <1>11 DEF Accept
  <2>2. Stage' = Stage
    BY <1>11, <1>0 DEF Accept, Stage, Sessions
  <2> QED BY <2>1, <2>2, <1>1
<1>12. CASE StartupFails
  <2>1. call' = call /\ told' = told
    BY <1>12 DEF StartupFails
  <2>2. Stage' = Stage
    BY <1>12, <1>0 DEF StartupFails, Stage, Sessions
  <2> QED BY <2>1, <2>2, <1>1
<1>13. CASE HelloReceived
  <2>1. call' = call /\ told' = told
    BY <1>13 DEF HelloReceived
  <2>2. Stage' = Stage
    BY <1>13, <1>0 DEF HelloReceived, Stage, Sessions
  <2> QED BY <2>1, <2>2, <1>1
<1>14. CASE RuntimeEnds
  <2>1. call' = call /\ told' = told
    BY <1>14 DEF RuntimeEnds
  <2>2. Stage' = Stage
    BY <1>14, <1>0 DEF RuntimeEnds, Stage, Sessions, BeginShutdown
  <2> QED BY <2>1, <2>2, <1>1
<1>15. CASE RuntimeExit
  <2>1. call' = call /\ told' = told
    BY <1>15 DEF RuntimeExit
  <2>2. Stage' = Stage
    BY <1>15, <1>0 DEF RuntimeExit, Stage, Sessions
  <2> QED BY <2>1, <2>2, <1>1
<1>16. CASE DrainReader
  <2>1. call' = call /\ told' = told
    BY <1>16 DEF DrainReader
  <2>2. Stage' = Stage
    BY <1>16, <1>0 DEF DrainReader, Stage, Sessions
  <2> QED BY <2>1, <2>2, <1>1
<1>17. CASE ShutdownSent
  <2>1. call' = call /\ told' = told
    BY <1>17 DEF ShutdownSent
  <2>2. Stage' = Stage
    BY <1>17, <1>0 DEF ShutdownSent, Stage, Sessions
  <2> QED BY <2>1, <2>2, <1>1
<1>18. CASE ShutdownWaits
  <2>1. call' = call /\ told' = told
    BY <1>18 DEF ShutdownWaits
  <2>2. Stage' = Stage
    BY <1>18, <1>0 DEF ShutdownWaits, Stage, Sessions
  <2> QED BY <2>1, <2>2, <1>1
<1>19. CASE ses' = ses /\ call' = call /\ told' = told
  <2>1. Stage' = Stage
    BY <1>19 DEF Stage
  <2> QED BY <1>19, <2>1, <1>1
<1>20. CASE LaunchFails
  <2>1. (\E causes : End(causes)) /\ told' = told /\ ses.main # "ended"
    BY <1>20 DEF LaunchFails
  <2> QED BY <2>1, <1>3
<1>21. CASE CleanupStartedProcess
  <2>1. (\E causes : End(causes)) /\ told' = told /\ ses.main # "ended"
    BY <1>21 DEF CleanupStartedProcess
  <2> QED BY <2>1, <1>3
<1>22. CASE StopWriter
  <2>1. (\E causes : End(causes)) /\ told' = told /\ ses.main # "ended"
    BY <1>22 DEF StopWriter
  <2> QED BY <2>1, <1>3
<1>23. CASE ShutdownDone
  <2>1. (\E causes : Finish(causes)) /\ told' = told /\ ses.main # "ended"
    BY <1>23 DEF ShutdownDone
  <2> QED BY <2>1, <1>4
<1>24. CASE KillTimeout
  <2>1. (\E causes : Finish(causes)) /\ told' = told /\ ses.main # "ended"
    BY <1>24 DEF KillTimeout
  <2> QED BY <2>1, <1>4
<1>25. CASE GracefulTimeout
  <2>1. told' = told /\ ses.main = "shutdown"
    BY <1>25 DEF GracefulTimeout
  <2>2. CASE shut.exited
    <3>1. \E causes : Finish(causes)
      BY <1>25, <2>2 DEF GracefulTimeout
    <3> QED BY <2>1, <3>1, <1>4
  <2>3. CASE ~shut.exited
    <3>1. call' = call /\ \E causes : ses' = [ses EXCEPT !.main = "kill", !.causes = causes]
      BY <1>25, <2>3 DEF GracefulTimeout
    <3>2. Stage' = Stage
      BY <2>1, <3>1, <1>0 DEF Stage, Sessions
    <3> QED BY <2>1, <3>1, <3>2, <1>1
  <2> QED BY <2>2, <2>3
<1>26. CASE ReplayInterrupted
  <2>1. (\E causes : ReplayStops(causes, {})) /\ told' = told /\ ses.main # "ended"
    BY <1>26 DEF ReplayInterrupted
  <2> QED BY <2>1, <1>9
<1>27. CASE ReplayExit
  <2>1. call' = AnswerAll(ToSet(pending), "refused") /\ told' = told
    BY <1>27 DEF ReplayExit
  <2>2. Stage' = Stage
    BY <1>27, <1>0 DEF ReplayExit, Stage, Sessions
  <2> QED BY <2>1, <2>2, <1>0, <1>2, PendingRefused
<1>28. CASE ReadyReceived
  <2>1. told' = told /\ (call' = call \/ call' = AnswerAll(ToSet(pending), "refused"))
    BY <1>28 DEF ReadyReceived
  <2>2. Stage' = Stage
    BY <1>28, <1>0 DEF ReadyReceived, Stage, Sessions
  <2> QED BY <2>1, <2>2, <1>0, <1>1, <1>2, PendingRefused
<1> QED BY <1>5, <1>6, <1>7, <1>8, <1>10, <1>11, <1>12, <1>13, <1>14, <1>15, <1>16, <1>17, <1>18, <1>19, <1>20, <1>21, <1>22, <1>23, <1>24, <1>25, <1>26, <1>27, <1>28 DEF SessionMain, SessionReader, ReaderReceives, Submit, QueueAck, CheckAck, ReaderFails

LEMMA StopsRefuses ==
    ASSUME HostTypes, Calls, NEW answer, NEW failed, writer.current # Main => answer = "refused", Stops(writer.current, answer, failed), NEW c \in Call
    PROVE  HeardSame(c) \/ HeardRefused(c)
<1>0. call \in [Call -> Callers_] /\ call[c] \in Callers_ /\ AnsweredCalls /\ WriterCalls
  BY DEF HostTypes, Calls
<1>1. (c \in ToSet(writer.queue) \/ c = writer.current) => call[c].at \in {"queued", "done"}
  BY <1>0 DEF WriterCalls, Queued, ToSet
<1>2. call'[c] = call[c] \/
      /\ c \in ToSet(writer.queue) \/ (writer.current # Main /\ c = writer.current)
      /\ call[c].at # "done"
      /\ call'[c] = [call[c] EXCEPT !.at = IF c = ses.inflight THEN "replied" ELSE "done", !.answer = IF c = writer.current THEN answer ELSE "refused"]
  BY DEF Stops
<1>3. c = writer.current => answer = "refused"
  BY CallAssumption DEF Main
<1>4. call'[c] = call[c] \/ (call[c].at = "queued" /\ call'[c].answer = "refused" /\ call'[c].at \in {"replied", "done"})
  BY <1>0, <1>1, <1>2, <1>3 DEF Callers_
<1>5. CASE call'[c] = call[c]
  BY <1>5, <1>0, HeardIs
<1>6. CASE call[c].at = "queued" /\ call'[c].answer = "refused" /\ call'[c].at = "replied"
  <2>1. Heard(c) = "waiting" /\ Heard(c)' = "waiting"
    BY <1>6, <1>0, HeardIs
  <2> QED BY <2>1 DEF HeardSame
<1>7. CASE call[c].at = "queued" /\ call'[c].answer = "refused" /\ call'[c].at = "done"
  <2>1. Heard(c) = "waiting" /\ Heard(c)' = "refused"
    BY <1>7, <1>0, HeardIs
  <2> QED BY <2>1 DEF HeardRefused
<1> QED BY <1>4, <1>5, <1>6, <1>7

\* The reply to one call.
LEMMA RepliedIs ==
    ASSUME HostTypes, Calls, NEW c \in Call, call[c].at \in {"calling", "queued"}, NEW a \in {"ok", "refused"}, call' = Replied(c, a)
    PROVE  /\ \A d \in Call \ {c} : HeardSame(d)
           /\ Heard(c) = "waiting"
           /\ a = "ok" => Heard(c)' \in {"told", "ok"}
           /\ a = "refused" => Heard(c)' \in {"waiting", "refused"}
<1>0. call \in [Call -> Callers_] /\ AnsweredCalls /\ ReplayedCall
  BY DEF HostTypes, Calls
<1>1. /\ \A d \in Call : d # c => call'[d] = call[d]
      /\ call'[c].answer = a /\ call'[c].at \in {"replied", "done"}
  BY <1>0, ReplyIs
<1>2. Heard(c)' = IF call'[c].at = "replied" /\ a = "ok" THEN "told" ELSE IF call'[c].at = "done" THEN a ELSE "waiting"
  BY <1>0, <1>1, HeardIs
<1> QED BY <1>0, <1>1, <1>2, HeardIs

\* The callers and the writer.
LEMMA KeepsWriter ==
    ASSUME HostTypes, Calls, Opening, WriterKeeps, Ending, SessionWriter PROVE Keeps
<1>0. writer \in Writers /\ AnsweredCalls /\ WriterCalls /\ ReplayedCall /\ call \in [Call -> Callers_] /\ told \in ControlState
  BY DEF HostTypes, Calls
<1>S. ses' = ses => Stage' = Stage
  BY DEF Stage
<1>1. ASSUME call' = call, told' = told, ses' = ses PROVE Keeps
  BY <1>0, <1>1, <1>S, HeardIs, KeepsStill
<1>2. ASSUME NEW c \in Call, call[c].at \in {"calling", "queued"}, call' = Replied(c, "refused"), told' = told, ses' = ses PROVE Keeps
  <2>1. (\A d \in Call \ {c} : HeardSame(d)) /\ Heard(c) = "waiting" /\ Heard(c)' \in {"waiting", "refused"}
    BY <1>2, RepliedIs
  <2>2. \A d \in Call : HeardSame(d) \/ HeardRefused(d)
    BY <2>1 DEF HeardSame, HeardRefused
  <2> QED BY <1>2, <1>S, <2>2, KeepsRefused
<1>3. ASSUME NEW answer, NEW failed, writer.current # Main => answer = "refused", Stops(writer.current, answer, failed), told' = told, ses' = ses PROVE Keeps
  <2>1. \A c \in Call : HeardSame(c) \/ HeardRefused(c)
    BY <1>3, StopsRefuses
  <2>2. CASE Call = {}
    BY <1>3, <1>S, <2>2, KeepsStill
  <2>3. CASE Call # {}
    <3> PICK d \in Call : TRUE
      BY <2>3
    <3> QED BY <1>3, <1>S, <2>1, KeepsRefused
  <2> QED BY <2>2, <2>3
<1>4. ASSUME NEW c \in Call, WriterControl(c) PROVE Keeps
  <2>1. call[c].at = "calling" /\ told' = told /\ ses' = ses
    BY <1>4 DEF WriterControl
  <2>2. CASE Enqueued(c) = "queued"
    <3>1. call' = [call EXCEPT ![c].at = "queued"]
      BY <1>4, <2>2 DEF WriterControl
    <3>2. call'[c].at = "queued" /\ \A d \in Call : d # c => call'[d] = call[d]
      BY <3>1, <1>0 DEF Callers_
    <3>3. Heard(c) = "waiting" /\ Heard(c)' = "waiting"
      BY <2>1, <3>2, <1>0, HeardIs
    <3>4. \A d \in Call : HeardSame(d)
      BY <3>2, <3>3, <1>0, HeardIs DEF HeardSame
    <3> QED BY <2>1, <3>4, <1>S, KeepsStill
  <2>3. CASE Enqueued(c) # "queued"
    BY <1>4, <1>2, <2>1, <2>3 DEF WriterControl
  <2> QED BY <2>2, <2>3
<1>5. CASE WriterShutdown
  BY <1>5, <1>1 DEF WriterShutdown
<1>6. CASE WriterTakes
  <2>1. told' = told /\ ses' = ses /\ writer.state = told /\ writer.queue # <<>>
    BY <1>6 DEF WriterTakes, WriterKeeps
  <2>2. Head(writer.queue) \in Owners /\ 1 \in DOMAIN writer.queue /\ writer.queue[1] = Head(writer.queue)
    BY <2>1, <1>0, QueueMoves DEF Writers
  <2>3. CASE Head(writer.queue) = Main \/ Rises(told, Request[Head(writer.queue)])
    <3>1. call' = call
      BY <1>6, <2>1, <2>3 DEF WriterTakes
    <3> QED BY <2>1, <3>1, <1>1
  <2>4. CASE Head(writer.queue) # Main /\ ~Rises(told, Request[Head(writer.queue)])
    <3> PICK c \in Call : c = Head(writer.queue)
      BY <2>2, <2>4 DEF Owners
    <3>1. call' = Replied(c, IF Regresses(told, Request[c]) THEN "refused" ELSE "ok")
      BY <1>6, <2>1, <2>4 DEF WriterTakes
    <3>2. call[c].at \in {"queued", "done"}
      BY <2>2, <1>0 DEF WriterCalls, Queued
    <3>3. CASE call[c].at = "done"
      <4>1. call' = call
        BY <3>1, <3>3, <1>0, ReplyIs
      <4> QED BY <2>1, <4>1, <1>1
    <3>4. CASE call[c].at = "queued" /\ Regresses(told, Request[c])
      BY <3>1, <3>4, <2>1, <1>2
    <3>5. CASE call[c].at = "queued" /\ ~Regresses(told, Request[c])
      <4>1. Contract!InForce(told, Request[c])
        <5>1. Request[c] \in ControlRequest
          BY RequestAssumption
        <5>2. ~Rises(told, Request[c])
          BY <2>4
        <5>3. CASE Request[c].kind = "active"
          BY <5>2, <5>3 DEF Rises, Contract!InForce
        <5>4. CASE Request[c].kind # "active"
          <6>1. Request[c].kind \in {"config", "generation"} /\ Request[c].value \in Nat
            BY <5>1, <5>4 DEF ControlRequest
          <6>2. told[Request[c].kind] \in Nat
            BY <6>1, <1>0 DEF ControlState
          <6>3. ~(Request[c].value > told[Request[c].kind]) /\ ~(Request[c].value < told[Request[c].kind])
            BY <5>2, <5>4, <3>5 DEF Rises, Regresses
          <6> QED BY <6>1, <6>2, <6>3 DEF Contract!InForce
        <5> QED BY <5>3, <5>4
      <4>2. (\A d \in Call \ {c} : HeardSame(d)) /\ Heard(c) = "waiting" /\ Heard(c)' \in {"told", "ok"}
        BY <3>1, <3>5, RepliedIs
      <4> QED BY <4>1, <4>2, <2>1, <1>S, KeepsOne
    <3> QED BY <3>2, <3>3, <3>4, <3>5
  <2> QED BY <2>3, <2>4
<1>7. CASE WriterSends
  <2>1. ses' = ses /\ writer.at = "sending" /\ pipe.host = "open"
    BY <1>7 DEF WriterSends
  <2>2. CASE writer.current = Main
    <3>1. Stops(writer.current, "ok", FALSE) /\ told' = told
      BY <1>7, <2>2 DEF WriterSends
    <3> QED BY <2>1, <2>2, <3>1, <1>3
  <2>3. CASE writer.current # Main
    <3>1. writer.current \in Call
      BY <2>1, <2>3, <1>0 DEF WriterKeeps, Writers, Owners
    <3> PICK c \in Call : c = writer.current
      BY <3>1
    <3>2. call' = Replied(c, "ok") /\ told' = Applied(told, Request[c])
      BY <1>7, <2>3 DEF WriterSends
    <3>3. ses.main # "ended"
      BY <2>1 DEF Ending
    <3>4. call[c].at = "queued" /\ Rises(told, Request[c])
      BY <2>1, <2>3, <3>3, <1>0 DEF WriterCalls, WriterKeeps
    <3>5. (\A d \in Call \ {c} : HeardSame(d)) /\ Heard(c) = "waiting" /\ Heard(c)' \in {"told", "ok"}
      BY <3>2, <3>4, RepliedIs
    <3>6. Stage # "ended" /\ Contract!Rises(told, Request[c]) /\ told' = [told EXCEPT ![Request[c].kind] = Request[c].value]
      BY <3>2, <3>3, <3>4 DEF Stage, Rises, Contract!Rises, Applied
    <3> QED BY <3>5, <3>6, <2>1, <1>S, KeepsOne
  <2> QED BY <2>2, <2>3
<1>8. CASE WriterFails
  <2>1. ses' = ses /\ told' = told /\ Stops(writer.current, IF writer.current = Main THEN "failed" ELSE "refused", TRUE)
    BY <1>8 DEF WriterFails
  <2> QED BY <2>1, <1>3
<1> QED BY <1>4, <1>5, <1>6, <1>7, <1>8 DEF SessionWriter

LEMMA KeepsCallers ==
    ASSUME HostTypes, Calls, Ending, NEW c \in Call, Control(c) \/ RemovePendingControl(c) PROVE Keeps
<1>0. AnsweredCalls /\ call \in [Call -> Callers_]
  BY DEF HostTypes, Calls
<1>1. ses' = ses /\ told' = told /\ Stage' = Stage
  BY DEF Control, RemovePendingControl, Stage
<1>2. CASE RemovePendingControl(c)
  <2>1. call[c].at = "pending" /\ call' = [call EXCEPT ![c].at = "done", ![c].answer = "refused"]
    BY <1>2 DEF RemovePendingControl, Answer
  <2>2. \A d \in Call : Settles(d)
    BY <2>1, <1>0 DEF Settles, Callers_
  <2>3. \A d \in Call : HeardSame(d) \/ HeardRefused(d)
    BY <2>2, <1>0, HeardIs
  <2> QED BY <1>1, <2>3, KeepsRefused
<1>3. CASE Control(c)
  <2> DEFINE next == CASE ses.phase \in {"starting", "replaying"} /\ Len(pending) < ControlCapacity -> "pending"
                       [] ses.phase = "ready" -> "calling"
                       [] OTHER -> "done"
  <2>1. call[c].at = "idle" /\ call' = [call EXCEPT ![c] = [at |-> next, answer |-> IF next = "done" THEN "refused" ELSE "none"]]
    BY <1>3 DEF Control
  <2>2. next = "done" \/ (next \in {"pending", "calling"} /\ ses.phase \in {"starting", "replaying", "ready"})
    OBVIOUS
  <2>3. next # "done" => Stage = "open"
    BY <2>2 DEF Ending, Stage
  <2> HIDE DEF next
  <2>4. call'[c].at = next /\ (next = "done" => call'[c].answer = "refused") /\ \A d \in Call : d # c => call'[d] = call[d]
    BY <2>1, <1>0
  <2>5. Heard(c) = "idle" /\ (Heard(c)' = "refused" \/ (Heard(c)' = "waiting" /\ Stage = "open"))
    <3>1. Heard(c) = "idle"
      BY <2>1 DEF Heard
    <3>2. next = "done" => Heard(c)' = "refused"
      BY <2>4, <1>0, HeardIs
    <3>3. next \in {"pending", "calling"} => Heard(c)' = "waiting"
      BY <2>4, <1>0, HeardIs
    <3> QED BY <2>2, <2>3, <3>1, <3>2, <3>3
  <2>6. \A d \in Call \ {c} : HeardSame(d)
    BY <2>4, <1>0, HeardIs
  <2> QED BY <1>1, <2>5, <2>6, KeepsOne
<1> QED BY <1>2, <1>3

\* The session is an implementation of what the supervisor relies on: a control
\* that was answered with success is in force at the plugin's end of the pipe,
\* each change is handed over once and while its caller waits, a stopped session
\* takes no new control, and nothing is handed over once it has ended
\* (session.go Control, replayPendingControls, shutdownProcess; control.go run).
THEOREM SessionImplementsContract == Spec => ImplementsContract
<1>1. Init => Contract!ContractInit
  <2>1. Init => Stage = "open" /\ told = Startup /\ \A c \in Call : Heard(c) = "idle"
    BY DEF Init, SessionInit, Stage, Heard
  <2> QED BY <2>1 DEF Contract!ContractInit
<1>2. LinkInv /\ [Next]_vars => [Contract!ContractNext]_(Contract!contractVars)
  <2>1. ASSUME UNCHANGED hostVars PROVE Keeps
    <3>1. call' = call /\ told' = told /\ ses' = ses
      BY <2>1 DEF hostVars
    <3>2. Stage' = Stage /\ \A c \in Call : HeardSame(c)
      BY <3>1 DEF Stage, HeardSame, Heard
    <3> QED BY <3>1, <3>2, KeepsStill
  <2>2. ASSUME LinkInv, SessionNext PROVE Keeps
    BY <2>2, KeepsMain, KeepsWriter, KeepsCallers DEF LinkInv, Types, SessionNext, Callers
  <2>3. LinkInv /\ [Next]_vars => Keeps
    BY <2>1, <2>2 DEF Next, Host, ProcessDies, vars
  <2> QED BY <2>3 DEF Keeps
<1> QED BY <1>1, <1>2, LinkIsInvariant, PTL DEF Spec, ImplementsContract, Contract!ContractSpec

=============================================================================
