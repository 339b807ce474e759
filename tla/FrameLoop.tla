------------------------------- MODULE FrameLoop -------------------------------
(***************************************************************************)
(* The tracking service together with the loop of the coordinator          *)
(* (internal/application) that passes its merged frames to the pipeline:   *)
(* as they arrive, and the latest one again on every tick.                 *)
(*                                                                         *)
(* The service and the coordinator read the same wall clock and correct it *)
(* each on its own: both never go back, and the service makes receipt      *)
(* times distinct by running ahead of the clock.                           *)
(***************************************************************************)
EXTENDS Pipeline, SteamLink

CONSTANTS
    Loop,          \* the coordinator's subscription
    Usage,         \* how the service is used
    MaxClock       \* bound: ticks stop when the coordinator's clock is there

ASSUME LoopAssumption ==
    /\ MaxClock \in Nat /\ MaxClock >= MaxHost
    /\ \A u \in Usage : u.frames \subseteq Frame /\ u.wall \subseteq Host /\ u.plugins \subseteq Plugin
    /\ \A u \in Usage : u.generations \in 0 .. MaxGeneration /\ u.ports \subseteq Port
    /\ \A u \in Usage : u.driver # {} => Least(Plugin) \notin u.plugins
    /\ Plugin # {} /\ "eye" \in Cap /\ Loop \in MergedSub
    /\ MaxFrames <= MaxSequence /\ MaxTime + MaxFrames <= MaxTick

VARIABLES
    usage,
    pipe,      \* the pipeline
    clock,     \* monotonicClock, -1 before the first reading
    frame,     \* latest, which exists once it has a generation
    plan,      \* the generation of the plan that is in use, or 0
    refusal    \* how the last call of ProcessAt ended

loopVars == <<pipe, clock, frame, plan, refusal>>
allVars  == <<vars, usage, loopVars, driverVars>>

LoopInit ==
    /\ usage \in Usage
    /\ Init
    /\ pipe = NewPipeline
    /\ clock = -1
    /\ frame = NoFrame
    /\ plan = 0
    /\ refusal = "none"
    /\ DriverInit(IF usage.driver # {} THEN "start" ELSE "off")

\* monotonicClock.sample with strict
Unstrict(wall) == IF wall > clock THEN wall ELSE clock

Sample(wall) == IF clock = -1 \/ wall > clock THEN wall ELSE clock + 1

\* activate: the tracking service gets the generation of the new plan, which is
\* usable when the rest of the installation succeeds.
Activate(g, now) ==
    /\ SetGeneration(g, now)
    /\ plan' \in {0} \cup {x \in {g} : usage.loop}
    /\ UNCHANGED <<usage, pipe, clock, frame, refusal>>

\* process: a frame of another generation than the plan's is dropped.
Process(f, now) ==
    LET result == ProcessAt(pipe, f, now)
    IN  IF f.gen = plan
        THEN pipe' = result.next /\ refusal' = result.refusal
        ELSE UNCHANGED <<pipe, refusal>>

ReceiveFrame(wall) ==
    /\ usage.loop
    /\ ReceiveMerged(Loop)
    /\ frame' = mergedSeen'[Loop]
    /\ clock' = Sample(wall)
    /\ Process(frame', clock')
    /\ UNCHANGED <<usage, plan>>

\* A tick carries the time at which it fired.
Tick(wall) ==
    /\ frame # NoFrame /\ clock < MaxClock
    /\ clock' = Sample(wall)
    /\ Process(frame, clock')
    /\ UNCHANGED <<vars, usage, frame, plan>>

\* The operations of the service by others.
Use ==
    \/ \E p \in usage.plugins \cup {NoPlugin}, g \in 0 .. MaxGeneration, f \in usage.frames :
          (usage.rejects \/ Reason(p, g, f) = "none") /\ Submit(p, g, f, usage.wall)
    \/ usage.routes /\ \E r \in Routing, now \in usage.wall : SetRouting(r, now)
    \/ \E p \in usage.plugins, now \in usage.wall : RemoveSource(p, now)
    \/ "merged" \in usage.subscribe /\ \E s \in MergedSub : CancelMerged(s) \/ ReceiveMerged(s)
    \/ "summary" \in usage.subscribe /\ \E s \in SummarySub : SubscribeSummary(s) \/ CancelSummary(s) \/ ReceiveSummary(s)

Subscribe(s) == ("merged" \in usage.subscribe \/ usage.loop) /\ SubscribeMerged(s)

\* A plugin that runs the Steam Link driver.  Its controls come from the manager,
\* the subscription with the generation of the service.
Control ==
    \E kind \in usage.driver :
      \/ kind = "active" /\ \E active \in 0 .. 1 : HostControl(kind, active)
      \/ kind = "subscription" /\ HostControl(kind, generation)
      \/ kind = "config" /\ \E config \in usage.ports \cup {NoPort} : HostControl(kind, config)
      \/ kind = "shutdown" /\ HostControl(kind, 0)

Launch == \E active \in BOOLEAN, config \in usage.ports \cup {NoPort} : DriverStart(active, generation, config)

\* A frame of the driver as the service gets it.
Sent == [caps |-> {"eye"}, seq |-> host.slot.seq, ts |-> host.slot.ts, clock |-> 0,
         canonical |-> TRUE, negative |-> FALSE, bare |-> host.slot.bare]

\* The runtime's writer takes the frame in the slot, and the session submits it.
Deliver ==
    /\ host.slot # Nothing
    /\ Submit(Least(Plugin), host.slot.gen, Sent, usage.wall)
    /\ host' = [host EXCEPT !.slot = Nothing]
    /\ UNCHANGED <<drv, sample, gate, recv, queue, time, busy>>

Driving ==
    /\ usage.driver # {}
    /\ UNCHANGED <<usage, loopVars>>
    /\ \/ Deliver
       \/ (DriverLoop \/ ReceiverStep \/ WorldStep(usage.ports) \/ Control \/ Launch) /\ UNCHANGED vars

Serving ==
    /\ UNCHANGED driverVars
    /\ \/ \E g \in 1 .. usage.generations, now \in usage.wall : Activate(g, now)
       \/ (Use \/ \E s \in MergedSub : Subscribe(s)) /\ UNCHANGED <<usage, loopVars>>
       \/ \E wall \in usage.wall : ReceiveFrame(wall) \/ Tick(wall)

Next == Serving \/ Driving

Spec == LoopInit /\ [][Next]_allVars

\* The loop serves what is ready, and the tickers tick.
FairSpec ==
    /\ Spec
    /\ WF_allVars(UNCHANGED driverVars /\ \E wall \in usage.wall : ReceiveFrame(wall))
    /\ WF_allVars(UNCHANGED driverVars /\ \E wall \in usage.wall : Tick(wall))

-----------------------------------------------------------------------------
(* Properties. *)

\* A channel never blends values of two sources or of two generations, shows the
\* last valid value of an active source, undiminished unless the policy has a
\* source active for longer than its value is held, although that may have
\* arrived before the last one of the source it replaced, and is let go as soon
\* as its source is gone.
ChannelsOfSource ==
    LET last == pipe.last
        out  == Canonical(pipe)
    IN  \A c \in Channel :
          /\ \A x, y \in pipe.ch[c].mix : x = y
          /\ \A x \in pipe.ch[c].mix : x[1] = last.gen /\ last.src[c] \in {x[2], NoPlugin}
          /\ out.active[c] /\ c \notin last.bare =>
               /\ pipe.ch[c].at = last.at[c]
               /\ ActiveStaleAfter <= StaleAfter + HoldDuration => out.value[c] = "held"
          /\ last.src[c] = NoPlugin /\ pipe.now > last.updated + HoldDuration => out.value[c] # "held"

\* A frame of the service is refused for one reason, that the service runs ahead
\* of the coordinator's clock: never for a generation, a revision or a time that
\* goes back, or by a filter.
RefusedOnlyAhead == refusal \in {"none", "ahead"}

\* The pipeline takes what it is given, and what it shows belongs together.
ProcessingIsSound == ChannelsOfSource /\ RefusedOnlyAhead

\* The service takes every frame of the driver that has its generation, in the
\* order of their publication, although the driver drops its stream with every
\* change of subscription and never knows what was taken out of the slot.
FramesInOrder ==
    host.slot # Nothing /\ host.slot.gen = generation /\ lastHost < MaxHost
        => Reason(Least(Plugin), generation, Sent) = "none"

DriverIsHonest == InputIsFenced /\ ConfigIsHonest /\ FramesInOrder

\* Ticks make up for a refused frame, and the pipeline ends with the latest one,
\* whatever the wall clock does.
FramesProcessed ==
    []<>(usage.loop /\ Loop \in mergedSubs /\ plan # 0 /\ plan = generation => pipe.last = latest)

=============================================================================
