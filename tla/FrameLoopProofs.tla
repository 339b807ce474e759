---------------------------- MODULE FrameLoopProofs ----------------------------
(***************************************************************************)
(* Proofs about the tracking service, the pipeline and the Steam Link      *)
(* driver, composed by FrameLoop.                                          *)
(***************************************************************************)
EXTENDS FrameLoop, FiniteSetTheorems, WellFoundedInduction, TLAPS

-----------------------------------------------------------------------------
(* Operators. *)

\* Least of a set of naturals.
LEMMA LeastIsLeast ==
    ASSUME NEW P \in SUBSET Nat, P # {}
    PROVE  Least(P) \in P /\ \A q \in P : Least(P) <= q
<1>1. PICK n \in P : TRUE
  OBVIOUS
<1> DEFINE Below(k) == 0 .. (k - 1)
           T == {Below(k) : k \in {q \in P : q <= n}}
<1>2. IsFiniteSet(0 .. n)
  BY <1>1, FS_Interval
<1>3. T \in SUBSET (SUBSET (0 .. n)) /\ T # {}
  BY <1>1
<1>4. PICK x \in T : \A y \in T : ~(<<y, x>> \in StrictSubsetOrdering(0 .. n))
  <2>1. IsWellFoundedOn(StrictSubsetOrdering(0 .. n), SUBSET (0 .. n))
    BY <1>2, FS_StrictSubsetOrderingWellFounded, FS_FiniteSubsetsOfFinite, Zenon
  <2> HIDE DEF T
  <2> QED BY <2>1, <1>3, WFMin, Zenon
<1>5. PICK k \in P : k <= n /\ x = Below(k)
  BY <1>4
<1>6. ASSUME NEW q \in P, q < k PROVE FALSE
  <2>1. Below(q) \in T
    BY <1>1, <1>5, <1>6
  <2>2. Below(q) \subseteq x /\ q \in x /\ q \notin Below(q)
    BY <1>5, <1>6
  <2>3. <<Below(q), x>> \in StrictSubsetOrdering(0 .. n)
    <3> HIDE DEF Below, T
    <3> QED BY <2>1, <2>2, <1>3, <1>4 DEF StrictSubsetOrdering
  <2> HIDE DEF Below, T
  <2> QED BY <2>1, <2>3, <1>4, Zenon
<1>7. \A q \in P : k <= q
  <2> HIDE DEF Below, T
  <2> QED BY <1>5, <1>6
<1> QED BY <1>5, <1>7, Zenon DEF Least

-----------------------------------------------------------------------------
(* The invariants. *)

IsFunction(f, S) == f = [x \in S |-> f[x]]

SourceOrNone == Source \cup {NoSource}

PluginOrNone == Plugin \cup {NoPlugin}

\* The service: nothing is there before the first generation, and no receipt is
\* at time 0, which a merged frame has for an absent group.
Received(srcs, last) ==
    \A p \in Plugin : srcs[p] # NoSource =>
      /\ 0 < srcs[p].at /\ srcs[p].at <= last
      /\ \A q \in Plugin : p # q => srcs[p].at # srcs[q].at

StateInv ==
    /\ generation \in 0 .. MaxGeneration /\ routing \in Routing /\ selected \in Selection
    /\ sources \in [Plugin -> SourceOrNone]
    /\ lastHost \in Host /\ latest \in Merged
    /\ accepted \in 0 .. MaxCount /\ rejected \in 0 .. MaxCount /\ lastRejection \in Reasons
    /\ Received(sources, lastHost) /\ latest.updated <= lastHost
    /\ generation = 0 => /\ sources = [p \in Plugin |-> NoSource]
                         /\ selected = [c \in Cap |-> NoPlugin]
                         /\ latest = NoFrame
    /\ MergedMatchesSources

MergedInv ==
    /\ mergedSubs \subseteq MergedSub
    /\ IsFunction(mergedSlot, MergedSub) /\ IsFunction(mergedSeen, MergedSub)
    /\ \A x \in MergedSub : mergedSlot[x] = {} \/ \E m \in Merged : mergedSlot[x] = {m}
    /\ NoMergedFrameLost

SummaryInv ==
    /\ summarySubs \subseteq SummarySub
    /\ IsFunction(summarySlot, SummarySub) /\ IsFunction(summarySeen, SummarySub)
    /\ NoSummaryLost

ServiceInv == StateInv /\ MergedInv /\ SummaryInv

PortOrNone == Port \cup {NoPort}

DriverState ==
    [at : {"off", "start", "select", "join", "fence", "returned"}, active : BOOLEAN, gen : Nat,
     port : PortOrNone, cand : PortOrNone, keep : BOOLEAN,
     retry : [port : PortOrNone, clears : BOOLEAN], error : BOOLEAN, wanted : PortOrNone,
     dirty : BOOLEAN, prev : {"none", "valid", "empty"}, seq : 0 .. MaxFrames, ts : Nat]

SlotFrame == [gen : Nat, seq : 0 .. MaxFrames, ts : Nat, bare : BOOLEAN]

Event == [kind : {"active", "subscription"}, value : Nat] \cup [kind : {"config"}, value : PortOrNone]
             \cup [kind : {"shutdown"}, value : {0}]

Datagram == [at : Nat, epoch : Nat, era : Nat]

SampleState   == [seen : BOOLEAN, at : Nat, era : Nat, old : BOOLEAN]
GateState     == [epoch : Nat, fence : Nat]
ReceiverState == [at : {"none", "reading", "stamped", "ended"}, stamp : Nat, era : Nat, failed : BOOLEAN]
HostState     == [active : BOOLEAN, gen : Nat, inbox : Seq(Event), slot : SlotFrame, controls : Nat]

DriverTypeOK ==
    /\ drv \in DriverState /\ sample \in SampleState /\ gate \in GateState
    /\ recv \in ReceiverState /\ host \in HostState
    /\ queue \in Seq(Datagram)
    /\ time \in 0 .. MaxTime

\* The driver numbers its frames upwards and their times never go back, so a
\* frame in the slot is newer than those the service has.
StreamInv ==
    /\ drv.ts <= MaxTime + drv.seq
    /\ host.slot.seq <= drv.seq /\ host.slot.ts <= drv.ts
    /\ host.slot # Nothing => host.slot.gen > 0 /\ host.slot.seq > 0 /\ usage.driver # {}
    /\ usage.driver # {} =>
         LET source == sources[Least(Plugin)]
         IN  /\ source.seq <= drv.seq /\ source.ts <= drv.ts /\ source.clock = 0
             /\ host.slot # Nothing => source.seq < host.slot.seq /\ source.ts <= host.slot.ts

\* A datagram that was overtaken by a transition has the time of the fence at
\* most, whichever of its two tags it got before.
Fenced(at, era) == era = gate.epoch \/ at <= gate.fence

FenceInv ==
    /\ InputIsFenced
    /\ gate.fence <= time
    /\ recv.at = "stamped" =>
         recv.stamp <= time /\ (drv.at # "fence" => Fenced(recv.stamp, recv.era))
    /\ \A i \in DOMAIN queue :
         /\ queue[i].at <= time
         /\ drv.at # "fence" /\ queue[i].epoch = gate.epoch => Fenced(queue[i].at, queue[i].era)
         /\ queue[i].epoch <= gate.epoch

\* What is to become of the port: the one that is bound at join, and the retry,
\* know whether they are the configuration that was given last.
Differs(port) == drv.wanted = NoPort \/ port # drv.wanted

ConfigInv ==
    /\ ConfigIsHonest
    /\ drv.at = "start" => drv.port = NoPort /\ recv.at = "none"
    /\ drv.at \in {"start", "select"} => drv.cand = NoPort
    /\ drv.at = "start" => drv.retry = NoRetry
    /\ drv.at \in {"select", "fence"} /\ drv.retry # NoRetry =>
         /\ drv.retry.port # NoPort
         /\ drv.retry.clears <=> ~Differs(drv.retry.port)
    /\ drv.at = "join" => drv.cand # NoPort /\ (drv.keep <=> Differs(drv.cand))
    /\ drv.at = "fence" =>
         /\ drv.error <=> Differs(drv.port)
         /\ drv.retry # NoRetry => drv.port = NoPort
         /\ drv.cand # NoPort => drv.port = drv.cand /\ recv.at = "none"
         /\ drv.cand = NoPort => (recv.at # "none" <=> drv.port # NoPort)

\* A later merged frame: never an older one, and with the content of a source
\* that is as new, or the same.
Follows(f, g) ==
    /\ f.gen <= g.gen /\ f.seq <= g.seq /\ f.updated <= g.updated
    /\ f.gen = g.gen => \A c \in Cap :
         f.src[c] # NoPlugin /\ f.src[c] = g.src[c] =>
           f.at[c] <= g.at[c] /\ (f.at[c] = g.at[c] => (c \in f.bare <=> c \in g.bare))
    /\ f.gen = g.gen /\ f.seq = g.seq /\ f # g => f.seq = MaxMerged

WellMade(f) ==
    /\ f.gen > 0 => f.seq > 0
    /\ f.gen = 0 => f = NoFrame
    /\ \A c \in Cap : IF f.src[c] = NoPlugin THEN f.at[c] = 0 ELSE 0 < f.at[c] /\ f.at[c] <= f.updated

\* What the service made of the sources before is not newer than they are.
OfSources(f) ==
    f.gen = generation => \A c \in Cap, p \in Plugin :
      f.src[c] = p /\ sources[p] # NoSource =>
        f.at[c] <= sources[p].at /\ (f.at[c] = sources[p].at => (c \in f.bare <=> sources[p].bare))

\* The frames on their way to the pipeline, the newest last.
Flowing(f) == f \in Merged /\ WellMade(f) /\ OfSources(f) /\ Follows(f, latest)

FlowInv ==
    /\ Flowing(pipe.last) /\ Flowing(frame) /\ Flowing(latest) /\ Follows(pipe.last, frame)
    /\ \A f \in mergedSlot[Loop] : Flowing(f) /\ f.gen > 0 /\ Follows(pipe.last, f) /\ Follows(frame, f)

\* The pipeline, as it has processed its last frame.
ChannelState == [seen : BOOLEAN, at : Nat, start : Nat, mix : SUBSET (Nat \X Plugin)]

ChannelInv(ch, c, last) ==
    /\ ch.seen \/ ch = Empty
    /\ \A x, y \in ch.mix : x = y
    /\ \A x \in ch.mix : x[1] = last.gen /\ last.src[c] \in {x[2], NoPlugin}
    /\ last.src[c] # NoPlugin /\ ch.seen => ch.at <= last.at[c]
    /\ last.src[c] # NoPlugin /\ c \notin last.bare =>
         ch.seen /\ ch.at = last.at[c] /\ ch.start = last.at[c] + StaleAfter
    /\ last.src[c] = NoPlugin /\ ch.seen => ch.start <= last.updated

PipeState == [hasLast : BOOLEAN, last : Merged, now : Nat, ch : [Channel -> ChannelState]]

Processed(p) ==
    /\ p \in PipeState
    /\ p.hasLast <=> p.last # NoFrame
    /\ \A c \in Channel : ChannelInv(p.ch[c], c, p.last)

PipeInv ==
    /\ Processed(pipe) /\ RefusedOnlyAhead
    /\ clock \in Nat \cup {-1} /\ plan \in 0 .. MaxGeneration
    /\ pipe.hasLast => pipe.now <= clock

-----------------------------------------------------------------------------
(* The operators of the service. *)

LEMMA SourceFields ==
    ASSUME NEW x \in SourceOrNone
    PROVE  /\ x.caps \in SUBSET Cap /\ x.at \in Host /\ x.seq \in -1 .. MaxSequence
           /\ x.ts \in 0 .. MaxTick /\ x.clock \in 0 .. MaxTick /\ x.bare \in BOOLEAN
<1>1. CASE x \in Source
  BY <1>1, TrackingAssumption DEF Source
<1>2. CASE x = NoSource
  BY <1>2, TrackingAssumption DEF NoSource, Host
<1> QED BY <1>1, <1>2 DEF SourceOrNone

LEMMA NoPluginIsNone == NoPlugin \notin Plugin
BY TrackingAssumption DEF NoPlugin

\* A source that was chosen is capable, and is chosen again.
LEMMA ResolveChooses ==
    ASSUME NEW srcs \in [Plugin -> SourceOrNone], NEW route \in PluginOrNone,
           NEW current \in PluginOrNone, NEW c \in Cap
    PROVE  LET chosen == Resolve(route, current, srcs, c)
           IN  /\ chosen \in PluginOrNone
               /\ chosen # NoPlugin => Has(srcs, chosen, c)
               /\ Resolve(route, chosen, srcs, c) = chosen
<1> USE NoPluginIsNone
<1> DEFINE chosen == Resolve(route, current, srcs, c)
<1>1. Capable(srcs, c) # {} => Least(Capable(srcs, c)) \in Capable(srcs, c)
  <2>1. Capable(srcs, c) \in SUBSET Nat
    BY TrackingAssumption DEF Capable
  <2> QED BY <2>1, LeastIsLeast
<1>2. chosen \in PluginOrNone /\ (chosen # NoPlugin => Has(srcs, chosen, c))
  BY <1>1 DEF Resolve, ChooseAuto, Has, Capable, PluginOrNone
<1>3. CASE route # NoPlugin
  BY <1>2, <1>3 DEF Resolve
<1>4. CASE route = NoPlugin
  <2>1. CASE chosen = NoPlugin
    <3>1. Capable(srcs, c) = {}
      BY <1>1, <1>4, <2>1 DEF Resolve, ChooseAuto, Has, Capable
    <3> QED BY <1>2, <1>4, <2>1, <3>1 DEF Resolve, ChooseAuto, Has
  <2>2. CASE chosen # NoPlugin
    BY <1>2, <1>4, <2>2 DEF Resolve, ChooseAuto
  <2> QED BY <2>1, <2>2
<1> QED BY <1>2, <1>3, <1>4

\* A choice that is left was not automatic, or cannot stay.
LEMMA ResolveSticks ==
    ASSUME NEW srcs \in [Plugin -> SourceOrNone], NEW srcs2 \in [Plugin -> SourceOrNone],
           NEW route \in PluginOrNone, NEW current \in PluginOrNone, NEW c \in Cap,
           current = Resolve(route, current, srcs, c), current # NoPlugin,
           Has(srcs2, current, c)
    PROVE  Resolve(route, current, srcs2, c) = current
BY DEF Resolve, ChooseAuto

LEMMA TimesTyped ==
    ASSUME NEW srcs \in [Plugin -> SourceOrNone], NEW sel \in Selection
    PROVE  Times(sel, srcs) \in [Cap -> Host]
<1>1. ASSUME NEW c \in Cap PROVE (IF sel[c] = NoPlugin THEN 0 ELSE srcs[sel[c]].at) \in Host
  <2>1. sel[c] # NoPlugin => srcs[sel[c]].at \in Host
    BY SourceFields DEF Selection
  <2> QED BY <2>1, TrackingAssumption DEF Host
<1> QED BY <1>1 DEF Times

LEMMA ClockFacts ==
    ASSUME NEW last \in Host, NEW now \in Host
    PROVE  /\ NextTime(last, now) \in Host /\ NextTime(last, now) >= last
           /\ NextReceipt(last, now) \in Host /\ NextReceipt(last, now) >= last
           /\ last # MaxHost => NextReceipt(last, now) > last
BY TrackingAssumption DEF Host, NextTime, NextReceipt

LEMMA SaturatedTyped ==
    ASSUME NEW max \in Nat, NEW n \in 0 .. max
    PROVE  Saturated(n, max) \in 0 .. max /\ Saturated(n, max) >= n
           /\ (Saturated(n, max) = n => n = max) /\ (max > 0 => Saturated(n, max) > 0)
BY DEF Saturated

\* A frame is accepted when every check passes.
LEMMA ReasonNone ==
    ASSUME NEW p, NEW g, NEW f, Reason(p, g, f) = "none"
    PROVE  LET prev == IF p \in Plugin THEN sources[p] ELSE NoSource
           IN  /\ p # NoPlugin /\ generation # 0 /\ g # 0 /\ ~(g < generation) /\ ~(g > generation)
               /\ f.canonical /\ ~(f.seq <= prev.seq) /\ ~f.negative
               /\ ~(f.ts # 0 /\ f.ts < prev.ts) /\ ~(f.clock # 0 /\ f.clock < prev.clock)
               /\ lastHost # MaxHost
<1> DEFINE prev   == IF p \in Plugin THEN sources[p] ELSE NoSource
           fails  == <<p = NoPlugin, generation = 0, g = 0, g < generation, g > generation,
                       ~f.canonical, f.seq <= prev.seq, f.negative,
                       f.ts # 0 /\ f.ts < prev.ts, f.clock # 0 /\ f.clock < prev.clock,
                       lastHost = MaxHost>>
           failed == {i \in 1 .. 11 : fails[i]}
<1>1. Reason(p, g, f) = IF failed = {} THEN "none" ELSE CheckReason[Least(failed)]
  BY Zenon DEF Reason
<1>2. failed = {}
  <2> SUFFICES ASSUME failed # {} PROVE FALSE
    OBVIOUS
  <2>1. Least(failed) \in 1 .. 11
    <3>1. failed \in SUBSET Nat
      OBVIOUS
    <3> HIDE DEF fails
    <3> QED BY <3>1, LeastIsLeast
  <2>2. CheckReason[Least(failed)] = "none"
    BY <1>1
  <2> HIDE DEF failed
  <2> QED BY <2>1, <2>2 DEF CheckReason
<1>3. \A i \in 1 .. 11 : ~fails[i]
  <2> HIDE DEF fails
  <2> QED BY <1>2
<1>4. ~fails[1] /\ ~fails[2] /\ ~fails[3] /\ ~fails[4] /\ ~fails[5] /\ ~fails[6] /\ ~fails[7] /\ ~fails[8]
      /\ ~fails[9] /\ ~fails[10] /\ ~fails[11]
  <2> HIDE DEF fails
  <2> QED BY <1>3
<1> QED BY <1>4

LEMMA ReasonTyped ==
    ASSUME NEW p, NEW g, NEW f
    PROVE  Reason(p, g, f) \in Reasons
<1> DEFINE prev   == IF p \in Plugin THEN sources[p] ELSE NoSource
           fails  == <<p = NoPlugin, generation = 0, g = 0, g < generation, g > generation,
                       ~f.canonical, f.seq <= prev.seq, f.negative,
                       f.ts # 0 /\ f.ts < prev.ts, f.clock # 0 /\ f.clock < prev.clock,
                       lastHost = MaxHost>>
           failed == {i \in 1 .. 11 : fails[i]}
<1>1. Reason(p, g, f) = IF failed = {} THEN "none" ELSE CheckReason[Least(failed)]
  BY Zenon DEF Reason
<1>2. failed \in SUBSET (1 .. 11)
  OBVIOUS
<1> HIDE DEF failed
<1>3. failed # {} => Least(failed) \in 1 .. 11
  <2>1. failed \in SUBSET Nat
    BY <1>2
  <2> QED BY <1>2, <2>1, LeastIsLeast
<1> QED BY <1>1, <1>3 DEF CheckReason, Reasons

BareOf(sel, srcs) == {c \in Cap : sel[c] # NoPlugin /\ srcs[sel[c]].bare}

\* What a merge does: the frame that results is that of the given sources, and
\* is either the one there was or a new one that is published.
LEMMA RecomputeEffect ==
    ASSUME StateInv, NEW srcs \in [Plugin -> SourceOrNone], NEW rt \in Routing, NEW last \in Host,
           NEW now \in Host, NEW force \in BOOLEAN, Recompute(srcs, rt, last, force, now)
    PROVE  /\ selected' \in Selection
           /\ \A c \in Cap : /\ selected'[c] = Resolve(rt[c], selected[c], srcs, c)
                             /\ selected'[c] = Resolve(rt[c], selected'[c], srcs, c)
                             /\ selected'[c] # NoPlugin => Has(srcs, selected'[c], c)
           /\ lastHost' \in Host /\ lastHost' >= last
           /\ latest' \in Merged /\ latest'.gen = generation /\ latest'.src = selected'
           /\ latest'.at = Times(selected', srcs)
           /\ \/ /\ latest' = latest /\ mergedSlot' = mergedSlot
                 /\ lastHost' = last /\ ~force /\ selected' = selected
              \/ /\ latest'.seq = Saturated(latest.seq, MaxMerged)
                 /\ latest'.updated = lastHost' /\ latest'.bare = BareOf(selected', srcs)
                 /\ PublishMerged
<1> DEFINE sel == [c \in Cap |-> Resolve(rt[c], selected[c], srcs, c)]
           new == [gen |-> generation, seq |-> Saturated(latest.seq, MaxMerged), updated |-> NextTime(last, now),
                   src |-> sel, at |-> Times(sel, srcs), bare |-> BareOf(sel, srcs)]
<1>1. /\ selected' = sel
      /\ \/ /\ lastHost' = last /\ latest' = latest /\ mergedSlot' = mergedSlot /\ ~force /\ sel = selected
            /\ sel = latest.src /\ Times(sel, srcs) = latest.at /\ latest.gen = generation
         \/ lastHost' = NextTime(last, now) /\ latest' = new /\ PublishMerged
  BY Zenon DEF Recompute, BareOf
<1>2. ASSUME NEW c \in Cap
      PROVE  /\ sel[c] \in PluginOrNone
             /\ sel[c] = Resolve(rt[c], selected[c], srcs, c)
             /\ sel[c] = Resolve(rt[c], sel[c], srcs, c)
             /\ sel[c] # NoPlugin => Has(srcs, sel[c], c)
  <2>1. rt[c] \in PluginOrNone /\ selected[c] \in PluginOrNone
    BY DEF StateInv, Routing, Selection, PluginOrNone
  <2> QED BY <2>1, ResolveChooses
<1>3. sel \in Selection
  <2> HIDE DEF sel
  <2>1. sel = [c \in Cap |-> sel[c]]
    BY DEF sel
  <2> QED BY <1>2, <2>1 DEF Selection, PluginOrNone
<1>4. NextTime(last, now) \in Host /\ NextTime(last, now) >= last /\ last >= last
  BY ClockFacts DEF Host
<1>5. new \in Merged
  <2>1. Saturated(latest.seq, MaxMerged) \in 0 .. MaxMerged
    BY SaturatedTyped, TrackingAssumption DEF StateInv, Merged
  <2>2. Times(sel, srcs) \in [Cap -> Host]
    <3> HIDE DEF sel
    <3> QED BY <1>3, TimesTyped
  <2>3. BareOf(sel, srcs) \in SUBSET Cap /\ generation \in 0 .. MaxGeneration
    BY DEF BareOf, StateInv
  <2> HIDE DEF sel
  <2> QED BY <1>3, <1>4, <2>1, <2>2, <2>3 DEF Merged
<1> HIDE DEF sel
<1>6. CASE lastHost' = last /\ latest' = latest /\ mergedSlot' = mergedSlot /\ ~force /\ sel = selected
           /\ sel = latest.src /\ Times(sel, srcs) = latest.at /\ latest.gen = generation
  <2>1. latest \in Merged
    BY DEF StateInv
  <2> QED BY <1>1, <1>2, <1>3, <1>4, <1>6, <2>1
<1>7. CASE lastHost' = NextTime(last, now) /\ latest' = new /\ PublishMerged
  <2>1. latest'.gen = generation /\ latest'.src = sel /\ latest'.at = Times(sel, srcs)
        /\ latest'.seq = Saturated(latest.seq, MaxMerged) /\ latest'.updated = lastHost'
        /\ latest'.bare = BareOf(sel, srcs)
    BY <1>7
  <2> QED BY <1>1, <1>2, <1>3, <1>4, <1>5, <1>7, <2>1
<1> QED BY <1>1, <1>6, <1>7

-----------------------------------------------------------------------------
(* The service. *)

LEMMA ServiceTruth == ServiceInv => ServiceIsCurrent
<1> SUFFICES ASSUME ServiceInv PROVE ServiceIsCurrent
  OBVIOUS
<1>1. \A x \in MergedSub : mergedSlot[x] \subseteq Merged /\ Cardinality(mergedSlot[x]) <= 1
  <2> SUFFICES ASSUME NEW x \in MergedSub
               PROVE  mergedSlot[x] \subseteq Merged /\ Cardinality(mergedSlot[x]) <= 1
    OBVIOUS
  <2>1. CASE mergedSlot[x] = {}
    BY <2>1, FS_EmptySet
  <2>2. CASE \E m \in Merged : mergedSlot[x] = {m}
    BY <2>2, FS_Singleton
  <2> QED BY <2>1, <2>2 DEF ServiceInv, MergedInv
<1>2. TypeOK
  BY <1>1 DEF ServiceInv, StateInv, TypeOK, SourceOrNone
<1>3. ReceiptTimesDistinct
  BY DEF ServiceInv, StateInv, Received, ReceiptTimesDistinct
<1> QED BY <1>2, <1>3 DEF ServiceInv, StateInv, MergedInv, SummaryInv, ServiceIsCurrent

\* What is published is the latest, and what is not did not change it.
LEMMA MergedKept ==
    ASSUME MergedInv, latest' \in Merged, mergedSubs' = mergedSubs, mergedSeen' = mergedSeen,
           PublishMerged \/ (latest' = latest /\ mergedSlot' = mergedSlot /\ generation' = generation)
    PROVE  MergedInv'
<1>1. CASE PublishMerged
  <2>1. IsFunction(mergedSlot', MergedSub)
    BY <1>1 DEF PublishMerged, IsFunction
  <2>2. \A x \in MergedSub : mergedSlot'[x] = IF x \in mergedSubs THEN {latest'} ELSE mergedSlot[x]
    BY <1>1 DEF PublishMerged
  <2>3. \A x \in MergedSub : mergedSlot'[x] = {} \/ \E m \in Merged : mergedSlot'[x] = {m}
    BY <2>2 DEF MergedInv
  <2>4. NoMergedFrameLost'
    BY <2>2 DEF MergedInv, NoMergedFrameLost
  <2> QED BY <2>1, <2>3, <2>4 DEF MergedInv, IsFunction
<1>2. CASE latest' = latest /\ mergedSlot' = mergedSlot /\ generation' = generation
  BY <1>2 DEF MergedInv, NoMergedFrameLost, IsFunction
<1> QED BY <1>1, <1>2

LEMMA SummaryKept ==
    ASSUME SummaryInv, summarySubs' = summarySubs, summarySeen' = summarySeen,
           PublishSummary \/ (Summary' = Summary /\ summarySlot' = summarySlot)
    PROVE  SummaryInv'
<1>1. CASE PublishSummary
  <2>1. IsFunction(summarySlot', SummarySub)
    BY <1>1 DEF PublishSummary, IsFunction
  <2>2. \A x \in SummarySub : summarySlot'[x] = IF x \in summarySubs THEN {Summary'} ELSE summarySlot[x]
    BY <1>1 DEF PublishSummary
  <2>3. NoSummaryLost'
    <3> SUFFICES ASSUME NEW x \in summarySubs'
                 PROVE  summarySlot'[x] = {Summary'}
      BY DEF NoSummaryLost
    <3> QED BY <2>2 DEF SummaryInv
  <2> QED BY <2>1, <2>3 DEF SummaryInv, IsFunction
<1>2. CASE Summary' = Summary /\ summarySlot' = summarySlot
  BY <1>2 DEF SummaryInv, NoSummaryLost, IsFunction
<1> QED BY <1>1, <1>2

\* A merge of sources that were received.
LEMMA MergeKeeps ==
    ASSUME ServiceInv, generation > 0, NEW srcs \in [Plugin -> SourceOrNone], NEW rt \in Routing,
           NEW last \in Host, NEW now \in Host, NEW force \in BOOLEAN, last >= lastHost,
           Received(srcs, last), Recompute(srcs, rt, last, force, now),
           generation' = generation, sources' = srcs, routing' = rt,
           accepted' \in 0 .. MaxCount /\ rejected' \in 0 .. MaxCount /\ lastRejection' \in Reasons,
           mergedSubs' = mergedSubs, mergedSeen' = mergedSeen
    PROVE  StateInv' /\ MergedInv'
<1>1. StateInv
  BY DEF ServiceInv
<1> DEFINE Effect ==
           /\ selected' \in Selection
           /\ \A c \in Cap : /\ selected'[c] = Resolve(rt[c], selected[c], srcs, c)
                             /\ selected'[c] = Resolve(rt[c], selected'[c], srcs, c)
                             /\ selected'[c] # NoPlugin => Has(srcs, selected'[c], c)
           /\ lastHost' \in Host /\ lastHost' >= last
           /\ latest' \in Merged /\ latest'.gen = generation /\ latest'.src = selected'
           /\ latest'.at = Times(selected', srcs)
           /\ \/ /\ latest' = latest /\ mergedSlot' = mergedSlot
                 /\ lastHost' = last /\ ~force /\ selected' = selected
              \/ /\ latest'.seq = Saturated(latest.seq, MaxMerged)
                 /\ latest'.updated = lastHost' /\ latest'.bare = BareOf(selected', srcs)
                 /\ PublishMerged
<1>2. Effect
  BY <1>1, RecomputeEffect, Zenon
<1>3. Received(srcs, lastHost')
  BY <1>2, SourceFields DEF Received, Host
<1>4. latest'.updated <= lastHost'
  BY <1>1, <1>2, TrackingAssumption DEF StateInv, Merged, Host
<1>5. MergedMatchesSources'
  BY <1>2 DEF MergedMatchesSources
<1>6. StateInv'
  <2> HIDE DEF Effect
  <2>1. generation \in 0 .. MaxGeneration
    BY <1>1 DEF StateInv
  <2>2. /\ selected' \in Selection /\ lastHost' \in Host /\ latest' \in Merged
    BY <1>2 DEF Effect
  <2> QED BY <1>3, <1>4, <1>5, <2>1, <2>2 DEF StateInv
<1>7. MergedInv'
  BY <1>2, MergedKept DEF ServiceInv
<1> QED BY <1>6, <1>7

LEMMA SetGenerationKeeps ==
    ASSUME ServiceInv, NEW g \in 0 .. MaxGeneration, NEW now \in Host, SetGeneration(g, now)
    PROVE  ServiceInv'
<1>1. StateInv
  BY DEF ServiceInv
<1>2. lastHost' \in Host /\ lastHost' >= lastHost
  BY <1>1, ClockFacts DEF SetGeneration, StateInv
<1>3. g > 0 /\ generation' = g /\ sources' = [p \in Plugin |-> NoSource] /\ selected' = [c \in Cap |-> NoPlugin]
      /\ UNCHANGED <<routing, accepted, rejected, lastRejection>>
  BY <1>1 DEF SetGeneration, StateInv, countVars
<1>4. latest' = [gen |-> g, seq |-> Saturated(latest.seq, MaxMerged), updated |-> lastHost',
                 src |-> [c \in Cap |-> NoPlugin], at |-> [c \in Cap |-> 0], bare |-> {}]
  BY DEF SetGeneration, NoFrame
<1>5. latest' \in Merged
  <2>1. Saturated(latest.seq, MaxMerged) \in 0 .. MaxMerged
    BY <1>1, SaturatedTyped, TrackingAssumption DEF StateInv, Merged
  <2>2. [c \in Cap |-> NoPlugin] \in Selection /\ [c \in Cap |-> 0] \in [Cap -> Host]
    BY TrackingAssumption DEF Selection, Host
  <2> QED BY <1>2, <1>4, <2>1, <2>2 DEF Merged
<1>6. MergedMatchesSources'
  <2>1. latest'.gen = generation' /\ latest'.src = selected' /\ latest'.at = [c \in Cap |-> 0]
    BY <1>3, <1>4
  <2>2. latest'.at = Times(selected', sources')
    BY <1>3, <2>1 DEF Times
  <2>3. ASSUME NEW c \in Cap PROVE selected'[c] = Resolve(routing'[c], selected'[c], sources', c)
    BY <1>3, NoPluginIsNone DEF Resolve, ChooseAuto, Has, Capable, NoSource
  <2> QED BY <2>1, <2>2, <2>3 DEF MergedMatchesSources
<1>7. StateInv'
  <2>1. [p \in Plugin |-> NoSource] \in [Plugin -> SourceOrNone] /\ [c \in Cap |-> NoPlugin] \in Selection
    BY DEF SourceOrNone, Selection
  <2>2. Received(sources', lastHost')
    BY <1>3 DEF Received
  <2>3. latest'.updated <= lastHost'
    BY <1>2, <1>4 DEF Host
  <2> QED BY <1>1, <1>2, <1>3, <1>5, <1>6, <2>1, <2>2, <2>3 DEF StateInv
<1>8. MergedInv' /\ SummaryInv'
  BY <1>5, MergedKept, SummaryKept DEF ServiceInv, SetGeneration, restOfSubs
<1> QED BY <1>7, <1>8 DEF ServiceInv

LEMMA RejectKeeps ==
    ASSUME ServiceInv, NEW p, NEW g, NEW f, Reason(p, g, f) # "none", Reject(Reason(p, g, f))
    PROVE  ServiceInv'
<1>1. Reason(p, g, f) \in Reasons
  BY ReasonTyped
<1>2. StateInv' /\ latest' \in Merged
  <2>1. rejected' \in 0 .. MaxCount
    BY SaturatedTyped, TrackingAssumption DEF ServiceInv, StateInv, Reject
  <2> QED BY <1>1, <2>1 DEF ServiceInv, StateInv, Reject, stateVars, MergedMatchesSources
<1>3. MergedInv' /\ SummaryInv'
  BY <1>2, MergedKept, SummaryKept DEF ServiceInv, Reject, stateVars, restOfSubs
<1> QED BY <1>2, <1>3 DEF ServiceInv

\* The sources after a frame of p was accepted at a time.
SourceAfter(p, f, at) ==
    [caps |-> f.caps, at |-> at, seq |-> f.seq, bare |-> f.bare,
     ts |-> IF f.ts # 0 THEN f.ts ELSE sources[p].ts,
     clock |-> IF f.clock # 0 THEN f.clock ELSE sources[p].clock]

LEMMA AcceptedSources ==
    ASSUME StateInv, NEW p \in Plugin, NEW f \in Frame, lastHost # MaxHost, NEW received \in Host
    PROVE  LET at == NextReceipt(lastHost, received)
               srcs == [sources EXCEPT ![p] = SourceAfter(p, f, at)]
           IN  /\ at \in Host /\ at > lastHost
               /\ srcs \in [Plugin -> SourceOrNone] /\ Received(srcs, at)
<1> DEFINE at == NextReceipt(lastHost, received)
           srcs == [sources EXCEPT ![p] = SourceAfter(p, f, at)]
<1>1. at \in Host /\ at > lastHost /\ lastHost \in Host
  BY ClockFacts DEF StateInv
<1>2. SourceAfter(p, f, at) \in Source
  <2>1. sources[p].ts \in 0 .. MaxTick /\ sources[p].clock \in 0 .. MaxTick
    BY SourceFields DEF StateInv
  <2> HIDE DEF at
  <2> QED BY <1>1, <2>1 DEF SourceAfter, Source, Frame
<1>3. SourceAfter(p, f, at).at = at
  BY DEF SourceAfter
<1>4. srcs \in [Plugin -> SourceOrNone]
  <2> HIDE DEF at
  <2> QED BY <1>2 DEF StateInv, SourceOrNone
<1>5. srcs[p].at = at /\ \A q \in Plugin \ {p} : srcs[q] = sources[q]
  <2> HIDE DEF at
  <2> QED BY <1>3 DEF StateInv
<1>6. \A q \in Plugin : sources[q].at \in Host /\ sources[q].at <= lastHost
  BY SourceFields, TrackingAssumption DEF StateInv, Received, NoSource, Host
<1>7. Received(srcs, at)
  <2> HIDE DEF at, srcs
  <2> SUFFICES ASSUME NEW q \in Plugin, srcs[q] # NoSource
               PROVE  /\ 0 < srcs[q].at /\ srcs[q].at <= at
                      /\ \A r \in Plugin : q # r => srcs[q].at # srcs[r].at
    BY DEF Received
  <2>1. CASE q = p
    BY <1>1, <1>5, <1>6, <2>1 DEF Host
  <2>2. CASE q # p
    <3>1. 0 < srcs[q].at /\ srcs[q].at <= at
      BY <1>1, <1>5, <1>6, <2>2 DEF Host, StateInv, Received
    <3>2. ASSUME NEW r \in Plugin, q # r PROVE srcs[q].at # srcs[r].at
      <4>1. CASE r = p
        BY <1>1, <1>5, <1>6, <2>2, <4>1 DEF Host
      <4>2. CASE r # p
        BY <1>5, <2>2, <3>2, <4>2 DEF StateInv, Received
      <4> QED BY <4>1, <4>2
    <3> QED BY <3>1, <3>2
  <2> QED BY <2>1, <2>2
<1> QED BY <1>1, <1>4, <1>7

\* Accept as a merge of the new sources.
LEMMA AcceptEffect ==
    ASSUME StateInv, NEW p \in Plugin, NEW f \in Frame, NEW received \in Host, NEW now \in Host,
           Accept(p, f, received, now)
    PROVE  LET at == NextReceipt(lastHost, received)
               srcs == [sources EXCEPT ![p] = SourceAfter(p, f, at)]
           IN  /\ sources' = srcs
               /\ Recompute(srcs, routing, at, \E c \in Cap : selected[c] = p, now)
<1> DEFINE at == NextReceipt(lastHost, received)
           old  == [sources EXCEPT ![p] =
                      [caps |-> f.caps, at |-> at, seq |-> f.seq, bare |-> f.bare,
                       ts |-> IF f.ts # 0 THEN f.ts ELSE @.ts,
                       clock |-> IF f.clock # 0 THEN f.clock ELSE @.clock]]
           srcs == [sources EXCEPT ![p] = SourceAfter(p, f, at)]
<1>1. old = srcs
  BY DEF SourceAfter
<1>2. sources' = old /\ Recompute(old, routing, at, \E c \in Cap : selected[c] = p, now)
  BY Zenon DEF Accept
<1> HIDE DEF old, srcs
<1> QED BY <1>1, <1>2, Zenon DEF srcs

LEMMA AcceptKeeps ==
    ASSUME ServiceInv, NEW p \in PluginOrNone, NEW g, NEW f \in Frame,
           NEW received \in Host, NEW now \in Host,
           Reason(p, g, f) = "none", Accept(p, f, received, now)
    PROVE  ServiceInv'
<1>1. StateInv /\ p \in Plugin /\ generation > 0 /\ lastHost # MaxHost
  BY ReasonNone DEF ServiceInv, StateInv, PluginOrNone
<1>2. PICK at : at = NextReceipt(lastHost, received)
  OBVIOUS
<1>3. PICK srcs : srcs = [sources EXCEPT ![p] = SourceAfter(p, f, at)]
  OBVIOUS
<1>4. PICK force \in BOOLEAN : force = (\E c \in Cap : selected[c] = p)
  OBVIOUS
<1>5. sources' = srcs /\ Recompute(srcs, routing, at, force, now)
  <2>1. LET at2 == NextReceipt(lastHost, received)
            srcs2 == [sources EXCEPT ![p] = SourceAfter(p, f, at2)]
        IN  /\ sources' = srcs2
            /\ Recompute(srcs2, routing, at2, \E c \in Cap : selected[c] = p, now)
    BY <1>1, AcceptEffect
  <2> QED BY <1>2, <1>3, <1>4, <2>1
<1>6. at \in Host /\ at > lastHost /\ srcs \in [Plugin -> SourceOrNone] /\ Received(srcs, at)
  BY <1>1, <1>2, <1>3, AcceptedSources
<1>7. PICK rt \in Routing : rt = routing
  BY <1>1 DEF StateInv
<1>8. /\ generation' = generation /\ routing' = rt
      /\ accepted' \in 0 .. MaxCount /\ rejected' \in 0 .. MaxCount /\ lastRejection' \in Reasons
      /\ mergedSubs' = mergedSubs /\ mergedSeen' = mergedSeen
      /\ summarySubs' = summarySubs /\ summarySeen' = summarySeen
  BY <1>1, <1>7, SaturatedTyped, TrackingAssumption DEF Accept, restOfSubs, StateInv
<1>9. at >= lastHost
  BY <1>1, <1>6 DEF StateInv, Host
<1>10. Recompute(srcs, rt, at, force, now)
  BY <1>5, <1>7
<1>11. StateInv' /\ MergedInv'
  BY <1>1, <1>5, <1>6, <1>8, <1>9, <1>10, MergeKeeps
<1>12. SummaryInv'
  BY <1>8, SummaryKept DEF ServiceInv, Accept
<1> QED BY <1>11, <1>12 DEF ServiceInv

LEMMA SubmitKeeps ==
    ASSUME ServiceInv, NEW p \in PluginOrNone, NEW g, NEW f \in Frame, NEW wall \in SUBSET Host,
           Submit(p, g, f, wall)
    PROVE  ServiceInv'
BY AcceptKeeps, RejectKeeps DEF Submit

LEMMA SetRoutingKeeps ==
    ASSUME ServiceInv, NEW r \in Routing, NEW now \in Host, SetRouting(r, now)
    PROVE  ServiceInv'
<1>1. StateInv /\ SummaryInv'
  BY SummaryKept DEF ServiceInv, SetRouting, restOfSubs
<1>2. CASE generation = 0
  <2>1. StateInv'
    BY <1>1, <1>2 DEF StateInv, SetRouting, countVars, MergedMatchesSources
  <2>2. MergedInv'
    BY <1>2, <2>1, MergedKept DEF ServiceInv, StateInv, SetRouting, restOfSubs
  <2> QED BY <1>1, <2>1, <2>2 DEF ServiceInv
<1>3. CASE generation # 0
  <2>1. PICK srcs : srcs = sources
    OBVIOUS
  <2>2. PICK last : last = lastHost
    OBVIOUS
  <2>3. Recompute(srcs, r, last, TRUE, now)
    BY <1>3, <2>1, <2>2 DEF SetRouting
  <2>4. generation > 0 /\ srcs \in [Plugin -> SourceOrNone] /\ last \in Host /\ last >= lastHost
        /\ Received(srcs, last)
    BY <1>1, <1>3, <2>1, <2>2 DEF StateInv, Host
  <2>5. /\ generation' = generation /\ routing' = r /\ sources' = srcs
        /\ accepted' \in 0 .. MaxCount /\ rejected' \in 0 .. MaxCount /\ lastRejection' \in Reasons
        /\ mergedSubs' = mergedSubs /\ mergedSeen' = mergedSeen
    BY <1>1, <2>1 DEF SetRouting, restOfSubs, countVars, StateInv
  <2> QED BY <1>1, <2>3, <2>4, <2>5, MergeKeeps DEF ServiceInv
<1> QED BY <1>2, <1>3

LEMMA RemoveSourceKeeps ==
    ASSUME ServiceInv, NEW p \in Plugin, NEW now \in Host, RemoveSource(p, now)
    PROVE  ServiceInv'
<1>1. StateInv /\ SummaryInv'
  BY SummaryKept DEF ServiceInv, RemoveSource, restOfSubs
<1>2. PICK srcs : srcs = [sources EXCEPT ![p] = NoSource]
  OBVIOUS
<1>3. PICK last : last = lastHost
  OBVIOUS
<1>4. PICK rt \in Routing : rt = routing
  BY <1>1 DEF StateInv
<1>5. sources' = srcs /\ Recompute(srcs, rt, last, FALSE, now)
  BY <1>2, <1>3, <1>4, Zenon DEF RemoveSource
<1>6. generation > 0
  BY <1>1 DEF RemoveSource, StateInv
<1>7. srcs \in [Plugin -> SourceOrNone] /\ last \in Host /\ last >= lastHost
  BY <1>1, <1>2, <1>3 DEF StateInv, Host, SourceOrNone
<1>8. Received(srcs, last)
  <2> SUFFICES ASSUME NEW q \in Plugin, srcs[q] # NoSource
               PROVE  /\ 0 < srcs[q].at /\ srcs[q].at <= last
                      /\ \A r \in Plugin : q # r => srcs[q].at # srcs[r].at
    BY DEF Received
  <2>1. q # p /\ srcs[q] = sources[q]
    BY <1>1, <1>2 DEF StateInv
  <2>2. \A r \in Plugin : srcs[r] = sources[r] \/ srcs[r].at = 0
    BY <1>1, <1>2 DEF StateInv, NoSource
  <2>3. 0 < sources[q].at /\ sources[q].at <= last /\ \A r \in Plugin : q # r => sources[q].at # sources[r].at
    BY <1>1, <1>3, <2>1 DEF StateInv, Received
  <2>4. sources[q].at \in Host
    BY <1>1, SourceFields DEF StateInv
  <2> QED BY <2>1, <2>2, <2>3, <2>4 DEF Host
<1>9. /\ generation' = generation /\ routing' = rt
      /\ accepted' \in 0 .. MaxCount /\ rejected' \in 0 .. MaxCount /\ lastRejection' \in Reasons
      /\ mergedSubs' = mergedSubs /\ mergedSeen' = mergedSeen
  BY <1>1, <1>4 DEF RemoveSource, restOfSubs, countVars, StateInv
<1> QED BY <1>1, <1>5, <1>6, <1>7, <1>8, <1>9, MergeKeeps DEF ServiceInv

\* Subscribers.
SubscriberStep ==
    \/ \E x \in MergedSub : SubscribeMerged(x) \/ CancelMerged(x) \/ ReceiveMerged(x)
    \/ \E x \in SummarySub : SubscribeSummary(x) \/ CancelSummary(x) \/ ReceiveSummary(x)

LEMMA SummaryStays ==
    ASSUME UNCHANGED <<stateVars, countVars>>
    PROVE  Summary' = Summary
BY DEF stateVars, countVars, Summary

LEMMA StateStays ==
    ASSUME StateInv, UNCHANGED <<stateVars, countVars>>
    PROVE  StateInv'
BY DEF stateVars, countVars, StateInv, MergedMatchesSources

LEMMA SubscriberKeeps ==
    ASSUME ServiceInv, SubscriberStep
    PROVE  ServiceInv' /\ UNCHANGED <<stateVars, countVars>>
<1>1. UNCHANGED <<stateVars, countVars>>
  BY DEF SubscriberStep, SubscribeMerged, CancelMerged, ReceiveMerged, SubscribeSummary, CancelSummary, ReceiveSummary
<1>2. StateInv' /\ Summary' = Summary /\ latest' = latest /\ generation' = generation /\ latest \in Merged
  BY <1>1, StateStays, SummaryStays DEF ServiceInv, stateVars, StateInv
<1>3. MergedInv /\ SummaryInv
  BY DEF ServiceInv
<1>4. ASSUME NEW x \in MergedSub, SubscribeMerged(x) PROVE MergedInv' /\ SummaryInv'
  <2>1. /\ mergedSubs' = mergedSubs \cup {x}
        /\ mergedSlot' = [mergedSlot EXCEPT ![x] = IF generation > 0 THEN {latest} ELSE {}]
        /\ mergedSeen' = [mergedSeen EXCEPT ![x] = NoFrame]
        /\ summarySubs' = summarySubs /\ summarySlot' = summarySlot /\ summarySeen' = summarySeen
    BY <1>4 DEF SubscribeMerged, OfferOnSubscribe
  <2>2. SummaryInv'
    BY <1>2, <1>3, <2>1, SummaryKept
  <2>3. \A y \in MergedSub : mergedSlot'[y] = IF y = x THEN IF generation > 0 THEN {latest} ELSE {} ELSE mergedSlot[y]
    BY <1>3, <2>1 DEF MergedInv, IsFunction
  <2>4. \A y \in MergedSub : y # x => mergedSeen'[y] = mergedSeen[y]
    BY <1>3, <2>1 DEF MergedInv, IsFunction
  <2>5. IsFunction(mergedSlot', MergedSub) /\ IsFunction(mergedSeen', MergedSub)
    BY <1>3, <2>1 DEF MergedInv, IsFunction
  <2>6. NoMergedFrameLost'
    BY <1>2, <1>3, <2>1, <2>3, <2>4 DEF MergedInv, NoMergedFrameLost
  <2> QED BY <1>2, <1>3, <2>1, <2>2, <2>3, <2>5, <2>6 DEF MergedInv
<1>5. ASSUME NEW x \in MergedSub, CancelMerged(x) PROVE MergedInv' /\ SummaryInv'
  <2>1. SummaryInv'
    BY <1>2, <1>3, <1>5, SummaryKept DEF CancelMerged
  <2>2. MergedInv'
    BY <1>2, <1>3, <1>5 DEF CancelMerged, MergedInv, NoMergedFrameLost, IsFunction
  <2> QED BY <2>1, <2>2
<1>6. ASSUME NEW x \in MergedSub, ReceiveMerged(x) PROVE MergedInv' /\ SummaryInv'
  <2>1. SummaryInv'
    BY <1>2, <1>3, <1>6, SummaryKept DEF ReceiveMerged
  <2>2. PICK m \in mergedSlot[x] : mergedSeen' = [mergedSeen EXCEPT ![x] = m]
    BY <1>6 DEF ReceiveMerged
  <2>3. mergedSlot' = [mergedSlot EXCEPT ![x] = {}] /\ mergedSubs' = mergedSubs
    BY <1>6 DEF ReceiveMerged
  <2>4. \A y \in MergedSub : /\ mergedSlot'[y] = IF y = x THEN {} ELSE mergedSlot[y]
                             /\ mergedSeen'[y] = IF y = x THEN m ELSE mergedSeen[y]
    BY <1>3, <2>2, <2>3 DEF MergedInv, IsFunction
  <2>5. IsFunction(mergedSlot', MergedSub) /\ IsFunction(mergedSeen', MergedSub)
    BY <1>3, <2>2, <2>3 DEF MergedInv, IsFunction
  <2>6. NoMergedFrameLost'
    BY <1>2, <1>3, <2>2, <2>3, <2>4 DEF MergedInv, NoMergedFrameLost
  <2> QED BY <1>3, <2>1, <2>3, <2>4, <2>5, <2>6 DEF MergedInv
<1>7. ASSUME NEW x \in SummarySub, SubscribeSummary(x) PROVE MergedInv' /\ SummaryInv'
  <2>1. MergedInv'
    BY <1>2, <1>3, <1>7, MergedKept DEF SubscribeSummary
  <2>2. SummaryInv'
    BY <1>2, <1>3, <1>7 DEF SubscribeSummary, SummaryInv, NoSummaryLost, IsFunction
  <2> QED BY <2>1, <2>2
<1>8. ASSUME NEW x \in SummarySub, CancelSummary(x) PROVE MergedInv' /\ SummaryInv'
  <2>1. MergedInv'
    BY <1>2, <1>3, <1>8, MergedKept DEF CancelSummary
  <2>2. SummaryInv'
    BY <1>2, <1>3, <1>8 DEF CancelSummary, SummaryInv, NoSummaryLost, IsFunction
  <2> QED BY <2>1, <2>2
<1>9. ASSUME NEW x \in SummarySub, ReceiveSummary(x) PROVE MergedInv' /\ SummaryInv'
  <2>1. MergedInv'
    BY <1>2, <1>3, <1>9, MergedKept DEF ReceiveSummary
  <2>2. PICK m \in summarySlot[x] : summarySeen' = [summarySeen EXCEPT ![x] = m]
    BY <1>9 DEF ReceiveSummary
  <2>3. summarySlot' = [summarySlot EXCEPT ![x] = {}] /\ summarySubs' = summarySubs
    BY <1>9 DEF ReceiveSummary
  <2>4. \A y \in SummarySub : /\ summarySlot'[y] = IF y = x THEN {} ELSE summarySlot[y]
                              /\ summarySeen'[y] = IF y = x THEN m ELSE summarySeen[y]
    BY <1>3, <2>2, <2>3 DEF SummaryInv, IsFunction
  <2>5. IsFunction(summarySlot', SummarySub) /\ IsFunction(summarySeen', SummarySub)
    BY <1>3, <2>2, <2>3 DEF SummaryInv, IsFunction
  <2>6. NoSummaryLost'
    BY <1>2, <1>3, <2>2, <2>3, <2>4 DEF SummaryInv, NoSummaryLost
  <2> QED BY <1>3, <2>1, <2>3, <2>5, <2>6 DEF SummaryInv
<1> QED BY <1>1, <1>2, <1>4, <1>5, <1>6, <1>7, <1>8, <1>9 DEF SubscriberStep, ServiceInv

\* What a step does to the service.
SourceStep ==
    \/ \E g \in 0 .. MaxGeneration, now \in Host : SetGeneration(g, now)
    \/ \E p \in PluginOrNone, f \in Frame, wall \in SUBSET Host : \E g \in Nat : Submit(p, g, f, wall)
    \/ \E r \in Routing, now \in Host : SetRouting(r, now)
    \/ \E p \in Plugin, now \in Host : RemoveSource(p, now)

LEMMA ServiceKept ==
    ASSUME ServiceInv, SourceStep \/ SubscriberStep \/ UNCHANGED vars
    PROVE  ServiceInv'
<1>1. CASE UNCHANGED vars
  <2>1. UNCHANGED <<stateVars, countVars>> /\ UNCHANGED subVars
    BY <1>1 DEF vars
  <2>2. StateInv' /\ Summary' = Summary
    BY <2>1, StateStays, SummaryStays DEF ServiceInv
  <2> QED BY <2>1, <2>2, MergedKept, SummaryKept DEF ServiceInv, StateInv, stateVars, subVars
<1> QED BY <1>1, SubscriberKeeps, SetGenerationKeeps, SubmitKeeps, SetRoutingKeeps, RemoveSourceKeeps DEF SourceStep

LEMMA MergeSteps ==
    ASSUME StateInv, generation > 0, NEW srcs \in [Plugin -> SourceOrNone], NEW rt \in Routing,
           NEW last \in Host, NEW now \in Host, NEW force \in BOOLEAN, last >= lastHost,
           Recompute(srcs, rt, last, force, now),
           generation' = generation, sources' = srcs, routing' = rt,
           \A p \in Plugin : srcs[p] = sources[p] \/ srcs[p] = NoSource \/ srcs[p].at > lastHost
    PROVE  AutoIsSticky /\ MergedAdvances
<1> DEFINE Effect ==
           /\ selected' \in Selection
           /\ \A c \in Cap : /\ selected'[c] = Resolve(rt[c], selected[c], srcs, c)
                             /\ selected'[c] = Resolve(rt[c], selected'[c], srcs, c)
                             /\ selected'[c] # NoPlugin => Has(srcs, selected'[c], c)
           /\ lastHost' \in Host /\ lastHost' >= last
           /\ latest' \in Merged /\ latest'.gen = generation /\ latest'.src = selected'
           /\ latest'.at = Times(selected', srcs)
           /\ \/ /\ latest' = latest /\ mergedSlot' = mergedSlot
                 /\ lastHost' = last /\ ~force /\ selected' = selected
              \/ /\ latest'.seq = Saturated(latest.seq, MaxMerged)
                 /\ latest'.updated = lastHost' /\ latest'.bare = BareOf(selected', srcs)
                 /\ PublishMerged
<1>1. Effect
  BY RecomputeEffect, Zenon
<1>2. AutoIsSticky
  <2> SUFFICES ASSUME NEW c \in Cap, selected'[c] # selected[c], selected[c] # NoPlugin,
                      rt = routing, Has(srcs, selected[c], c)
               PROVE  FALSE
    BY DEF AutoIsSticky
  <2>1. selected[c] = Resolve(rt[c], selected[c], sources, c)
    BY DEF StateInv, MergedMatchesSources
  <2>2. rt[c] \in PluginOrNone /\ selected[c] \in PluginOrNone /\ sources \in [Plugin -> SourceOrNone]
    BY DEF StateInv, Routing, Selection, PluginOrNone
  <2>3. Resolve(rt[c], selected[c], srcs, c) = selected[c]
    BY <2>1, <2>2, ResolveSticks
  <2> QED BY <1>1, <2>3
<1>3. latest' # latest => /\ latest'.seq = Saturated(latest.seq, MaxMerged)
                          /\ latest'.updated >= latest.updated /\ latest'.gen >= latest.gen
  BY <1>1, TrackingAssumption DEF StateInv, MergedMatchesSources, Merged, Host
<1>4. ASSUME NEW p \in Plugin, NEW c \in Cap, srcs[p] # sources[p], selected[c] = p, latest' = latest
      PROVE  FALSE
  <2>1. latest.src = selected /\ latest.at = Times(selected, sources)
    BY DEF StateInv, MergedMatchesSources
  <2>2. selected' = selected /\ latest.at = Times(selected, srcs)
    BY <1>1, <1>4, <2>1
  <2>3. p # NoPlugin
    BY NoPluginIsNone
  <2>4. srcs[p].at = sources[p].at
    BY <1>4, <2>1, <2>2, <2>3 DEF Times
  <2>5. srcs[p] # NoSource
    BY <1>1, <1>4, <2>2, <2>3 DEF Has, NoSource
  <2>6. sources[p].at <= lastHost /\ sources[p].at \in Host /\ lastHost \in Host
    BY SourceFields, TrackingAssumption DEF StateInv, Received, NoSource, Host
  <2> QED BY <1>4, <2>4, <2>5, <2>6 DEF Host
<1> QED BY <1>2, <1>3, <1>4 DEF MergedAdvances

LEMMA StepsStutter ==
    ASSUME UNCHANGED stateVars
    PROVE  AutoIsSticky /\ MergedAdvances
BY DEF stateVars, AutoIsSticky, MergedAdvances

LEMMA SubmitSteps ==
    ASSUME StateInv, NEW p \in PluginOrNone, NEW g, NEW f \in Frame, NEW wall \in SUBSET Host,
           Submit(p, g, f, wall)
    PROVE  AutoIsSticky /\ MergedAdvances
<1>1. CASE Reason(p, g, f) # "none"
  BY <1>1, StepsStutter DEF Submit, Reject
<1>2. CASE Reason(p, g, f) = "none"
  <2>1. PICK received \in Host, now \in Host : Accept(p, f, received, now)
    BY <1>2 DEF Submit
  <2>2. p \in Plugin /\ generation > 0 /\ lastHost # MaxHost
    BY <1>2, ReasonNone DEF StateInv, PluginOrNone
  <2>3. PICK at : at = NextReceipt(lastHost, received)
    OBVIOUS
  <2>4. PICK srcs : srcs = [sources EXCEPT ![p] = SourceAfter(p, f, at)]
    OBVIOUS
  <2>5. PICK force \in BOOLEAN : force = (\E c \in Cap : selected[c] = p)
    OBVIOUS
  <2>6. PICK rt \in Routing : rt = routing
    BY DEF StateInv
  <2>7. sources' = srcs /\ Recompute(srcs, rt, at, force, now)
    <3>1. LET at2 == NextReceipt(lastHost, received)
              srcs2 == [sources EXCEPT ![p] = SourceAfter(p, f, at2)]
          IN  /\ sources' = srcs2
              /\ Recompute(srcs2, routing, at2, \E c \in Cap : selected[c] = p, now)
      BY <2>1, <2>2, AcceptEffect
    <3> QED BY <2>3, <2>4, <2>5, <2>6, <3>1
  <2>8. at \in Host /\ at > lastHost /\ srcs \in [Plugin -> SourceOrNone]
    BY <2>2, <2>3, <2>4, AcceptedSources
  <2>9. \A q \in Plugin : srcs[q] = sources[q] \/ srcs[q].at > lastHost
    BY <2>2, <2>4, <2>8 DEF StateInv, SourceAfter
  <2>10. generation' = generation /\ routing' = rt /\ at >= lastHost
    BY <2>1, <2>6, <2>8 DEF Accept, StateInv, Host
  <2> QED BY <2>2, <2>7, <2>8, <2>9, <2>10, MergeSteps
<1> QED BY <1>1, <1>2

LEMMA ServiceSteps ==
    ASSUME ServiceInv, SourceStep \/ SubscriberStep \/ UNCHANGED vars
    PROVE  AutoIsSticky /\ MergedAdvances
<1>1. StateInv
  BY DEF ServiceInv
<1>2. ASSUME NEW g \in 0 .. MaxGeneration, NEW now \in Host, SetGeneration(g, now)
      PROVE  AutoIsSticky /\ MergedAdvances
  <2>1. generation' = g /\ g > generation /\ latest'.gen = g /\ latest'.seq = Saturated(latest.seq, MaxMerged)
        /\ latest'.updated = lastHost' /\ lastHost' = NextTime(lastHost, now)
    BY <1>2 DEF SetGeneration, NoFrame
  <2>2. lastHost' \in Host /\ lastHost' >= lastHost
    BY <1>1, <2>1, ClockFacts DEF StateInv
  <2>3. AutoIsSticky
    BY <1>1, <2>1 DEF AutoIsSticky, StateInv
  <2>4. latest.gen <= generation /\ latest.gen # g
    BY <1>1, <2>1 DEF StateInv, MergedMatchesSources, NoFrame
  <2>5. latest'.updated >= latest.updated
    BY <1>1, <2>1, <2>2, TrackingAssumption DEF StateInv, Merged, Host
  <2>6. latest' # latest /\ latest'.gen >= latest.gen
    <3>1. latest.gen \in Nat /\ generation \in Nat
      BY <1>1, TrackingAssumption DEF StateInv, Merged
    <3> QED BY <2>1, <2>4, <3>1
  <2> QED BY <2>1, <2>3, <2>5, <2>6 DEF MergedAdvances
<1>3. ASSUME NEW r \in Routing, NEW now \in Host, SetRouting(r, now)
      PROVE  AutoIsSticky /\ MergedAdvances
  <2>1. CASE generation = 0
    BY <1>3, <2>1 DEF SetRouting, AutoIsSticky, MergedAdvances
  <2>2. CASE generation # 0
    <3>1. PICK srcs : srcs = sources
      OBVIOUS
    <3>2. PICK last : last = lastHost
      OBVIOUS
    <3>3. Recompute(srcs, r, last, TRUE, now) /\ generation' = generation /\ routing' = r /\ sources' = srcs
      BY <1>3, <2>2, <3>1, <3>2 DEF SetRouting
    <3>4. generation > 0 /\ srcs \in [Plugin -> SourceOrNone] /\ last \in Host /\ last >= lastHost
      BY <1>1, <2>2, <3>1, <3>2 DEF StateInv, Host
    <3> QED BY <1>1, <3>1, <3>3, <3>4, MergeSteps
  <2> QED BY <2>1, <2>2
<1>4. ASSUME NEW p \in Plugin, NEW now \in Host, RemoveSource(p, now)
      PROVE  AutoIsSticky /\ MergedAdvances
  <2>1. PICK srcs : srcs = [sources EXCEPT ![p] = NoSource]
    OBVIOUS
  <2>2. PICK last : last = lastHost
    OBVIOUS
  <2>3. PICK rt \in Routing : rt = routing
    BY <1>1 DEF StateInv
  <2>4. sources' = srcs /\ Recompute(srcs, rt, last, FALSE, now) /\ generation' = generation /\ routing' = rt
    BY <1>4, <2>1, <2>2, <2>3, Zenon DEF RemoveSource
  <2>5. generation > 0
    BY <1>1, <1>4 DEF RemoveSource, StateInv
  <2>6. srcs \in [Plugin -> SourceOrNone] /\ last \in Host /\ last >= lastHost
        /\ \A q \in Plugin : srcs[q] = sources[q] \/ srcs[q] = NoSource
    BY <1>1, <2>1, <2>2 DEF StateInv, Host, SourceOrNone
  <2> QED BY <1>1, <2>4, <2>5, <2>6, MergeSteps
<1>5. ASSUME SubscriberStep \/ UNCHANGED vars PROVE AutoIsSticky /\ MergedAdvances
  BY <1>5, SubscriberKeeps, StepsStutter DEF vars
<1> QED BY <1>1, <1>2, <1>3, <1>4, <1>5, SubmitSteps DEF SourceStep

-----------------------------------------------------------------------------
(* The driver: types. *)

LEMMA PortFacts == NoPort \in PortOrNone /\ NoPort \notin Port /\ PortOrNone \subseteq Nat
BY SteamLinkAssumption DEF PortOrNone, NoPort

LEMMA BindTyped ==
    ASSUME NEW d \in DriverState, NEW p \in PortOrNone, NEW keep \in BOOLEAN
    PROVE  Bind(d, p, keep) \in DriverState
BY DEF Bind, DriverState

LEMMA ConfigureTyped ==
    ASSUME NEW d \in DriverState, NEW p \in PortOrNone
    PROVE  Configure(d, p) \in DriverState
<1>1. Bind(d, p, FALSE) \in DriverState
  BY BindTyped
<1>2. [d EXCEPT !.at = "select", !.error = TRUE,
                !.retry = IF d.port = NoPort THEN [port |-> p, clears |-> TRUE] ELSE @] \in DriverState
  BY DEF DriverState
<1> QED BY <1>1, <1>2 DEF Configure

LEMMA ChangesTyped ==
    ASSUME DriverTypeOK, NEW d \in DriverState, Changes(d)
    PROVE  drv' \in DriverState /\ gate' \in GateState
<1>1. [d EXCEPT !.at = "fence"] \in DriverState
  BY DEF DriverState
<1>2. [gate EXCEPT !.epoch = @ + 1] \in GateState
  BY DEF DriverTypeOK, GateState
<1> QED BY <1>1, <1>2 DEF Changes, DriverTypeOK

LEMMA HandleEventTyped ==
    ASSUME DriverTypeOK, HandleEvent
    PROVE  DriverTypeOK'
<1>1. /\ drv \in DriverState /\ host.inbox \in Seq(Event) /\ host.inbox # <<>>
      /\ gate \in GateState
  BY DEF DriverTypeOK, HandleEvent, HostState
<1>2. PICK e \in Event : e = Head(host.inbox)
  BY <1>1
<1>3. Tail(host.inbox) \in Seq(Event)
  BY <1>1
<1>4. \/ e.kind = "active" /\ Changes([drv EXCEPT !.active = (e.value = 1)])
      \/ e.kind = "subscription" /\ Changes([drv EXCEPT !.gen = e.value])
      \/ e.kind = "config" /\ ConfigChanged(e.value)
      \/ e.kind = "shutdown" /\ drv' = [drv EXCEPT !.at = "returned"] /\ gate' = gate
  BY <1>2 DEF HandleEvent
<1>5. drv' \in DriverState /\ gate' \in GateState
  <2>1. CASE Changes([drv EXCEPT !.active = (e.value = 1)])
    <3>1. [drv EXCEPT !.active = (e.value = 1)] \in DriverState
      BY <1>1 DEF DriverState
    <3> QED BY <2>1, <3>1, ChangesTyped
  <2>2. CASE e.kind = "subscription" /\ Changes([drv EXCEPT !.gen = e.value])
    <3>1. e.value \in Nat
      BY <1>2, <2>2 DEF Event
    <3>2. [drv EXCEPT !.gen = e.value] \in DriverState
      BY <1>1, <3>1 DEF DriverState
    <3> QED BY <2>2, <3>2, ChangesTyped
  <2>3. CASE e.kind = "config" /\ ConfigChanged(e.value)
    <3>1. e.value \in PortOrNone
      BY <1>2, <2>3 DEF Event
    <3>2. PICK d \in DriverState : d = [drv EXCEPT !.wanted = e.value]
      BY <1>1, <3>1 DEF DriverState
    <3>3. /\ drv' = IF e.value = NoPort THEN [d EXCEPT !.error = TRUE, !.retry.clears = FALSE]
                    ELSE IF e.value = drv.port THEN [d EXCEPT !.error = FALSE, !.retry = NoRetry]
                    ELSE Configure(d, e.value)
          /\ gate' = gate
      BY <2>3, <3>2, Zenon DEF ConfigChanged
    <3>4. [d EXCEPT !.error = TRUE, !.retry.clears = FALSE] \in DriverState
      BY DEF DriverState
    <3>5. [d EXCEPT !.error = FALSE, !.retry = NoRetry] \in DriverState
      BY PortFacts DEF DriverState, NoRetry
    <3>6. Configure(d, e.value) \in DriverState
      BY <3>1, ConfigureTyped
    <3> QED BY <1>1, <3>3, <3>4, <3>5, <3>6
  <2>4. CASE drv' = [drv EXCEPT !.at = "returned"] /\ gate' = gate
    BY <1>1, <2>4 DEF DriverState
  <2> QED BY <1>4, <2>1, <2>2, <2>3, <2>4
<1>6. recv' \in {NoReceiver, recv} /\ host' = [host EXCEPT !.inbox = Tail(@)] /\ UNCHANGED <<sample, queue, time, busy>>
  BY DEF HandleEvent
<1>7. host' \in HostState
  <2>1. host \in HostState
    BY DEF DriverTypeOK
  <2> QED BY <1>3, <1>6, <2>1 DEF HostState
<1>8. recv' \in ReceiverState
  <2>1. NoReceiver \in ReceiverState /\ recv \in ReceiverState
    BY DEF DriverTypeOK, NoReceiver, ReceiverState
  <2> QED BY <1>6, <2>1
<1> QED BY <1>5, <1>6, <1>7, <1>8 DEF DriverTypeOK

LEMMA Initials ==
    NoReceiver \in ReceiverState /\ NoSample \in SampleState /\ Nothing \in SlotFrame
BY SteamLinkAssumption DEF NoReceiver, ReceiverState, NoSample, SampleState, Nothing, SlotFrame

LEMMA DriverStartTyped ==
    ASSUME DriverTypeOK, NEW active \in BOOLEAN, NEW gen \in Nat, NEW config \in PortOrNone,
           DriverStart(active, gen, config)
    PROVE  DriverTypeOK'
<1>1. drv \in DriverState /\ host \in HostState
  BY DEF DriverTypeOK
<1>2. PICK d \in DriverState : d = [drv EXCEPT !.active = active, !.gen = gen, !.wanted = config]
  BY <1>1 DEF DriverState
<1>3. drv' = IF config = NoPort THEN [d EXCEPT !.at = "select", !.error = TRUE] ELSE Configure(d, config)
  BY <1>2, Zenon DEF DriverStart
<1>4. drv' \in DriverState
  <2>1. [d EXCEPT !.at = "select", !.error = TRUE] \in DriverState
    BY DEF DriverState
  <2> QED BY <1>3, <2>1, ConfigureTyped
<1>5. host' \in HostState
  BY <1>1 DEF DriverStart, HostState
<1> QED BY <1>4, <1>5 DEF DriverTypeOK, DriverStart

LEMMA TransitionTyped ==
    ASSUME DriverTypeOK, Join \/ Fence \/ Retry \/ WorkerDone
    PROVE  DriverTypeOK'
<1>1. drv \in DriverState /\ gate \in GateState /\ recv \in ReceiverState /\ time \in Nat
  BY SteamLinkAssumption DEF DriverTypeOK
<1>2. ASSUME Join PROVE DriverTypeOK'
  <2>1. [drv EXCEPT !.at = "returned"] \in DriverState
        /\ [drv EXCEPT !.at = "fence", !.port = drv.cand, !.retry = NoRetry, !.error = drv.keep] \in DriverState
    BY <1>1, PortFacts DEF DriverState, NoRetry
  <2>2. [gate EXCEPT !.epoch = @ + 1] \in GateState
    BY <1>1 DEF GateState
  <2> QED BY <1>1, <1>2, <2>1, <2>2, Initials DEF Join, DriverTypeOK
<1>3. ASSUME Fence PROVE DriverTypeOK'
  <2>1. ResetStream(drv) \in DriverState
    BY <1>1, PortFacts DEF DriverState, ResetStream
  <2>2. [gate EXCEPT !.fence = time] \in GateState
    BY <1>1 DEF GateState
  <2>3. [NoReceiver EXCEPT !.at = "reading"] \in ReceiverState
    BY Initials DEF ReceiverState
  <2> QED BY <1>1, <1>3, <2>1, <2>2, <2>3, Initials DEF Fence, DriverTypeOK
<1>4. ASSUME Retry PROVE DriverTypeOK'
  <2>1. drv.retry.port \in PortOrNone /\ (~drv.retry.clears) \in BOOLEAN
    BY <1>1 DEF DriverState
  <2>2. Bind(drv, drv.retry.port, ~drv.retry.clears) \in DriverState
    BY <1>1, <2>1, BindTyped
  <2> QED BY <1>4, <2>2 DEF Retry, DriverTypeOK
<1>5. ASSUME WorkerDone PROVE DriverTypeOK'
  <2>1. [drv EXCEPT !.at = "returned"] \in DriverState
    BY <1>1 DEF DriverState
  <2> QED BY <1>5, <2>1, Initials DEF WorkerDone, DriverTypeOK
<1> QED BY <1>2, <1>3, <1>4, <1>5

LEMMA ReceiverTyped ==
    ASSUME DriverTypeOK, ReceiverStep
    PROVE  DriverTypeOK'
<1>1. gate \in GateState /\ recv \in ReceiverState /\ time \in Nat /\ queue \in Seq(Datagram)
  BY SteamLinkAssumption DEF DriverTypeOK
<1>2. ASSUME Receive PROVE DriverTypeOK'
  <2>1. [recv EXCEPT !.at = "stamped", !.stamp = time, !.era = gate.epoch] \in ReceiverState
    BY <1>1 DEF ReceiverState, GateState
  <2> QED BY <1>2, <2>1 DEF Receive, DriverTypeOK
<1>3. ASSUME Enqueue PROVE DriverTypeOK'
  <2>1. [at |-> recv.stamp, epoch |-> gate.epoch, era |-> recv.era] \in Datagram
    BY <1>1 DEF ReceiverState, GateState, Datagram
  <2>2. queue' \in Seq(Datagram)
    BY <1>1, <1>3, <2>1 DEF Enqueue
  <2>3. [NoReceiver EXCEPT !.at = "reading"] \in ReceiverState
    BY Initials DEF ReceiverState
  <2> QED BY <1>3, <2>2, <2>3 DEF Enqueue, DriverTypeOK
<1>4. ASSUME ReceiverEnds PROVE DriverTypeOK'
  <2>1. PICK failed \in BOOLEAN : recv' = [NoReceiver EXCEPT !.at = "ended", !.failed = failed]
    BY <1>4 DEF ReceiverEnds
  <2>2. [NoReceiver EXCEPT !.at = "ended", !.failed = failed] \in ReceiverState
    BY Initials DEF ReceiverState
  <2> QED BY <1>4, <2>1, <2>2 DEF ReceiverEnds, DriverTypeOK
<1> QED BY <1>2, <1>3, <1>4 DEF ReceiverStep

LEMMA TakePacketTyped ==
    ASSUME DriverTypeOK, NEW useful \in BOOLEAN, TakePacket(useful)
    PROVE  DriverTypeOK'
<1>1. drv \in DriverState /\ sample \in SampleState /\ queue \in Seq(Datagram) /\ queue # <<>>
  BY DEF DriverTypeOK, TakePacket
<1>2. PICK d \in Datagram : d = Head(queue)
  BY <1>1
<1>3. \/ sample' = [seen |-> TRUE, at |-> d.at, era |-> d.era, old |-> FALSE] /\ drv' = [drv EXCEPT !.dirty = TRUE]
      \/ sample' = sample /\ drv' = drv
  BY <1>2 DEF TakePacket
<1>4. [seen |-> TRUE, at |-> d.at, era |-> d.era, old |-> FALSE] \in SampleState
  BY DEF Datagram, SampleState
<1>5. [drv EXCEPT !.dirty = TRUE] \in DriverState
  BY <1>1 DEF DriverState
<1>6. Tail(queue) \in Seq(Datagram)
  BY <1>1
<1> QED BY <1>1, <1>3, <1>4, <1>5, <1>6 DEF TakePacket, DriverTypeOK

\* What a tick publishes, if it does.
TickTime == IF drv.ts < time THEN time ELSE drv.ts + 1

LEMMA DriverTickCases ==
    ASSUME NEW expired \in BOOLEAN, DriverTick(expired), DriverTypeOK
    PROVE  /\ drv.at = "select" /\ drv.retry = NoRetry /\ drv.seq < MaxFrames
           /\ UNCHANGED <<gate, recv, queue, time, busy>>
           /\ \E old \in BOOLEAN : sample' = [sample EXCEPT !.old = old]
           /\ \/ drv' = [drv EXCEPT !.dirty = FALSE] /\ host' = host
              \/ \E payload \in {"valid", "empty"} :
                   /\ drv' = [drv EXCEPT !.dirty = FALSE, !.prev = payload, !.seq = drv.seq + 1, !.ts = TickTime]
                   /\ \/ host' = host
                      \/ host.gen > 0 /\ host' = [host EXCEPT !.slot =
                           [gen |-> host.gen, seq |-> drv.seq + 1, ts |-> TickTime, bare |-> (payload = "empty")]]
<1> DEFINE old     == sample.old \/ expired
           payload == IF sample.seen /\ ~old THEN "valid" ELSE "empty"
           frame1  == [gen |-> 0, seq |-> drv.seq + 1, ts |-> TickTime, bare |-> payload = "empty"]
<1>1. /\ drv.at = "select" /\ drv.retry = NoRetry /\ drv.seq < MaxFrames
      /\ UNCHANGED <<gate, recv, queue, time, busy>>
      /\ sample' = [sample EXCEPT !.old = old /\ sample.seen]
  BY DEF DriverTick
<1>2. \/ drv' = [drv EXCEPT !.dirty = FALSE] /\ host' = host
      \/ /\ drv' = [drv EXCEPT !.dirty = FALSE, !.prev = payload, !.seq = @ + 1, !.ts = TickTime]
         /\ PublishFrame(frame1)
  BY Zenon DEF DriverTick, TickTime
<1>3. (old /\ sample.seen) \in BOOLEAN /\ payload \in {"valid", "empty"}
  OBVIOUS
<1>4. [frame1 EXCEPT !.gen = host.gen] = [gen |-> host.gen, seq |-> drv.seq + 1, ts |-> TickTime, bare |-> (payload = "empty")]
  OBVIOUS
<1>5. [drv EXCEPT !.dirty = FALSE, !.prev = payload, !.seq = @ + 1, !.ts = TickTime]
        = [drv EXCEPT !.dirty = FALSE, !.prev = payload, !.seq = drv.seq + 1, !.ts = TickTime]
  OBVIOUS
<1> HIDE DEF old, payload, frame1
<1>6. PublishFrame(frame1) =>
        host' = host \/ (host.gen > 0 /\ host' = [host EXCEPT !.slot = [frame1 EXCEPT !.gen = host.gen]])
  BY Zenon DEF PublishFrame
<1> QED BY <1>1, <1>2, <1>3, <1>4, <1>5, <1>6, Zenon

LEMMA DriverTickTyped ==
    ASSUME DriverTypeOK, NEW expired \in BOOLEAN, DriverTick(expired)
    PROVE  DriverTypeOK'
<1>1. drv \in DriverState /\ sample \in SampleState /\ host \in HostState /\ time \in Nat /\ drv.seq < MaxFrames
  BY SteamLinkAssumption, DriverTickCases DEF DriverTypeOK
<1>2. sample' \in SampleState
  BY <1>1, DriverTickCases DEF SampleState
<1>3. TickTime \in Nat /\ drv.seq + 1 \in 0 .. MaxFrames /\ drv.seq \in Nat
  BY <1>1, SteamLinkAssumption DEF TickTime, DriverState
<1>4. drv' \in DriverState
  <2>1. [drv EXCEPT !.dirty = FALSE] \in DriverState
    BY <1>1 DEF DriverState
  <2>2. ASSUME NEW payload \in {"valid", "empty"}
        PROVE  [drv EXCEPT !.dirty = FALSE, !.prev = payload, !.seq = drv.seq + 1, !.ts = TickTime] \in DriverState
    BY <1>1, <1>3 DEF DriverState
  <2> QED BY <2>1, <2>2, DriverTickCases
<1>5. host' \in HostState
  <2>1. ASSUME NEW b \in BOOLEAN
        PROVE  [host EXCEPT !.slot = [gen |-> host.gen, seq |-> drv.seq + 1, ts |-> TickTime, bare |-> b]] \in HostState
    BY <1>1, <1>3 DEF HostState, SlotFrame
  <2> QED BY <1>1, <2>1, DriverTickCases
<1> QED BY <1>2, <1>4, <1>5, DriverTickCases DEF DriverTypeOK

\* A control that the runtime passes on.
LEMMA HostControlCases ==
    ASSUME NEW kind, NEW value, HostControl(kind, value)
    PROVE  /\ drv.at \notin {"start", "returned"} /\ UNCHANGED <<drv, sample, gate, recv, queue, time, busy>>
           /\ \E slot \in {Nothing, host.slot}, active \in {value = 1, host.active} :
                host' = [active |-> active, gen |-> IF kind = "subscription" THEN value ELSE host.gen,
                         inbox |-> Append(host.inbox, [kind |-> kind, value |-> value]), slot |-> slot,
                         controls |-> host.controls + 1]
                \/ host \notin HostState
<1> DEFINE active == IF kind = "active" THEN value = 1 ELSE host.active
           slot == IF kind = "subscription" \/ (kind = "active" /\ value = 0) THEN Nothing ELSE host.slot
<1>1. /\ drv.at \notin {"start", "returned"} /\ UNCHANGED <<drv, sample, gate, recv, queue, time, busy>>
      /\ host' = [host EXCEPT !.inbox = Append(@, [kind |-> kind, value |-> value]), !.controls = @ + 1,
                    !.active = IF kind = "active" THEN value = 1 ELSE @,
                    !.gen = IF kind = "subscription" THEN value ELSE @,
                    !.slot = IF kind = "subscription" \/ (kind = "active" /\ value = 0) THEN Nothing ELSE @]
  BY DEF HostControl
<1>2. slot \in {Nothing, host.slot} /\ active \in {value = 1, host.active}
  OBVIOUS
<1>3. host \in HostState =>
        host' = [active |-> active, gen |-> IF kind = "subscription" THEN value ELSE host.gen,
                 inbox |-> Append(host.inbox, [kind |-> kind, value |-> value]), slot |-> slot,
                 controls |-> host.controls + 1]
  BY <1>1 DEF HostState
<1> QED BY <1>1, <1>2, <1>3

LEMMA HostControlTyped ==
    ASSUME DriverTypeOK, NEW kind, NEW value, [kind |-> kind, value |-> value] \in Event,
           kind = "subscription" => value \in Nat, HostControl(kind, value)
    PROVE  DriverTypeOK'
<1>1. host \in HostState
  BY DEF DriverTypeOK
<1>2. PICK slot \in {Nothing, host.slot}, active \in {value = 1, host.active} :
        host' = [active |-> active, gen |-> IF kind = "subscription" THEN value ELSE host.gen,
                 inbox |-> Append(host.inbox, [kind |-> kind, value |-> value]), slot |-> slot,
                 controls |-> host.controls + 1]
  BY <1>1, HostControlCases
<1>3. slot \in SlotFrame /\ active \in BOOLEAN
  BY <1>1, Initials DEF HostState
<1>4. Append(host.inbox, [kind |-> kind, value |-> value]) \in Seq(Event)
  BY <1>1 DEF HostState
<1>5. (IF kind = "subscription" THEN value ELSE host.gen) \in Nat /\ host.controls + 1 \in Nat
  BY <1>1 DEF HostState
<1>6. host' \in HostState
  BY <1>2, <1>3, <1>4, <1>5 DEF HostState
<1> QED BY <1>6, HostControlCases DEF DriverTypeOK

\* The steps of the driver and of its world, with their arguments typed.
EventOf(kind, value) == [kind |-> kind, value |-> value]

DriverStep ==
    \/ Join \/ Fence \/ Retry \/ WorkerDone \/ HandleEvent \/ ReceiverStep \/ Advance
    \/ \E b \in BOOLEAN : TakePacket(b) \/ DriverTick(b)
    \/ \E taken \in SUBSET Port : Others(taken)
    \/ \E kind \in {"active", "subscription", "config", "shutdown"}, value \in Nat :
         EventOf(kind, value) \in Event /\ HostControl(kind, value)
    \/ \E active \in BOOLEAN, gen \in Nat, config \in PortOrNone : DriverStart(active, gen, config)

LEMMA DriverTyped ==
    ASSUME DriverTypeOK, DriverStep
    PROVE  DriverTypeOK'
<1>1. ASSUME Advance PROVE DriverTypeOK'
  BY <1>1, SteamLinkAssumption DEF Advance, DriverTypeOK
<1>2. ASSUME NEW taken \in SUBSET Port, Others(taken) PROVE DriverTypeOK'
  BY <1>2 DEF Others, DriverTypeOK
<1> QED BY <1>1, <1>2, TransitionTyped, HandleEventTyped, ReceiverTyped, TakePacketTyped, DriverTickTyped,
        HostControlTyped, DriverStartTyped DEF DriverStep, EventOf

\* The runtime's slot is emptied and the service has the frame.
LEMMA DeliverTyped ==
    ASSUME DriverTypeOK, Deliver
    PROVE  DriverTypeOK'
<1>1. host' \in HostState
  BY Initials DEF Deliver, DriverTypeOK, HostState
<1> QED BY <1>1 DEF Deliver, DriverTypeOK

-----------------------------------------------------------------------------
(* The driver: the stream of its frames. *)

LEMMA LeastPlugin == Least(Plugin) \in Plugin
<1>1. Plugin \in SUBSET Nat /\ Plugin # {}
  BY TrackingAssumption, LoopAssumption
<1> QED BY <1>1, LeastIsLeast

StreamUntouched == drv'.seq = drv.seq /\ drv'.ts = drv.ts /\ host'.slot \in {host.slot, Nothing}

LEMMA HandleEventStream ==
    ASSUME DriverTypeOK, HandleEvent
    PROVE  StreamUntouched
<1>1. drv \in DriverState /\ host \in HostState
  BY DEF DriverTypeOK
<1>2. host'.slot = host.slot
  BY <1>1 DEF HandleEvent, HostState
<1>3. PICK e : e = Head(host.inbox)
  OBVIOUS
<1>4. \/ Changes([drv EXCEPT !.active = (e.value = 1)])
      \/ Changes([drv EXCEPT !.gen = e.value])
      \/ ConfigChanged(e.value)
      \/ drv' = [drv EXCEPT !.at = "returned"]
  BY <1>3 DEF HandleEvent
<1>5. CASE Changes([drv EXCEPT !.active = (e.value = 1)])
  <2>1. PICK b \in BOOLEAN : b = (e.value = 1)
    OBVIOUS
  <2>2. Changes([drv EXCEPT !.active = b])
    BY <1>5, <2>1
  <2> QED BY ZenonT(60), <1>1, <1>2, <2>2 DEF Changes, StreamUntouched, DriverState
<1>6. CASE Changes([drv EXCEPT !.gen = e.value])
  BY ZenonT(60), <1>1, <1>2, <1>6 DEF Changes, StreamUntouched, DriverState
<1>7. CASE ConfigChanged(e.value)
  <2>1. PICK d : d = [drv EXCEPT !.wanted = e.value]
    OBVIOUS
  <2>2. drv' = IF e.value = NoPort THEN [d EXCEPT !.error = TRUE, !.retry.clears = FALSE]
               ELSE IF e.value = drv.port THEN [d EXCEPT !.error = FALSE, !.retry = NoRetry]
               ELSE Configure(d, e.value)
    BY <1>7, <2>1, Zenon DEF ConfigChanged
  <2>3. d.seq = drv.seq /\ d.ts = drv.ts /\ DOMAIN d = DOMAIN drv
    BY <1>1, <2>1 DEF DriverState
  <2>4. DOMAIN drv = {"at", "active", "gen", "port", "cand", "keep", "retry", "error", "wanted", "dirty", "prev", "seq", "ts"}
    BY <1>1 DEF DriverState
  <2>5. drv'.seq = d.seq /\ drv'.ts = d.ts
    BY <2>2, <2>3, <2>4 DEF Configure, Bind
  <2> QED BY <1>2, <2>3, <2>5 DEF StreamUntouched
<1>8. CASE drv' = [drv EXCEPT !.at = "returned"]
  BY <1>1, <1>2, <1>8 DEF StreamUntouched, DriverState
<1> QED BY <1>4, <1>5, <1>6, <1>7, <1>8

LEMMA DriverStartStream ==
    ASSUME DriverTypeOK, NEW active, NEW gen, NEW config, DriverStart(active, gen, config)
    PROVE  StreamUntouched
<1>1. drv \in DriverState /\ host \in HostState
  BY DEF DriverTypeOK
<1>2. PICK d : d = [drv EXCEPT !.active = active, !.gen = gen, !.wanted = config]
  OBVIOUS
<1>3. drv' = IF config = NoPort THEN [d EXCEPT !.at = "select", !.error = TRUE] ELSE Configure(d, config)
  BY <1>2, Zenon DEF DriverStart
<1>4. d.seq = drv.seq /\ d.ts = drv.ts
      /\ DOMAIN d = {"at", "active", "gen", "port", "cand", "keep", "retry", "error", "wanted", "dirty", "prev", "seq", "ts"}
  BY <1>1, <1>2 DEF DriverState
<1>5. drv'.seq = d.seq /\ drv'.ts = d.ts
  BY <1>3, <1>4 DEF Configure, Bind
<1>6. host'.slot = host.slot
  BY <1>1 DEF DriverStart, HostState
<1> QED BY <1>4, <1>5, <1>6 DEF StreamUntouched

\* Only a tick makes a frame.
LEMMA OthersStream ==
    ASSUME DriverTypeOK, DriverStep
    PROVE  StreamUntouched \/ \E b \in BOOLEAN : DriverTick(b)
<1>1. drv \in DriverState /\ host \in HostState
  BY DEF DriverTypeOK
<1>2. CASE Join \/ Fence \/ Retry \/ WorkerDone
  <2>1. CASE Join
    BY <1>1, <2>1 DEF Join, StreamUntouched, DriverState
  <2>2. CASE Fence
    BY <1>1, <2>2 DEF Fence, ResetStream, StreamUntouched, DriverState
  <2>3. CASE Retry
    BY <1>1, <2>3 DEF Retry, Bind, StreamUntouched, DriverState
  <2>4. CASE WorkerDone
    BY <1>1, <2>4 DEF WorkerDone, StreamUntouched, DriverState
  <2> QED BY <1>2, <2>1, <2>2, <2>3, <2>4
<1>3. CASE ReceiverStep \/ Advance \/ \E taken \in SUBSET Port : Others(taken)
  BY <1>3 DEF ReceiverStep, Receive, Enqueue, ReceiverEnds, Advance, Others, StreamUntouched
<1>4. ASSUME NEW b \in BOOLEAN, TakePacket(b) PROVE StreamUntouched
  <2>1. drv' \in {drv, [drv EXCEPT !.dirty = TRUE]} /\ host' = host
    BY <1>4 DEF TakePacket
  <2> QED BY <1>1, <2>1 DEF StreamUntouched, DriverState
<1>5. ASSUME NEW kind, NEW value, HostControl(kind, value) PROVE StreamUntouched
  <2>1. drv' = drv
    BY <1>5 DEF HostControl
  <2>2. host'.slot \in {Nothing, host.slot}
    <3>1. PICK slot \in {Nothing, host.slot}, a \in {value = 1, host.active} :
            host' = [active |-> a, gen |-> IF kind = "subscription" THEN value ELSE host.gen,
                     inbox |-> Append(host.inbox, [kind |-> kind, value |-> value]), slot |-> slot,
                     controls |-> host.controls + 1]
      BY <1>1, <1>5, HostControlCases
    <3>2. host'.slot = slot
      BY <3>1
    <3> QED BY <3>2
  <2> QED BY <2>1, <2>2 DEF StreamUntouched
<1> QED BY <1>2, <1>3, <1>4, <1>5, HandleEventStream, DriverStartStream DEF DriverStep

\* What the service knows of the source of the driver, unless it gets a frame.
LEMMA StreamOfDriver ==
    ASSUME StateInv, DriverTypeOK, StreamInv, DriverStep, usage.driver # {}, UNCHANGED <<vars, usage>>
    PROVE  StreamInv'
<1>1. drv \in DriverState /\ host \in HostState /\ host.slot \in SlotFrame
  BY DEF DriverTypeOK, HostState
<1>2. sources' = sources /\ usage' = usage
  BY DEF vars, stateVars
<1>3. CASE StreamUntouched
  <2>1. drv'.seq = drv.seq /\ drv'.ts = drv.ts /\ drv.seq \in Nat /\ drv.ts \in Nat
    BY <1>1, <1>3, SteamLinkAssumption DEF StreamUntouched, DriverState
  <2>2. CASE host'.slot = host.slot
    BY <1>2, <2>1, <2>2 DEF StreamInv
  <2>3. CASE host'.slot = Nothing
    BY <1>2, <2>1, <2>3 DEF StreamInv, Nothing
  <2> QED BY <1>3, <2>2, <2>3 DEF StreamUntouched
<1>4. ASSUME NEW b \in BOOLEAN, DriverTick(b) PROVE StreamInv'
  <2>1. TickTime \in Nat /\ TickTime > drv.ts /\ TickTime <= MaxTime + drv.seq + 1 /\ drv.seq \in Nat /\ drv.ts \in Nat
    BY <1>1, SteamLinkAssumption DEF TickTime, DriverState, DriverTypeOK, StreamInv
  <2>2. \/ drv'.seq = drv.seq /\ drv'.ts = drv.ts /\ host' = host
        \/ /\ drv'.seq = drv.seq + 1 /\ drv'.ts = TickTime
           /\ host' = host \/ (host'.slot.gen > 0 /\ host'.slot.seq = drv.seq + 1 /\ host'.slot.ts = TickTime)
    <3>1. \/ drv' = [drv EXCEPT !.dirty = FALSE] /\ host' = host
          \/ \E payload \in {"valid", "empty"} :
               /\ drv' = [drv EXCEPT !.dirty = FALSE, !.prev = payload, !.seq = drv.seq + 1, !.ts = TickTime]
               /\ \/ host' = host
                  \/ host.gen > 0 /\ host' = [host EXCEPT !.slot =
                       [gen |-> host.gen, seq |-> drv.seq + 1, ts |-> TickTime, bare |-> (payload = "empty")]]
      BY <1>4, DriverTickCases
    <3>2. CASE drv' = [drv EXCEPT !.dirty = FALSE] /\ host' = host
      BY <1>1, <3>2 DEF DriverState
    <3>3. ASSUME NEW payload \in {"valid", "empty"},
                 drv' = [drv EXCEPT !.dirty = FALSE, !.prev = payload, !.seq = drv.seq + 1, !.ts = TickTime]
          PROVE  drv'.seq = drv.seq + 1 /\ drv'.ts = TickTime
      BY <1>1, <3>3 DEF DriverState
    <3>4. ASSUME NEW b2 \in BOOLEAN, host.gen > 0,
                 host' = [host EXCEPT !.slot = [gen |-> host.gen, seq |-> drv.seq + 1, ts |-> TickTime, bare |-> b2]]
          PROVE  host'.slot.gen > 0 /\ host'.slot.seq = drv.seq + 1 /\ host'.slot.ts = TickTime
      BY <1>1, <3>4 DEF HostState
    <3> QED BY <3>1, <3>2, <3>3, <3>4
  <2>3. host.slot.seq \in Nat /\ host.slot.ts \in Nat
    BY <1>1, SteamLinkAssumption DEF SlotFrame
  <2>4. usage.driver # {} => /\ sources[Least(Plugin)].seq \in Int /\ sources[Least(Plugin)].ts \in Int
                             /\ sources[Least(Plugin)].seq <= drv.seq /\ sources[Least(Plugin)].ts <= drv.ts
                             /\ sources[Least(Plugin)].clock = 0
    <3>1. sources[Least(Plugin)] \in SourceOrNone
      BY LeastPlugin DEF StateInv
    <3>2. sources[Least(Plugin)].seq \in Int /\ sources[Least(Plugin)].ts \in Int
      BY <3>1, SourceFields, TrackingAssumption
    <3> QED BY <3>2 DEF StreamInv
  <2>5. CASE drv'.seq = drv.seq /\ drv'.ts = drv.ts /\ host' = host
    BY <1>2, <2>5 DEF StreamInv
  <2>6. CASE drv'.seq = drv.seq + 1 /\ drv'.ts = TickTime /\ host' = host
    BY <1>2, <2>1, <2>3, <2>4, <2>6, SteamLinkAssumption DEF StreamInv
  <2>7. CASE drv'.seq = drv.seq + 1 /\ drv'.ts = TickTime
             /\ host'.slot.gen > 0 /\ host'.slot.seq = drv.seq + 1 /\ host'.slot.ts = TickTime
    BY <1>2, <2>1, <2>4, <2>7, SteamLinkAssumption DEF StreamInv
  <2> QED BY <2>2, <2>5, <2>6, <2>7
<1> QED BY <1>3, <1>4, OthersStream

\* The actions of the specification by what they do to the service.
LEMMA ServingCases ==
    ASSUME usage \in Usage, ServiceInv, Serving
    PROVE  /\ SourceStep \/ SubscriberStep \/ UNCHANGED vars
           /\ usage' = usage /\ UNCHANGED driverVars
           /\ usage.driver # {} => sources'[Least(Plugin)] \in {sources[Least(Plugin)], NoSource}
<1> DEFINE L == Least(Plugin)
           Goal == /\ SourceStep \/ SubscriberStep \/ UNCHANGED vars
                   /\ usage.driver # {} => sources'[L] \in {sources[L], NoSource}
<1>1. L \in Plugin /\ (usage.driver # {} => L \notin usage.plugins)
  BY LeastPlugin, LoopAssumption
<1>2. /\ usage.frames \subseteq Frame /\ usage.wall \in SUBSET Host /\ usage.plugins \subseteq Plugin
      /\ usage.generations \in 0 .. MaxGeneration /\ Loop \in MergedSub
  BY LoopAssumption
<1>3. sources \in [Plugin -> SourceOrNone]
  BY DEF ServiceInv, StateInv
<1> HIDE DEF L
<1>4. SubscriberStep => Goal
  BY SubscriberKeeps DEF stateVars
<1>5. UNCHANGED vars => Goal
  BY DEF vars, stateVars
<1>6. ASSUME NEW g \in 1 .. usage.generations, NEW now \in usage.wall, SetGeneration(g, now) PROVE Goal
  <2>1. g \in 0 .. MaxGeneration /\ now \in Host
    BY <1>2, TrackingAssumption
  <2>2. sources' = [p \in Plugin |-> NoSource]
    BY <1>6 DEF SetGeneration
  <2> QED BY <1>1, <1>6, <2>1, <2>2 DEF SourceStep
<1>7. ASSUME NEW p \in usage.plugins \cup {NoPlugin}, NEW g \in 0 .. MaxGeneration, NEW f \in usage.frames,
             Submit(p, g, f, usage.wall)
      PROVE  Goal
  <2>1. p \in PluginOrNone /\ g \in Nat /\ f \in Frame
    BY <1>2, TrackingAssumption DEF PluginOrNone
  <2>2. SourceStep
    BY <1>2, <1>7, <2>1 DEF SourceStep
  <2>3. sources' = sources \/ \E v : sources' = [sources EXCEPT ![p] = v]
    BY <1>7 DEF Submit, Reject, Accept, stateVars
  <2>4. usage.driver # {} => p # L
    BY <1>1, NoPluginIsNone
  <2> QED BY <1>1, <1>3, <2>2, <2>3, <2>4
<1>8. ASSUME NEW r \in Routing, NEW now \in usage.wall, SetRouting(r, now) PROVE Goal
  BY <1>2, <1>8 DEF SourceStep, SetRouting
<1>9. ASSUME NEW p \in usage.plugins, NEW now \in usage.wall, RemoveSource(p, now) PROVE Goal
  <2>1. SourceStep
    BY <1>2, <1>9 DEF SourceStep
  <2>2. sources' = [sources EXCEPT ![p] = NoSource]
    BY <1>9 DEF RemoveSource
  <2> QED BY <1>1, <1>3, <2>1, <2>2
<1>10. Use => Goal
  BY <1>4, <1>7, <1>8, <1>9 DEF Use, SubscriberStep
<1>11. ASSUME NEW g \in 1 .. usage.generations, NEW now \in usage.wall, Activate(g, now) PROVE Goal /\ usage' = usage
  BY <1>6, <1>11 DEF Activate
<1>12. ASSUME NEW x \in MergedSub, Subscribe(x) PROVE Goal
  BY <1>4, <1>12 DEF Subscribe, SubscriberStep
<1>13. ASSUME NEW wall \in usage.wall, ReceiveFrame(wall) PROVE Goal /\ usage' = usage
  BY <1>2, <1>4, <1>13 DEF ReceiveFrame, SubscriberStep
<1>14. ASSUME NEW wall \in usage.wall, Tick(wall) PROVE Goal /\ usage' = usage
  BY <1>5, <1>14 DEF Tick
<1>15. Goal /\ usage' = usage /\ UNCHANGED driverVars
  BY <1>10, <1>11, <1>12, <1>13, <1>14 DEF Serving
<1> QED BY <1>15 DEF L

LEMMA DrivingCases ==
    ASSUME usage \in Usage, ServiceInv, DriverTypeOK, Driving
    PROVE  /\ usage.driver # {} /\ UNCHANGED <<usage, loopVars>>
           /\ Deliver \/ (DriverStep /\ UNCHANGED vars)
<1>1. usage.ports \subseteq Port
  BY LoopAssumption
<1>2. generation \in Nat
  BY TrackingAssumption DEF ServiceInv, StateInv
<1>3. WorldStep(usage.ports) => DriverStep
  BY <1>1 DEF WorldStep, DriverStep
<1>4. DriverLoop \/ ReceiverStep => DriverStep
  BY DEF DriverLoop, DriverStep
<1>5. Launch => DriverStep
  BY <1>1, <1>2 DEF Launch, DriverStep, PortOrNone
<1>6. Control => DriverStep
  <2>1. ASSUME NEW active \in 0 .. 1, HostControl("active", active) PROVE DriverStep
    <3>1. EventOf("active", active) \in Event /\ active \in Nat
      BY DEF EventOf, Event
    <3> QED BY <2>1, <3>1 DEF DriverStep
  <2>2. ASSUME HostControl("subscription", generation) PROVE DriverStep
    <3>1. EventOf("subscription", generation) \in Event
      BY <1>2 DEF EventOf, Event
    <3> QED BY <1>2, <2>2, <3>1 DEF DriverStep
  <2>3. ASSUME NEW config \in usage.ports \cup {NoPort}, HostControl("config", config) PROVE DriverStep
    <3>1. config \in PortOrNone /\ config \in Nat
      BY <1>1, PortFacts DEF PortOrNone
    <3>2. EventOf("config", config) \in Event
      BY <3>1 DEF EventOf, Event
    <3> QED BY <2>3, <3>1, <3>2 DEF DriverStep
  <2>4. ASSUME HostControl("shutdown", 0) PROVE DriverStep
    <3>1. EventOf("shutdown", 0) \in Event
      BY DEF EventOf, Event
    <3> QED BY <2>4, <3>1 DEF DriverStep
  <2> QED BY <2>1, <2>2, <2>3, <2>4 DEF Control
<1> QED BY <1>3, <1>4, <1>5, <1>6 DEF Driving

\* A frame of the driver is one that the service accepts from a plugin.
LEMMA SentTyped ==
    ASSUME DriverTypeOK, StreamInv
    PROVE  Sent \in Frame
<1>1. drv \in DriverState /\ host.slot \in SlotFrame
  BY DEF DriverTypeOK, HostState
<1>2. host.slot.seq \in 0 .. MaxSequence /\ host.slot.bare \in BOOLEAN
  BY <1>1, SteamLinkAssumption, TrackingAssumption, LoopAssumption DEF SlotFrame
<1>3. host.slot.ts \in 0 .. MaxTick
  BY <1>1, SteamLinkAssumption, TrackingAssumption, LoopAssumption DEF SlotFrame, StreamInv, DriverState
<1>4. {"eye"} \in SUBSET Cap /\ 0 \in 0 .. MaxTick
  BY LoopAssumption, TrackingAssumption
<1> QED BY <1>2, <1>3, <1>4 DEF Sent, Frame

LEMMA DeliverSource ==
    ASSUME usage \in Usage, ServiceInv, DriverTypeOK, StreamInv, Deliver
    PROVE  SourceStep
<1>1. Sent \in Frame /\ Least(Plugin) \in PluginOrNone /\ usage.wall \in SUBSET Host
  BY SentTyped, LeastPlugin, LoopAssumption DEF PluginOrNone
<1>2. host.slot.gen \in Nat
  BY DEF DriverTypeOK, HostState, SlotFrame
<1> QED BY <1>1, <1>2 DEF Deliver, SourceStep

\* The service takes the frame in the slot.
LEMMA ReasonAllPass ==
    ASSUME NEW p \in Plugin, NEW g \in Nat, NEW f \in Frame, g # 0, g = generation,
           f.canonical, ~f.negative, f.seq > sources[p].seq, f.ts >= sources[p].ts, f.clock = 0,
           lastHost # MaxHost, StateInv
    PROVE  Reason(p, g, f) = "none"
<1> DEFINE prev   == IF p \in Plugin THEN sources[p] ELSE NoSource
           fails  == <<p = NoPlugin, generation = 0, g = 0, g < generation, g > generation,
                       ~f.canonical, f.seq <= prev.seq, f.negative,
                       f.ts # 0 /\ f.ts < prev.ts, f.clock # 0 /\ f.clock < prev.clock,
                       lastHost = MaxHost>>
           failed == {i \in 1 .. 11 : fails[i]}
<1>1. Reason(p, g, f) = IF failed = {} THEN "none" ELSE CheckReason[Least(failed)]
  BY Zenon DEF Reason
<1>2. prev = sources[p] /\ prev.seq \in Int /\ prev.ts \in Nat /\ f.seq \in Nat /\ f.ts \in Nat
  BY SourceFields, TrackingAssumption DEF StateInv, Frame
<1>3. ~(p = NoPlugin) /\ ~(generation = 0) /\ ~(g < generation) /\ ~(g > generation)
  BY NoPluginIsNone
<1>4. ~(f.seq <= prev.seq) /\ ~(f.ts < prev.ts)
  <2> HIDE DEF prev
  <2> QED BY <1>2
<1> HIDE DEF prev
<1>5. ASSUME NEW i \in 1 .. 11 PROVE ~fails[i]
  <2>1. ~fails[1] /\ ~fails[2] /\ ~fails[3] /\ ~fails[4] /\ ~fails[5] /\ ~fails[6] /\ ~fails[7] /\ ~fails[8]
        /\ ~fails[9] /\ ~fails[10] /\ ~fails[11]
    BY <1>3, <1>4
  <2>2. i \in {1, 2, 3, 4, 5, 6, 7, 8, 9, 10, 11}
    OBVIOUS
  <2> HIDE DEF fails
  <2> QED BY <2>1, <2>2
<1>6. failed = {}
  <2> HIDE DEF fails
  <2> QED BY <1>5
<1> QED BY <1>1, <1>6

LEMMA StreamInOrder ==
    ASSUME ServiceInv, DriverTypeOK, StreamInv
    PROVE  FramesInOrder
<1> SUFFICES ASSUME host.slot # Nothing, host.slot.gen = generation, lastHost < MaxHost
             PROVE  Reason(Least(Plugin), generation, Sent) = "none"
  BY DEF FramesInOrder
<1>1. PICK p \in Plugin : p = Least(Plugin)
  BY LeastPlugin
<1>2. PICK f \in Frame : f = Sent
  BY SentTyped
<1>3. PICK g \in Nat : g = generation
  BY TrackingAssumption DEF ServiceInv, StateInv
<1>4. f.canonical /\ ~f.negative /\ f.clock = 0 /\ f.seq = host.slot.seq /\ f.ts = host.slot.ts
  BY <1>2 DEF Sent
<1>5. g # 0 /\ sources[p].seq < host.slot.seq /\ sources[p].ts <= host.slot.ts
  BY <1>1, <1>3 DEF StreamInv
<1>6. lastHost # MaxHost /\ StateInv
  BY TrackingAssumption DEF ServiceInv, StateInv, Host
<1>7. sources[p].seq \in Int /\ sources[p].ts \in Int /\ host.slot.seq \in Int /\ host.slot.ts \in Int
  <2>1. sources[p] \in SourceOrNone
    BY <1>6 DEF StateInv
  <2>2. host.slot \in SlotFrame
    BY DEF DriverTypeOK, HostState
  <2>3. host.slot.seq \in Int /\ host.slot.ts \in Int
    BY <2>2, SteamLinkAssumption DEF SlotFrame
  <2> QED BY <2>1, <2>3, SourceFields, TrackingAssumption
<1>8. f.seq > sources[p].seq /\ f.ts >= sources[p].ts
  BY <1>4, <1>5, <1>7
<1>9. Reason(p, g, f) = "none"
  BY <1>3, <1>4, <1>5, <1>6, <1>8, ReasonAllPass
<1> QED BY <1>1, <1>2, <1>3, <1>9

LEMMA StreamOfService ==
    ASSUME DriverTypeOK, StreamInv, UNCHANGED <<usage, driverVars>>,
           usage.driver # {} => sources'[Least(Plugin)] \in {sources[Least(Plugin)], NoSource}
    PROVE  StreamInv'
<1>1. /\ drv.seq \in Nat /\ drv.ts \in Nat /\ host.slot.seq \in Nat /\ host.slot.ts \in Nat
  BY SMTT(60), SteamLinkAssumption DEF DriverTypeOK, DriverState, HostState, SlotFrame
<1>2. drv' = drv /\ host' = host /\ usage' = usage
  BY DEF driverVars
<1>3. CASE usage.driver = {}
  BY <1>2, <1>3 DEF StreamInv
<1>4. CASE sources'[Least(Plugin)] = sources[Least(Plugin)]
  BY <1>2, <1>4 DEF StreamInv
<1>5. CASE sources'[Least(Plugin)] = NoSource
  BY <1>1, <1>2, <1>5 DEF StreamInv, NoSource
<1> QED BY <1>3, <1>4, <1>5

LEMMA StreamOfDelivery ==
    ASSUME usage \in Usage, StateInv, DriverTypeOK, StreamInv, usage.driver # {}, Deliver, usage' = usage
    PROVE  StreamInv'
<1> DEFINE L == Least(Plugin)
<1>1. /\ drv.seq \in Nat /\ drv.ts \in Nat /\ host.slot.seq \in Nat /\ host.slot.ts \in Nat /\ host \in HostState
      /\ sources \in [Plugin -> SourceOrNone]
  BY SMTT(60), SteamLinkAssumption DEF DriverTypeOK, DriverState, HostState, SlotFrame, StateInv
<1>2. L \in Plugin /\ usage.wall \in SUBSET Host
  BY LeastPlugin, LoopAssumption
<1> HIDE DEF L
<1>3. host'.slot = Nothing /\ drv' = drv
  BY <1>1 DEF Deliver, HostState
<1>4. Submit(L, host.slot.gen, Sent, usage.wall)
  BY DEF Deliver, L
<1>5. /\ sources[L].seq <= drv.seq /\ sources[L].ts <= drv.ts /\ sources[L].clock = 0
      /\ host.slot.seq <= drv.seq /\ host.slot.ts <= drv.ts /\ drv.ts <= MaxTime + drv.seq
  BY DEF StreamInv, L
<1>6. sources'[L].seq <= drv.seq /\ sources'[L].ts <= drv.ts /\ sources'[L].clock = 0
  <2>1. CASE sources' = sources
    BY <1>5, <2>1
  <2>2. CASE Reason(L, host.slot.gen, Sent) = "none"
    <3>1. PICK received \in Host, now \in Host : Accept(L, Sent, received, now)
      BY <1>2, <1>4, <2>2 DEF Submit
    <3>2. PICK at : at = NextReceipt(lastHost, received)
      OBVIOUS
    <3>3. sources' = [sources EXCEPT ![L] = SourceAfter(L, Sent, at)]
      <4>1. Sent \in Frame
        BY SentTyped
      <4> QED BY <1>2, <3>1, <3>2, <4>1, AcceptEffect
    <3>4. sources'[L] = SourceAfter(L, Sent, at)
      BY <1>1, <1>2, <3>3
    <3>5. /\ SourceAfter(L, Sent, at).seq = host.slot.seq
          /\ SourceAfter(L, Sent, at).ts \in {host.slot.ts, sources[L].ts}
          /\ SourceAfter(L, Sent, at).clock = sources[L].clock
      BY DEF SourceAfter, Sent
    <3> QED BY <1>5, <3>4, <3>5
  <2> QED BY <1>4, <2>1, <2>2 DEF Submit, Reject, stateVars
<1>7. Nothing.seq = 0 /\ Nothing.ts = 0
  BY DEF Nothing
<1> QED BY <1>1, <1>3, <1>5, <1>6, <1>7 DEF StreamInv, L

-----------------------------------------------------------------------------
(* The service under the specification. *)

CoreInv == usage \in Usage /\ ServiceInv /\ DriverTypeOK /\ StreamInv

LEMMA CoreInit == LoopInit => CoreInv
<1> SUFFICES ASSUME LoopInit PROVE CoreInv
  OBVIOUS
<1>1. usage \in Usage /\ Init /\ DriverInit(IF usage.driver # {} THEN "start" ELSE "off")
  BY DEF LoopInit
<1>2. StateInv
  <2>1. NoFrame \in Merged /\ [c \in Cap |-> NoPlugin] \in Routing /\ [c \in Cap |-> NoPlugin] \in Selection
    BY TrackingAssumption DEF NoFrame, Merged, Routing, Selection, Host
  <2>2. Received(sources, lastHost) /\ latest.updated <= lastHost
    BY <1>1 DEF Init, Received, NoFrame
  <2>3. MergedMatchesSources
    BY <1>1 DEF Init, MergedMatchesSources
  <2> QED BY <1>1, <2>1, <2>2, <2>3, TrackingAssumption DEF Init, StateInv, Host, Reasons, SourceOrNone
<1>3. MergedInv /\ SummaryInv
  BY <1>1 DEF Init, MergedInv, SummaryInv, IsFunction, NoMergedFrameLost, NoSummaryLost
<1>4. DriverTypeOK
  <2>1. /\ drv \in DriverState
    <3>1. NoPort \in PortOrNone /\ NoRetry \in [port : PortOrNone, clears : BOOLEAN] /\ 0 \in 0 .. MaxFrames
      BY PortFacts, SteamLinkAssumption DEF NoRetry
    <3>2. (IF usage.driver # {} THEN "start" ELSE "off") \in {"off", "start"}
      OBVIOUS
    <3> QED BY <1>1, <3>1, <3>2 DEF DriverInit, DriverState
  <2>2. gate \in GateState /\ time \in 0 .. MaxTime /\ queue \in Seq(Datagram)
    BY <1>1, SteamLinkAssumption DEF DriverInit, GateState
  <2>3. host \in HostState
    <3>1. <<>> \in Seq(Event)
      OBVIOUS
    <3> QED BY <1>1, <3>1, Initials DEF DriverInit, HostState
  <2> QED BY <1>1, <2>1, <2>2, <2>3, Initials DEF DriverInit, DriverTypeOK
<1>5. StreamInv
  <2>1. sources[Least(Plugin)] = NoSource
    BY <1>1, LeastPlugin DEF Init
  <2>2. drv.seq = 0 /\ drv.ts = 0 /\ host.slot = Nothing
    BY <1>1 DEF DriverInit
  <2> QED BY <2>1, <2>2, SteamLinkAssumption DEF StreamInv, NoSource, Nothing
<1> QED BY <1>1, <1>2, <1>3, <1>4, <1>5 DEF CoreInv, ServiceInv

LEMMA StepOfService ==
    ASSUME CoreInv, [Next]_allVars
    PROVE  SourceStep \/ SubscriberStep \/ UNCHANGED vars
<1>1. CASE Serving
  BY <1>1, ServingCases DEF CoreInv
<1>2. CASE Driving
  BY <1>2, DrivingCases, DeliverSource DEF CoreInv
<1>3. CASE UNCHANGED allVars
  BY <1>3 DEF allVars
<1> QED BY <1>1, <1>2, <1>3 DEF Next

LEMMA CoreStep == CoreInv /\ [Next]_allVars => CoreInv'
<1> SUFFICES ASSUME CoreInv, [Next]_allVars PROVE CoreInv'
  OBVIOUS
<1>1. ServiceInv'
  BY StepOfService, ServiceKept DEF CoreInv
<1>2. CASE Serving
  <2>1. /\ usage' = usage /\ UNCHANGED driverVars
        /\ usage.driver # {} => sources'[Least(Plugin)] \in {sources[Least(Plugin)], NoSource}
    BY <1>2, ServingCases DEF CoreInv
  <2>2. DriverTypeOK'
    BY <2>1 DEF CoreInv, DriverTypeOK, driverVars
  <2> QED BY <1>1, <2>1, <2>2, StreamOfService DEF CoreInv
<1>3. CASE Driving
  <2>1. /\ usage.driver # {} /\ UNCHANGED <<usage, loopVars>>
        /\ Deliver \/ (DriverStep /\ UNCHANGED vars)
    BY <1>3, DrivingCases DEF CoreInv
  <2>2. CASE Deliver
    BY <1>1, <2>1, <2>2, DeliverTyped, StreamOfDelivery DEF CoreInv, ServiceInv
  <2>3. CASE DriverStep /\ UNCHANGED vars
    BY <1>1, <2>1, <2>3, DriverTyped, StreamOfDriver DEF CoreInv, ServiceInv
  <2> QED BY <2>1, <2>2, <2>3
<1>4. CASE UNCHANGED allVars
  <2>1. UNCHANGED <<usage, driverVars, vars>>
    BY <1>4 DEF allVars
  <2>2. DriverTypeOK'
    BY <2>1 DEF CoreInv, DriverTypeOK, driverVars
  <2>3. sources' = sources
    BY <2>1 DEF vars, stateVars
  <2> QED BY <1>1, <2>1, <2>2, <2>3, StreamOfService DEF CoreInv
<1> QED BY <1>2, <1>3, <1>4 DEF Next

LEMMA CoreHolds == Spec => []CoreInv
<1>1. CoreInv /\ [Next]_allVars => CoreInv'
  BY CoreStep
<1> QED BY CoreInit, <1>1, PTL DEF Spec

\* The merged frame is that of the sources under the routing, receipt times tell
\* frames apart whatever the wall clock does, and a subscriber that has nothing
\* to receive has seen the latest frame and the latest summary (service.go:
\* recomputeMergedLocked, nextReceiptTimeLocked; subscription.go: offerLatest).
THEOREM ServiceCurrent == Spec => []ServiceIsCurrent
<1>1. CoreInv => ServiceIsCurrent
  BY ServiceTruth DEF CoreInv
<1> QED BY CoreHolds, <1>1, PTL

\* An automatic selection stays with its source, merged frames are numbered
\* without gaps, their time and generation never go back, and a frame of a
\* selected source always makes one (routing.go: chooseAutoSource; service.go:
\* recomputeMergedLocked).
THEOREM MergedStepsHold == Spec => MergedSteps
<1>1. CoreInv /\ [Next]_allVars => [AutoIsSticky /\ MergedAdvances]_vars
  BY StepOfService, ServiceSteps DEF CoreInv
<1> QED BY CoreHolds, <1>1, PTL DEF Spec, MergedSteps

-----------------------------------------------------------------------------
(* The driver: input of an earlier stream. *)

\* No step of the loop but a transition takes it to the fence, or away from it.
LEMMA FenceSame ==
    ASSUME FenceInv, drv.at # "fence", drv'.at # "fence", gate' = gate, time' = time, queue' = queue,
           sample'.seen = sample.seen, sample'.at = sample.at, sample'.era = sample.era,
           recv' = recv \/ recv'.at # "stamped"
    PROVE  FenceInv'
BY DEF FenceInv, InputIsFenced, Fenced

LEMMA FenceBegins ==
    ASSUME FenceInv, DriverTypeOK, drv'.at = "fence", gate' = [gate EXCEPT !.epoch = @ + 1], time' = time,
           queue' = queue, recv' = recv \/ recv'.at # "stamped"
    PROVE  FenceInv'
<1>1. gate'.fence = gate.fence /\ gate'.epoch = gate.epoch + 1 /\ gate.epoch \in Nat
  BY DEF DriverTypeOK, GateState
<1>2. \A i \in DOMAIN queue : queue[i].epoch \in Nat
  <2>1. \A i \in DOMAIN queue : queue[i] \in Datagram
    BY DEF DriverTypeOK
  <2> QED BY <2>1 DEF Datagram
<1> QED BY <1>1, <1>2 DEF FenceInv, InputIsFenced

LEMMA HandleEventCases ==
    ASSUME DriverTypeOK, HandleEvent
    PROVE  /\ drv.at = "select" /\ UNCHANGED <<sample, queue, time, busy>>
           /\ recv' = recv \/ recv'.at # "stamped"
           /\ \/ drv'.at = "fence" /\ gate' = [gate EXCEPT !.epoch = @ + 1]
              \/ drv'.at # "fence" /\ gate' = gate
<1>1. drv \in DriverState /\ drv.at = "select" /\ UNCHANGED <<sample, queue, time, busy>>
      /\ recv' \in {recv, NoReceiver}
  BY DEF DriverTypeOK, HandleEvent
<1>2. recv' = recv \/ recv'.at # "stamped"
  BY <1>1 DEF NoReceiver
<1>3. PICK e : e = Head(host.inbox)
  OBVIOUS
<1>4. \/ Changes([drv EXCEPT !.active = (e.value = 1)])
      \/ Changes([drv EXCEPT !.gen = e.value])
      \/ ConfigChanged(e.value)
      \/ drv' = [drv EXCEPT !.at = "returned"] /\ gate' = gate
  BY <1>3 DEF HandleEvent
<1>5. CASE Changes([drv EXCEPT !.active = (e.value = 1)])
  <2>1. PICK b \in BOOLEAN : b = (e.value = 1)
    OBVIOUS
  <2>2. Changes([drv EXCEPT !.active = b])
    BY <1>5, <2>1
  <2> QED BY <1>1, <1>2, <2>2 DEF Changes, DriverState
<1>6. CASE Changes([drv EXCEPT !.gen = e.value])
  BY <1>1, <1>2, <1>6 DEF Changes, DriverState
<1>7. CASE ConfigChanged(e.value)
  <2>1. PICK d : d = [drv EXCEPT !.wanted = e.value]
    OBVIOUS
  <2>2. /\ drv' = IF e.value = NoPort THEN [d EXCEPT !.error = TRUE, !.retry.clears = FALSE]
                  ELSE IF e.value = drv.port THEN [d EXCEPT !.error = FALSE, !.retry = NoRetry]
                  ELSE Configure(d, e.value)
        /\ gate' = gate
    BY <1>7, <2>1, Zenon DEF ConfigChanged
  <2>3. d.at = "select"
        /\ DOMAIN d = {"at", "active", "gen", "port", "cand", "keep", "retry", "error", "wanted", "dirty", "prev", "seq", "ts"}
    BY <1>1, <2>1 DEF DriverState
  <2>4. drv'.at \in {"select", "join"}
    BY <2>2, <2>3 DEF Configure, Bind
  <2> QED BY <1>1, <1>2, <2>2, <2>4
<1>8. CASE drv' = [drv EXCEPT !.at = "returned"] /\ gate' = gate
  BY <1>1, <1>2, <1>8 DEF DriverState
<1> QED BY <1>4, <1>5, <1>6, <1>7, <1>8

LEMMA FenceKept ==
    ASSUME DriverTypeOK, FenceInv, DriverStep
    PROVE  FenceInv'
<1>1. drv \in DriverState /\ gate \in GateState /\ recv \in ReceiverState /\ sample \in SampleState
      /\ queue \in Seq(Datagram) /\ time \in Nat
  BY SteamLinkAssumption DEF DriverTypeOK
<1>2. NoReceiver.at = "none" /\ NoSample.seen = FALSE
  BY DEF NoReceiver, NoSample
<1>3. ASSUME Join PROVE FenceInv'
  <2>1. CASE recv.failed
    <3>1. drv'.at = "returned" /\ gate' = gate
      BY <1>1, <1>3, <2>1 DEF Join, DriverState
    <3> QED BY <1>2, <1>3, <3>1, FenceSame DEF Join
  <2>2. CASE ~recv.failed
    <3>1. drv'.at = "fence" /\ gate' = [gate EXCEPT !.epoch = @ + 1]
      BY <1>1, <1>3, <2>2 DEF Join, DriverState
    <3> QED BY <1>2, <1>3, <3>1, FenceBegins DEF Join
  <2> QED BY <2>1, <2>2
<1>4. ASSUME Fence PROVE FenceInv'
  <2>1. gate'.fence = time /\ gate'.epoch = gate.epoch /\ sample'.seen = FALSE /\ time' = time /\ queue' = queue
    BY <1>1, <1>2, <1>4 DEF Fence, GateState
  <2>2. recv' = recv \/ recv'.at = "reading"
    BY <1>4 DEF Fence, NoReceiver
  <2>3. \A i \in DOMAIN queue : queue[i].at <= time /\ queue[i].epoch <= gate.epoch
    BY DEF FenceInv
  <2> QED BY <1>1, <2>1, <2>2, <2>3 DEF FenceInv, InputIsFenced, Fenced
<1>5. ASSUME Retry PROVE FenceInv'
  <2>1. drv'.at = "join"
    BY <1>1, <1>5 DEF Retry, Bind, DriverState
  <2> QED BY <1>5, <2>1, FenceSame DEF Retry
<1>6. ASSUME WorkerDone PROVE FenceInv'
  <2>1. drv'.at = "returned"
    BY <1>1, <1>6 DEF WorkerDone, DriverState
  <2> QED BY <1>2, <1>6, <2>1, FenceSame DEF WorkerDone
<1>7. ASSUME HandleEvent PROVE FenceInv'
  BY <1>7, HandleEventCases, FenceSame, FenceBegins
<1>8. ASSUME Receive PROVE FenceInv'
  <2>1. recv'.stamp = time /\ recv'.era = gate.epoch
    BY <1>1, <1>8 DEF Receive, ReceiverState
  <2> QED BY <1>1, <1>8, <2>1 DEF Receive, FenceInv, InputIsFenced, Fenced
<1>9. ASSUME Enqueue PROVE FenceInv'
  <2>1. UNCHANGED <<drv, sample, gate, time>> /\ recv'.at = "reading" /\ recv.at = "stamped"
    BY <1>9 DEF Enqueue, NoReceiver
  <2>2. PICK d \in Datagram : d = [at |-> recv.stamp, epoch |-> gate.epoch, era |-> recv.era]
    BY <1>1 DEF ReceiverState, GateState, Datagram
  <2>3. queue' = queue \/ queue' = Append(queue, d)
    BY <1>9, <2>2 DEF Enqueue
  <2>4. \A i \in DOMAIN queue' : (i \in DOMAIN queue /\ queue'[i] = queue[i]) \/ queue'[i] = d
    <3>1. CASE queue' = Append(queue, d)
      BY <1>1, <3>1
    <3> QED BY <2>3, <3>1
  <2>5. d.at <= time /\ (drv.at # "fence" => Fenced(d.at, d.era)) /\ d.epoch <= gate.epoch
    BY <1>1, <2>1, <2>2 DEF FenceInv, GateState
  <2> QED BY <2>1, <2>4, <2>5 DEF FenceInv, InputIsFenced, Fenced
<1>10. ASSUME ReceiverEnds PROVE FenceInv'
  <2>1. recv'.at = "ended"
    BY <1>10 DEF ReceiverEnds, NoReceiver
  <2> QED BY <1>10, <2>1 DEF ReceiverEnds, FenceInv, InputIsFenced, Fenced
<1>11. ASSUME Advance PROVE FenceInv'
  <2>1. time' = time + 1 /\ UNCHANGED <<drv, sample, gate, recv, queue>>
    BY <1>11 DEF Advance
  <2>2. gate.fence \in Nat /\ recv.stamp \in Nat /\ \A i \in DOMAIN queue : queue[i].at \in Nat
    <3>1. \A i \in DOMAIN queue : queue[i] \in Datagram
      BY <1>1
    <3>2. \A i \in DOMAIN queue : queue[i].at \in Nat
      BY <3>1 DEF Datagram
    <3> QED BY <1>1, <3>2 DEF GateState, ReceiverState
  <2> QED BY <1>1, <2>1, <2>2 DEF FenceInv, InputIsFenced, Fenced
<1>12. ASSUME NEW b \in BOOLEAN, TakePacket(b) PROVE FenceInv'
  <2>1. drv.at = "select" /\ queue # <<>> /\ UNCHANGED <<gate, recv, time>> /\ queue' = Tail(queue)
    BY <1>12 DEF TakePacket
  <2>2. PICK d : d = Head(queue)
    OBVIOUS
  <2>3. d = queue[1] /\ 1 \in DOMAIN queue /\ d \in Datagram
    BY <1>1, <2>1, <2>2
  <2>4. \/ CurrentPacket(d) /\ sample' = [seen |-> TRUE, at |-> d.at, era |-> d.era, old |-> FALSE]
           /\ drv' = [drv EXCEPT !.dirty = TRUE]
        \/ sample' = sample /\ drv' = drv
    BY <1>12, <2>2 DEF TakePacket
  <2>5. drv'.at = "select"
    BY <1>1, <2>1, <2>4 DEF DriverState
  <2>6. InputIsFenced'
    <3>1. CASE CurrentPacket(d) /\ sample' = [seen |-> TRUE, at |-> d.at, era |-> d.era, old |-> FALSE]
      <4>1. d.era = gate.epoch \/ d.at = gate.fence
        BY <1>1, <2>1, <2>3, <3>1 DEF CurrentPacket, FenceInv, Fenced, Datagram, GateState
      <4> QED BY <2>1, <3>1, <4>1 DEF InputIsFenced
    <3>2. CASE sample' = sample /\ drv' = drv
      BY <2>1, <3>2 DEF FenceInv, InputIsFenced
    <3> QED BY <2>4, <3>1, <3>2
  <2>7. \A i \in DOMAIN queue' : i + 1 \in DOMAIN queue /\ queue'[i] = queue[i + 1]
    BY <1>1, <2>1
  <2> QED BY <2>1, <2>5, <2>6, <2>7 DEF FenceInv, Fenced
<1>13. ASSUME NEW b \in BOOLEAN, DriverTick(b) PROVE FenceInv'
  <2>1. drv.at = "select" /\ UNCHANGED <<gate, recv, queue, time>>
    BY <1>13, DriverTickCases
  <2>2. PICK old \in BOOLEAN : sample' = [sample EXCEPT !.old = old]
    BY <1>13, DriverTickCases
  <2>3. sample'.seen = sample.seen /\ sample'.at = sample.at /\ sample'.era = sample.era
    BY <1>1, <2>2 DEF SampleState
  <2>4. drv'.at = "select"
    <3>1. \/ drv' = [drv EXCEPT !.dirty = FALSE]
          \/ \E payload : drv' = [drv EXCEPT !.dirty = FALSE, !.prev = payload, !.seq = drv.seq + 1, !.ts = TickTime]
      BY <1>13, DriverTickCases
    <3> QED BY <1>1, <2>1, <3>1 DEF DriverState
  <2> QED BY <2>1, <2>3, <2>4, FenceSame
<1>14. ASSUME NEW kind, NEW value, HostControl(kind, value) PROVE FenceInv'
  BY <1>14 DEF HostControl, FenceInv, InputIsFenced, Fenced
<1>15. ASSUME NEW taken \in SUBSET Port, Others(taken) PROVE FenceInv'
  BY <1>15 DEF Others, FenceInv, InputIsFenced, Fenced
<1>16. ASSUME NEW active, NEW gen, NEW config, DriverStart(active, gen, config) PROVE FenceInv'
  <2>1. drv.at = "start" /\ UNCHANGED <<sample, gate, recv, queue, time>>
    BY <1>16 DEF DriverStart
  <2>2. PICK d : d = [drv EXCEPT !.active = active, !.gen = gen, !.wanted = config]
    OBVIOUS
  <2>3. drv' = IF config = NoPort THEN [d EXCEPT !.at = "select", !.error = TRUE] ELSE Configure(d, config)
    BY <1>16, <2>2, Zenon DEF DriverStart
  <2>4. DOMAIN d = {"at", "active", "gen", "port", "cand", "keep", "retry", "error", "wanted", "dirty", "prev", "seq", "ts"}
    BY <1>1, <2>2 DEF DriverState
  <2>5. drv'.at \in {"select", "join"}
    BY <2>3, <2>4 DEF Configure, Bind
  <2> QED BY <2>1, <2>5, FenceSame
<1> QED BY <1>3, <1>4, <1>5, <1>6, <1>7, <1>8, <1>9, <1>10, <1>11, <1>12, <1>13, <1>14, <1>15, <1>16 DEF DriverStep, ReceiverStep

-----------------------------------------------------------------------------
(* The driver: its configuration. *)

\* A port that is busy is remembered as long as there is none to fall back to.
ConfigureResult(d, p, r) ==
    /\ r.wanted = d.wanted
    /\ \/ /\ r.at = "select" /\ r.error = TRUE /\ r.port = d.port /\ r.cand = d.cand
          /\ r.retry = IF d.port = NoPort THEN [port |-> p, clears |-> TRUE] ELSE d.retry
       \/ r.at = "join" /\ r.cand = p /\ r.keep = FALSE

LEMMA ConfigureEffect ==
    ASSUME NEW d \in DriverState, NEW p \in Port
    PROVE  ConfigureResult(d, p, Configure(d, p))
<1>1. CASE p \in busy
  <2> DEFINE kept == [d EXCEPT !.at = "select", !.error = TRUE,
                               !.retry = IF d.port = NoPort THEN [port |-> p, clears |-> TRUE] ELSE d.retry]
  <2>1. Configure(d, p) = kept
    BY <1>1, Zenon DEF Configure
  <2>2. ConfigureResult(d, p, kept)
    BY DEF DriverState, ConfigureResult
  <2> QED BY <2>1, <2>2, Zenon
<1>2. CASE p \notin busy
  <2> DEFINE bound == [d EXCEPT !.at = "join", !.cand = p, !.keep = FALSE]
  <2>1. Configure(d, p) = bound
    BY <1>2, Zenon DEF Configure, Bind
  <2>2. ConfigureResult(d, p, bound)
    BY DEF DriverState, ConfigureResult
  <2> QED BY <2>1, <2>2, Zenon
<1> QED BY <1>1, <1>2

\* The part of the state that ConfigInv reads.
ConfigSame ==
    /\ drv'.at = drv.at /\ drv'.port = drv.port /\ drv'.cand = drv.cand /\ drv'.keep = drv.keep
    /\ drv'.retry = drv.retry /\ drv'.error = drv.error /\ drv'.wanted = drv.wanted
    /\ recv'.at # "none" <=> recv.at # "none"

LEMMA ConfigStays ==
    ASSUME ConfigInv, ConfigSame, drv'.at = "start" => recv' = recv
    PROVE  ConfigInv'
BY DEF ConfigInv, ConfigIsHonest, ConfigSame, Differs

\* Configuring a port that is not the current one.
LEMMA ConfigureKeeps ==
    ASSUME DriverTypeOK, ConfigInv, drv.at \in {"start", "select"}, NEW d \in DriverState, NEW p \in Port,
           d.wanted = p, d.port = drv.port, d.port # p, d.cand = drv.cand, d.retry = drv.retry,
           drv' = Configure(d, p), recv' = recv
    PROVE  ConfigInv'
<1>1. /\ drv'.wanted = p
      /\ \/ /\ drv'.at = "select" /\ drv'.error = TRUE /\ drv'.port = d.port /\ drv'.cand = d.cand
            /\ drv'.retry = IF d.port = NoPort THEN [port |-> p, clears |-> TRUE] ELSE d.retry
         \/ drv'.at = "join" /\ drv'.cand = p /\ drv'.keep = FALSE
  <2>1. ConfigureResult(d, p, drv')
    <3>1. ConfigureResult(d, p, Configure(d, p))
      BY ConfigureEffect
    <3> QED BY <3>1
  <2> QED BY <2>1 DEF ConfigureResult
<1>2. p # NoPort
  BY PortFacts
<1>3. /\ drv.cand = NoPort /\ (drv.retry # NoRetry => drv.port = NoPort)
      /\ (recv.at # "none") <=> (drv.port # NoPort)
  BY DEF ConfigInv, ConfigIsHonest
<1>4. CASE drv'.at = "join"
  BY <1>1, <1>2, <1>4 DEF ConfigInv, ConfigIsHonest, Differs
<1>5. CASE drv'.at = "select" /\ d.port = NoPort
  <2>1. drv'.retry.port = p /\ drv'.retry.clears = TRUE
    BY <1>1, <1>5
  <2> QED BY <1>1, <1>2, <1>3, <1>5, <2>1 DEF ConfigInv, ConfigIsHonest, Differs
<1>6. CASE drv'.at = "select" /\ d.port # NoPort
  BY <1>1, <1>2, <1>3, <1>6 DEF ConfigInv, ConfigIsHonest, Differs
<1> QED BY <1>1, <1>4, <1>5, <1>6

LEMMA ChangesConfig ==
    ASSUME DriverTypeOK, ConfigInv, drv.at = "select", NEW d \in DriverState,
           d.port = drv.port, d.cand = drv.cand, d.keep = drv.keep, d.retry = drv.retry,
           d.error = drv.error, d.wanted = drv.wanted, Changes(d), recv' = recv
    PROVE  ConfigInv'
<1>1. CASE drv' = drv
  BY <1>1, ConfigStays DEF ConfigSame
<1>2. CASE drv' = [d EXCEPT !.at = "fence"]
  <2>1. drv'.at = "fence" /\ drv'.port = drv.port /\ drv'.cand = drv.cand /\ drv'.retry = drv.retry
        /\ drv'.error = drv.error /\ drv'.wanted = drv.wanted
    BY <1>2 DEF DriverState
  <2> QED BY <2>1 DEF ConfigInv, ConfigIsHonest, Differs
<1> QED BY <1>1, <1>2 DEF Changes

LEMMA ConfigReturned ==
    ASSUME drv'.at = "returned"
    PROVE  ConfigInv'
BY DEF ConfigInv, ConfigIsHonest

LEMMA HandleEventConfig ==
    ASSUME DriverTypeOK, ConfigInv, HandleEvent
    PROVE  ConfigInv'
<1>1. drv \in DriverState /\ drv.at = "select"
  BY DEF DriverTypeOK, HandleEvent
<1>2. PICK e \in Event : e = Head(host.inbox)
  <2>1. host.inbox \in Seq(Event) /\ host.inbox # <<>>
    BY DEF DriverTypeOK, HandleEvent, HostState
  <2> QED BY <2>1
<1>3. \/ e.kind = "active" /\ Changes([drv EXCEPT !.active = (e.value = 1)])
      \/ e.kind = "subscription" /\ Changes([drv EXCEPT !.gen = e.value])
      \/ e.kind = "config" /\ ConfigChanged(e.value)
      \/ drv' = [drv EXCEPT !.at = "returned"]
  BY <1>2 DEF HandleEvent
<1> SUFFICES ASSUME drv'.at # "returned" PROVE ConfigInv'
  BY ConfigReturned
<1>4. recv' = recv
  BY Zenon DEF HandleEvent
<1>5. CASE Changes([drv EXCEPT !.active = (e.value = 1)])
  <2>1. PICK b \in BOOLEAN : b = (e.value = 1)
    OBVIOUS
  <2>2. PICK d \in DriverState : d = [drv EXCEPT !.active = b]
    BY <1>1 DEF DriverState
  <2>3. d.port = drv.port /\ d.cand = drv.cand /\ d.keep = drv.keep /\ d.retry = drv.retry
        /\ d.error = drv.error /\ d.wanted = drv.wanted
    BY <1>1, <2>2 DEF DriverState
  <2>4. Changes(d)
    BY <1>5, <2>1, <2>2
  <2> QED BY <1>1, <1>4, <2>3, <2>4, ChangesConfig
<1>6. CASE e.kind = "subscription" /\ Changes([drv EXCEPT !.gen = e.value])
  <2>1. e.value \in Nat
    BY <1>2, <1>6 DEF Event
  <2>2. PICK d \in DriverState : d = [drv EXCEPT !.gen = e.value]
    BY <1>1, <2>1 DEF DriverState
  <2>3. d.port = drv.port /\ d.cand = drv.cand /\ d.keep = drv.keep /\ d.retry = drv.retry
        /\ d.error = drv.error /\ d.wanted = drv.wanted
    BY <1>1, <2>2 DEF DriverState
  <2>4. Changes(d)
    BY <1>6, <2>2
  <2> QED BY <1>1, <1>4, <2>3, <2>4, ChangesConfig
<1>7. CASE e.kind = "config" /\ ConfigChanged(e.value)
  <2>1. e.value \in PortOrNone
    BY <1>2, <1>7 DEF Event
  <2>2. PICK v \in PortOrNone : v = e.value
    BY <2>1
  <2>3. PICK d \in DriverState : d = [drv EXCEPT !.wanted = v]
    BY <1>1 DEF DriverState
  <2>4. d.at = "select" /\ d.wanted = v /\ d.port = drv.port /\ d.cand = drv.cand /\ d.retry = drv.retry
    BY <1>1, <2>3 DEF DriverState
  <2>5. drv' = IF v = NoPort THEN [d EXCEPT !.error = TRUE, !.retry.clears = FALSE]
               ELSE IF v = drv.port THEN [d EXCEPT !.error = FALSE, !.retry = NoRetry]
               ELSE Configure(d, v)
    BY <1>7, <2>2, <2>3, Zenon DEF ConfigChanged
  <2>6. /\ drv.cand = NoPort /\ (drv.retry # NoRetry => drv.port = NoPort)
        /\ (recv.at # "none") <=> (drv.port # NoPort)
        /\ drv.retry # NoRetry => drv.retry.port # NoPort
    BY <1>1 DEF ConfigInv, ConfigIsHonest
  <2>7. CASE v = NoPort
    <3>1. drv' = [d EXCEPT !.error = TRUE, !.retry.clears = FALSE]
      BY <2>5, <2>7
    <3>2. /\ drv'.at = "select" /\ drv'.wanted = NoPort /\ drv'.port = drv.port /\ drv'.cand = NoPort
          /\ drv'.error = TRUE /\ drv'.retry = [port |-> drv.retry.port, clears |-> FALSE]
      BY <1>1, <2>4, <2>6, <2>7, <3>1 DEF DriverState
    <3>3. drv'.retry # NoRetry => drv.retry # NoRetry
      <4>1. drv.retry = NoRetry => drv.retry.port = NoPort
        BY DEF NoRetry
      <4> QED BY <3>2, <4>1 DEF NoRetry
    <3>4. drv'.retry.port = drv.retry.port /\ drv'.retry.clears = FALSE
      BY <3>2
    <3> QED BY <1>4, <2>6, <3>2, <3>3, <3>4 DEF ConfigInv, ConfigIsHonest, Differs
  <2>8. CASE v # NoPort /\ v = drv.port
    <3>1. drv' = [d EXCEPT !.error = FALSE, !.retry = NoRetry]
      BY <2>5, <2>8
    <3>2. /\ drv'.at = "select" /\ drv'.wanted = v /\ drv'.port = drv.port /\ drv'.cand = NoPort
          /\ drv'.error = FALSE /\ drv'.retry = NoRetry
      BY <2>4, <2>6, <3>1 DEF DriverState
    <3> QED BY <1>4, <2>6, <2>8, <3>2 DEF ConfigInv, ConfigIsHonest, Differs
  <2>9. CASE v # NoPort /\ v # drv.port
    <3>1. drv' = Configure(d, v) /\ v \in Port
      BY <2>5, <2>9 DEF PortOrNone
    <3> QED BY <1>1, <1>4, <2>4, <2>9, <3>1, ConfigureKeeps
  <2> QED BY <2>7, <2>8, <2>9
<1>8. CASE drv' = [drv EXCEPT !.at = "returned"]
  BY <1>1, <1>8 DEF DriverState
<1> QED BY <1>3, <1>5, <1>6, <1>7, <1>8

LEMMA ConfigKept ==
    ASSUME DriverTypeOK, ConfigInv, DriverStep
    PROVE  ConfigInv'
<1>1. drv \in DriverState /\ recv \in ReceiverState
  BY DEF DriverTypeOK
<1>2. NoReceiver.at = "none"
  BY DEF NoReceiver
<1>3. ASSUME Join PROVE ConfigInv'
  <2>1. CASE recv.failed
    <3>1. drv'.at = "returned"
      BY <1>1, <1>3, <2>1 DEF Join, DriverState
    <3> QED BY <3>1, ConfigReturned
  <2>2. CASE ~recv.failed
    <3>1. /\ drv'.at = "fence" /\ drv'.port = drv.cand /\ drv'.cand = drv.cand /\ drv'.retry = NoRetry
          /\ drv'.error = drv.keep /\ drv'.wanted = drv.wanted
      BY <1>1, <1>3, <2>2 DEF Join, DriverState
    <3>2. recv'.at = "none" /\ drv.at = "join"
      BY <1>2, <1>3 DEF Join
    <3> QED BY <3>1, <3>2 DEF ConfigInv, ConfigIsHonest, Differs
  <2> QED BY <2>1, <2>2
<1>4. ASSUME Fence PROVE ConfigInv'
  <2>1. /\ drv'.at = "select" /\ drv'.port = drv.port /\ drv'.cand = NoPort /\ drv'.retry = drv.retry
        /\ drv'.error = drv.error /\ drv'.wanted = drv.wanted /\ drv.at = "fence"
    BY <1>1, <1>4 DEF Fence, ResetStream, DriverState
  <2>2. IF drv.cand = NoPort THEN recv' = recv ELSE recv'.at = "reading"
    BY <1>4 DEF Fence, NoReceiver
  <2>3. CASE drv.cand = NoPort
    BY <2>1, <2>2, <2>3 DEF ConfigInv, ConfigIsHonest, Differs
  <2>4. CASE drv.cand # NoPort
    BY <2>1, <2>2, <2>4 DEF ConfigInv, ConfigIsHonest, Differs
  <2> QED BY <2>3, <2>4
<1>5. ASSUME Retry PROVE ConfigInv'
  <2>1. drv.at = "select" /\ drv.retry # NoRetry /\ recv' = recv /\ drv' = Bind(drv, drv.retry.port, ~drv.retry.clears)
    BY <1>5 DEF Retry
  <2>2. PICK keep \in BOOLEAN : keep = ~drv.retry.clears
    OBVIOUS
  <2>3. drv' = [drv EXCEPT !.at = "join", !.cand = drv.retry.port, !.keep = keep]
    BY <2>1, <2>2 DEF Bind
  <2>4. drv'.at = "join" /\ drv'.cand = drv.retry.port /\ drv'.keep = keep /\ drv'.wanted = drv.wanted
    BY <1>1, <2>3 DEF DriverState
  <2>5. drv.retry.port # NoPort /\ (drv.retry.clears <=> ~Differs(drv.retry.port))
    BY <2>1 DEF ConfigInv
  <2>6. keep <=> Differs(drv.retry.port)
    BY <2>2, <2>5
  <2> QED BY <2>4, <2>5, <2>6 DEF ConfigInv, ConfigIsHonest, Differs
<1>6. ASSUME WorkerDone PROVE ConfigInv'
  <2>1. drv'.at = "returned"
    BY <1>1, <1>6 DEF WorkerDone, DriverState
  <2> QED BY <2>1, ConfigReturned
<1>7. ASSUME ReceiverStep PROVE ConfigInv'
  <2>1. drv' = drv /\ recv.at # "none" /\ recv'.at # "none"
    BY <1>1, <1>7 DEF ReceiverStep, Receive, Enqueue, ReceiverEnds, NoReceiver, ReceiverState
  <2>2. drv.at # "start"
    BY <2>1 DEF ConfigInv
  <2> QED BY <2>1, <2>2, ConfigStays DEF ConfigSame
<1>8. ASSUME NEW b \in BOOLEAN, TakePacket(b) PROVE ConfigInv'
  <2>1. drv' = drv \/ drv' = [drv EXCEPT !.dirty = TRUE]
    BY <1>8 DEF TakePacket
  <2>2. recv' = recv
    BY <1>8 DEF TakePacket
  <2>3. ConfigSame
    BY <1>1, <2>1, <2>2 DEF ConfigSame, DriverState
  <2> QED BY <2>2, <2>3, ConfigStays
<1>9. ASSUME NEW b \in BOOLEAN, DriverTick(b) PROVE ConfigInv'
  <2>1. \/ drv' = [drv EXCEPT !.dirty = FALSE]
        \/ \E payload : drv' = [drv EXCEPT !.dirty = FALSE, !.prev = payload, !.seq = drv.seq + 1, !.ts = TickTime]
    BY <1>9, DriverTickCases
  <2>2. recv' = recv
    BY <1>9, DriverTickCases
  <2>3. ConfigSame
    <3>1. CASE drv' = [drv EXCEPT !.dirty = FALSE]
      BY <1>1, <2>2, <3>1 DEF ConfigSame, DriverState
    <3>2. ASSUME NEW payload,
                 drv' = [drv EXCEPT !.dirty = FALSE, !.prev = payload, !.seq = drv.seq + 1, !.ts = TickTime]
          PROVE  ConfigSame
      BY <1>1, <2>2, <3>2 DEF ConfigSame, DriverState
    <3> QED BY <2>1, <3>1, <3>2
  <2> QED BY <2>2, <2>3, ConfigStays
<1>10. ASSUME NEW kind, NEW value, HostControl(kind, value) PROVE ConfigInv'
  BY <1>10, ConfigStays DEF HostControl, ConfigSame
<1>11. ASSUME NEW taken \in SUBSET Port, Others(taken) PROVE ConfigInv'
  BY <1>11, ConfigStays DEF Others, ConfigSame
<1>12. ASSUME Advance PROVE ConfigInv'
  BY <1>12, ConfigStays DEF Advance, ConfigSame
<1>13. ASSUME NEW active \in BOOLEAN, NEW gen \in Nat, NEW config \in PortOrNone, DriverStart(active, gen, config)
       PROVE  ConfigInv'
  <2>1. drv.at = "start" /\ recv' = recv
    BY <1>13 DEF DriverStart
  <2>2. PICK d \in DriverState : d = [drv EXCEPT !.active = active, !.gen = gen, !.wanted = config]
    BY <1>1 DEF DriverState
  <2>3. drv' = IF config = NoPort THEN [d EXCEPT !.at = "select", !.error = TRUE] ELSE Configure(d, config)
    BY <1>13, <2>2, Zenon DEF DriverStart
  <2>4. d.wanted = config /\ d.port = drv.port /\ d.cand = drv.cand /\ d.retry = drv.retry
    BY <1>1, <2>2 DEF DriverState
  <2>5. drv.port = NoPort /\ recv.at = "none" /\ drv.cand = NoPort /\ drv.retry = NoRetry
    BY <2>1 DEF ConfigInv
  <2>6. CASE config = NoPort
    <3>1. /\ drv'.at = "select" /\ drv'.error = TRUE /\ drv'.wanted = NoPort /\ drv'.port = NoPort
          /\ drv'.cand = NoPort /\ drv'.retry = NoRetry
      BY <2>3, <2>4, <2>5, <2>6 DEF DriverState
    <3> QED BY <2>1, <2>5, <3>1 DEF ConfigInv, ConfigIsHonest, Differs
  <2>7. CASE config # NoPort
    <3>1. drv' = Configure(d, config) /\ config \in Port
      BY <2>3, <2>7 DEF PortOrNone
    <3> QED BY <2>1, <2>4, <2>5, <2>7, <3>1, ConfigureKeeps
  <2> QED BY <2>6, <2>7
<1> QED BY <1>3, <1>4, <1>5, <1>6, <1>7, <1>8, <1>9, <1>10, <1>11, <1>12, <1>13, HandleEventConfig DEF DriverStep

DriverInv == FenceInv /\ ConfigInv

LEMMA DriverInvInit == LoopInit => DriverInv
<1> SUFFICES ASSUME LoopInit PROVE DriverInv
  OBVIOUS
<1>1. /\ drv.at \in {"start", "off"} /\ drv.port = NoPort /\ drv.cand = NoPort /\ drv.retry = NoRetry
      /\ sample.seen = FALSE /\ gate.fence = 0 /\ recv.at = "none" /\ queue = <<>> /\ time = 0
  BY DEF LoopInit, DriverInit, NoSample, NoReceiver
<1>2. FenceInv
  BY <1>1 DEF FenceInv, InputIsFenced
<1>3. ConfigInv
  BY <1>1 DEF ConfigInv, ConfigIsHonest
<1> QED BY <1>2, <1>3 DEF DriverInv

LEMMA DriverInvStep == CoreInv /\ DriverInv /\ [Next]_allVars => DriverInv'
<1> SUFFICES ASSUME CoreInv, DriverInv, [Next]_allVars PROVE DriverInv'
  OBVIOUS
<1>1. CASE UNCHANGED driverVars
  BY <1>1 DEF driverVars, DriverInv, FenceInv, ConfigInv, InputIsFenced, ConfigIsHonest, Fenced, Differs
<1>2. CASE Serving
  BY <1>1, <1>2 DEF Serving
<1>3. CASE Driving
  <2>1. CASE Deliver
    BY <2>1 DEF Deliver, DriverInv, FenceInv, ConfigInv, InputIsFenced, ConfigIsHonest, Fenced, Differs
  <2>2. CASE DriverStep
    BY <2>2, FenceKept, ConfigKept DEF CoreInv, DriverInv
  <2> QED BY <1>3, <2>1, <2>2, DrivingCases DEF CoreInv
<1> QED BY <1>1, <1>2, <1>3 DEF Next, allVars

\* The driver observes nothing of before its last transition, reports an error
\* exactly as long as its last configuration is not in force, and publishes
\* frames that the service takes in their order, whatever overtakes what (internal/steamlink/
\* driver.go: transition, stopWorker, configChanged; state.go: next).
THEOREM DriverHonest == Spec => []DriverIsHonest
<1>1. CoreInv /\ DriverInv /\ [Next]_allVars => DriverInv'
  BY DriverInvStep
<1>2. CoreInv /\ DriverInv => DriverIsHonest
  BY StreamInOrder DEF CoreInv, DriverInv, FenceInv, ConfigInv, DriverIsHonest
<1> QED BY CoreHolds, DriverInvInit, <1>1, <1>2, PTL DEF Spec

-----------------------------------------------------------------------------
(* The frames on their way to the pipeline. *)

\* What a step of the service does to the latest frame and to the sources.
NewLatest ==
    /\ latest'.gen = generation' /\ generation' >= generation /\ generation' > 0
    /\ latest'.seq = Saturated(latest.seq, MaxMerged) /\ latest'.updated = lastHost'
    /\ latest'.at = Times(latest'.src, sources') /\ latest'.bare = BareOf(latest'.src, sources')
    /\ \A c \in Cap : latest'.src[c] # NoPlugin =>
         latest'.src[c] \in Plugin /\ sources'[latest'.src[c]] # NoSource
    /\ PublishMerged

ServiceEffect ==
    /\ \A p \in Plugin : sources'[p] = sources[p] \/ sources'[p] = NoSource \/ sources'[p].at > lastHost
    /\ NewLatest \/ (latest' = latest /\ mergedSlot' = mergedSlot /\ generation' = generation)

LEMMA MergeEffect ==
    ASSUME StateInv, generation > 0, NEW srcs \in [Plugin -> SourceOrNone], NEW rt \in Routing,
           NEW last \in Host, NEW now \in Host, NEW force \in BOOLEAN,
           Recompute(srcs, rt, last, force, now), generation' = generation, sources' = srcs,
           \A p \in Plugin : srcs[p] = sources[p] \/ srcs[p] = NoSource \/ srcs[p].at > lastHost
    PROVE  ServiceEffect
<1>1. /\ latest'.gen = generation /\ latest'.src = selected' /\ latest'.at = Times(selected', srcs)
      /\ \A c \in Cap : selected'[c] # NoPlugin => Has(srcs, selected'[c], c)
      /\ \/ latest' = latest /\ mergedSlot' = mergedSlot
         \/ /\ latest'.seq = Saturated(latest.seq, MaxMerged)
            /\ latest'.updated = lastHost' /\ latest'.bare = BareOf(selected', srcs) /\ PublishMerged
  BY RecomputeEffect, Zenon
<1>2. ASSUME NEW c \in Cap, latest'.src[c] # NoPlugin
      PROVE  latest'.src[c] \in Plugin /\ sources'[latest'.src[c]] # NoSource
  BY <1>1, <1>2 DEF Has, NoSource
<1>3. generation' >= generation /\ generation' > 0
  BY TrackingAssumption DEF StateInv
<1> QED BY <1>1, <1>2, <1>3 DEF ServiceEffect, NewLatest

LEMMA SubmitEffect ==
    ASSUME StateInv, NEW p \in PluginOrNone, NEW g, NEW f \in Frame, NEW wall \in SUBSET Host,
           Submit(p, g, f, wall)
    PROVE  ServiceEffect
<1>1. CASE Reject(Reason(p, g, f))
  BY <1>1 DEF Reject, stateVars, ServiceEffect
<1>2. CASE Reason(p, g, f) = "none"
  <2>1. PICK received \in Host, now \in Host : Accept(p, f, received, now)
    BY <1>2 DEF Submit
  <2>2. p \in Plugin /\ generation > 0 /\ lastHost # MaxHost
    BY <1>2, ReasonNone DEF StateInv, PluginOrNone
  <2>3. PICK at : at = NextReceipt(lastHost, received)
    OBVIOUS
  <2>4. PICK srcs : srcs = [sources EXCEPT ![p] = SourceAfter(p, f, at)]
    OBVIOUS
  <2>5. PICK force \in BOOLEAN : force = (\E c \in Cap : selected[c] = p)
    OBVIOUS
  <2>6. PICK rt \in Routing : rt = routing
    BY DEF StateInv
  <2>7. sources' = srcs /\ Recompute(srcs, rt, at, force, now)
    <3>1. LET at2 == NextReceipt(lastHost, received)
              srcs2 == [sources EXCEPT ![p] = SourceAfter(p, f, at2)]
          IN  /\ sources' = srcs2
              /\ Recompute(srcs2, routing, at2, \E c \in Cap : selected[c] = p, now)
      BY <2>1, <2>2, AcceptEffect
    <3> QED BY <2>3, <2>4, <2>5, <2>6, <3>1
  <2>8. at \in Host /\ at > lastHost /\ srcs \in [Plugin -> SourceOrNone]
    BY <2>2, <2>3, <2>4, AcceptedSources
  <2>9. \A q \in Plugin : srcs[q] = sources[q] \/ srcs[q].at > lastHost
    BY <2>2, <2>4, <2>8 DEF StateInv, SourceAfter
  <2>10. generation' = generation
    BY <2>1 DEF Accept
  <2> QED BY <2>2, <2>7, <2>8, <2>9, <2>10, MergeEffect
<1> QED BY <1>1, <1>2 DEF Submit

LEMMA SourceEffect ==
    ASSUME ServiceInv, SourceStep
    PROVE  ServiceEffect
<1>1. StateInv
  BY DEF ServiceInv
<1>2. ASSUME NEW g \in 0 .. MaxGeneration, NEW now \in Host, SetGeneration(g, now)
      PROVE  ServiceEffect
  <2>1. /\ generation' = g /\ g > generation /\ latest'.gen = g /\ latest'.seq = Saturated(latest.seq, MaxMerged)
        /\ latest'.updated = lastHost' /\ latest'.src = [c \in Cap |-> NoPlugin] /\ latest'.at = [c \in Cap |-> 0]
        /\ latest'.bare = {} /\ sources' = [p \in Plugin |-> NoSource] /\ PublishMerged
    BY <1>2 DEF SetGeneration, NoFrame
  <2>2. latest'.at = Times(latest'.src, sources') /\ latest'.bare = BareOf(latest'.src, sources')
    BY <2>1 DEF Times, BareOf
  <2>3. generation' >= generation /\ generation' > 0
    BY <1>1, <2>1, TrackingAssumption DEF StateInv
  <2> QED BY <2>1, <2>2, <2>3 DEF ServiceEffect, NewLatest
<1>3. ASSUME NEW r \in Routing, NEW now \in Host, SetRouting(r, now)
      PROVE  ServiceEffect
  <2>1. CASE generation = 0
    BY <1>3, <2>1 DEF SetRouting, ServiceEffect
  <2>2. CASE generation # 0
    <3>1. PICK srcs : srcs = sources
      OBVIOUS
    <3>2. PICK last : last = lastHost
      OBVIOUS
    <3>3. Recompute(srcs, r, last, TRUE, now) /\ generation' = generation /\ sources' = srcs
      BY <1>3, <2>2, <3>1, <3>2 DEF SetRouting
    <3>4. generation > 0 /\ srcs \in [Plugin -> SourceOrNone] /\ last \in Host
      BY <1>1, <2>2, <3>1, <3>2 DEF StateInv
    <3> QED BY <1>1, <3>1, <3>3, <3>4, MergeEffect
  <2> QED BY <2>1, <2>2
<1>4. ASSUME NEW p \in Plugin, NEW now \in Host, RemoveSource(p, now)
      PROVE  ServiceEffect
  <2>1. PICK srcs : srcs = [sources EXCEPT ![p] = NoSource]
    OBVIOUS
  <2>2. PICK last : last = lastHost
    OBVIOUS
  <2>3. PICK rt \in Routing : rt = routing
    BY <1>1 DEF StateInv
  <2>4. sources' = srcs /\ Recompute(srcs, rt, last, FALSE, now) /\ generation' = generation
    BY <1>4, <2>1, <2>2, <2>3, Zenon DEF RemoveSource
  <2>5. generation > 0
    BY <1>1, <1>4 DEF RemoveSource, StateInv
  <2>6. srcs \in [Plugin -> SourceOrNone] /\ last \in Host
        /\ \A q \in Plugin : srcs[q] = sources[q] \/ srcs[q] = NoSource
    BY <1>1, <2>1, <2>2 DEF StateInv, SourceOrNone
  <2> QED BY <1>1, <2>4, <2>5, <2>6, MergeEffect
<1> QED BY <1>1, <1>2, <1>3, <1>4, SubmitEffect DEF SourceStep

LEMMA FrameFields ==
    ASSUME NEW f \in Merged
    PROVE  /\ f.gen \in Nat /\ f.seq \in 0 .. MaxMerged /\ f.updated \in Nat
           /\ f.src \in [Cap -> PluginOrNone] /\ f.at \in [Cap -> Nat] /\ f.bare \in SUBSET Cap
BY TrackingAssumption DEF Merged, Selection, PluginOrNone, Host

\* What was selected is still not newer than its source, whatever the service does.
LEMMA OfSourcesKept ==
    ASSUME StateInv, StateInv', ServiceEffect, NEW f, Flowing(f),
           NEW c \in Cap, f.gen = generation', f.src[c] # NoPlugin, sources'[f.src[c]] # NoSource
    PROVE  LET source == sources'[f.src[c]]
           IN  f.at[c] <= source.at /\ (f.at[c] = source.at => (c \in f.bare <=> source.bare))
<1>1. f \in Merged /\ latest \in Merged /\ lastHost \in Nat /\ generation \in Nat
  BY TrackingAssumption DEF Flowing, StateInv, Host
<1>2. f.src[c] \in Plugin /\ f.at[c] \in Nat
  BY <1>1, FrameFields DEF PluginOrNone
<1>3. f.at[c] <= lastHost
  <2>1. f.at[c] <= f.updated /\ f.updated <= latest.updated /\ latest.updated <= lastHost
    BY DEF Flowing, WellMade, Follows, StateInv
  <2> QED BY <1>1, <1>2, <2>1, FrameFields
<1>4. CASE sources'[f.src[c]] = sources[f.src[c]]
  <2>1. f.gen = generation
    <3>1. f.gen <= latest.gen /\ latest.gen <= generation
      BY <1>1, FrameFields DEF Flowing, Follows, StateInv, MergedMatchesSources, NoFrame
    <3>2. generation' >= generation
      BY <1>1 DEF ServiceEffect, NewLatest
    <3> QED BY <1>1, <3>1, <3>2, FrameFields
  <2> QED BY <1>2, <1>4, <2>1 DEF Flowing, OfSources
<1>5. CASE sources'[f.src[c]].at > lastHost
  <2>1. sources'[f.src[c]].at \in Nat
    <3>1. sources'[f.src[c]] \in SourceOrNone
      BY <1>2 DEF StateInv
    <3>2. PICK x \in SourceOrNone : x = sources'[f.src[c]]
      BY <3>1
    <3> QED BY <3>2, SourceFields, TrackingAssumption DEF Host
  <2> QED BY <1>1, <1>2, <1>3, <1>5, <2>1
<1> QED BY <1>2, <1>4, <1>5 DEF ServiceEffect

LEMMA FlowingKept ==
    ASSUME StateInv, StateInv', ServiceEffect, latest' = latest \/ latest'.updated >= latest.updated,
           NEW f, Flowing(f)
    PROVE  Flowing(f)'
<1>1. /\ f \in Merged /\ latest \in Merged /\ latest' \in Merged
      /\ WellMade(f) /\ Follows(f, latest)
  BY DEF Flowing, StateInv
<1>2. OfSources(f)'
  <2> SUFFICES ASSUME f.gen = generation', NEW c \in Cap, NEW p \in Plugin, f.src[c] = p, sources'[p] # NoSource
               PROVE  f.at[c] <= sources'[p].at
                      /\ (f.at[c] = sources'[p].at => (c \in f.bare <=> sources'[p].bare))
    BY DEF OfSources
  <2> QED BY NoPluginIsNone, OfSourcesKept
<1>3. Follows(f, latest')
  <2>1. CASE latest' = latest
    BY <1>1, <2>1
  <2>2. CASE latest' # latest
    <3>1. NewLatest /\ latest'.updated >= latest.updated
      BY <2>2 DEF ServiceEffect
    <3>2. PICK m \in Merged : m = latest
      BY <1>1
    <3>3. PICK n \in Merged : n = latest'
      BY <1>1
    <3>4. m.seq <= n.seq /\ (m.seq = n.seq => m.seq = MaxMerged)
      BY <3>1, <3>2, <3>3, FrameFields, SaturatedTyped, TrackingAssumption DEF NewLatest
    <3>5. f.gen <= n.gen
      <4>1. f.gen <= m.gen /\ m.gen <= generation
        BY <1>1, <3>2, FrameFields, TrackingAssumption DEF Follows, StateInv, MergedMatchesSources, NoFrame
      <4>2. generation <= n.gen /\ generation \in Nat
        <5>1. generation \in Nat /\ generation' \in Nat
          BY TrackingAssumption DEF StateInv
        <5>2. n.gen = generation' /\ generation' >= generation
          BY <3>1, <3>3, Zenon DEF NewLatest
        <5>3. PICK g : g = generation'
          OBVIOUS
        <5> QED BY <5>1, <5>2, <5>3
      <4> QED BY <1>1, <3>2, <3>3, <4>1, <4>2, FrameFields
    <3>6. f.seq <= n.seq /\ f.updated <= n.updated
      BY <1>1, <3>1, <3>2, <3>3, <3>4, FrameFields DEF Follows
    <3>7. f.seq = n.seq => f.seq = MaxMerged
      BY <1>1, <3>2, <3>3, <3>4, FrameFields DEF Follows
    <3>8. ASSUME f.gen = n.gen, NEW c \in Cap, f.src[c] # NoPlugin, f.src[c] = n.src[c]
          PROVE  f.at[c] <= n.at[c] /\ (f.at[c] = n.at[c] => (c \in f.bare <=> c \in n.bare))
      <4>1. f.gen = generation' /\ sources'[f.src[c]] # NoSource
        BY <3>1, <3>3, <3>8 DEF NewLatest
      <4>2. n.at[c] = sources'[f.src[c]].at /\ (c \in n.bare <=> sources'[f.src[c]].bare)
        <5>1. n.at = Times(n.src, sources') /\ n.bare = BareOf(n.src, sources')
          BY <3>1, <3>3 DEF NewLatest
        <5> QED BY <3>8, <5>1 DEF Times, BareOf
      <4> QED BY <3>8, <4>1, <4>2, OfSourcesKept
    <3> QED BY <3>3, <3>5, <3>6, <3>7, <3>8 DEF Follows
  <2> QED BY <2>1, <2>2
<1> QED BY <1>1, <1>2, <1>3 DEF Flowing

LEMMA LatestFlows ==
    ASSUME StateInv, StateInv', ServiceEffect, NewLatest
    PROVE  Flowing(latest)' /\ latest'.gen > 0
<1>1. PICK n \in Merged : n = latest'
  BY DEF StateInv
<1>2. latest.seq \in 0 .. MaxMerged
  BY FrameFields DEF StateInv
<1>3. n.gen > 0 /\ n.seq > 0
  BY <1>1, <1>2, SaturatedTyped, TrackingAssumption DEF NewLatest
<1>4. ASSUME NEW c \in Cap, n.src[c] = NoPlugin PROVE n.at[c] = 0
  <2>1. n.at = Times(n.src, sources')
    BY <1>1 DEF NewLatest
  <2> QED BY <1>4, <2>1 DEF Times
<1>5. ASSUME NEW c \in Cap, n.src[c] # NoPlugin
      PROVE  /\ n.src[c] \in Plugin /\ 0 < n.at[c] /\ n.at[c] <= n.updated
             /\ n.at[c] = sources'[n.src[c]].at /\ (c \in n.bare <=> sources'[n.src[c]].bare)
  <2>1. n.at = Times(n.src, sources') /\ n.bare = BareOf(n.src, sources') /\ n.updated = lastHost'
        /\ n.src[c] \in Plugin /\ sources'[n.src[c]] # NoSource
    BY <1>1, <1>5 DEF NewLatest
  <2>2. n.at[c] = sources'[n.src[c]].at /\ (c \in n.bare <=> sources'[n.src[c]].bare)
    BY <1>5, <2>1 DEF Times, BareOf
  <2>3. 0 < sources'[n.src[c]].at /\ sources'[n.src[c]].at <= lastHost'
    BY <2>1 DEF StateInv, Received
  <2> QED BY <2>1, <2>2, <2>3
<1>6. WellMade(n)
  BY <1>3, <1>4, <1>5 DEF WellMade
<1>7. OfSources(n)'
  <2> SUFFICES ASSUME n.gen = generation', NEW c \in Cap, NEW p \in Plugin, n.src[c] = p, sources'[p] # NoSource
               PROVE  n.at[c] <= sources'[p].at
                      /\ (n.at[c] = sources'[p].at => (c \in n.bare <=> sources'[p].bare))
    BY DEF OfSources
  <2> QED BY <1>5, FrameFields, NoPluginIsNone
<1>8. Follows(n, latest')
  BY <1>1, FrameFields DEF Follows
<1> QED BY <1>1, <1>3, <1>6, <1>7, <1>8 DEF Flowing

\* The frames under a step of the service: the new one comes last.
LEMMA FlowOfSource ==
    ASSUME ServiceInv, ServiceInv', Loop \in MergedSub, FlowInv, SourceStep, pipe' = pipe, frame' = frame
    PROVE  FlowInv'
<1>1. ServiceEffect /\ StateInv /\ StateInv'
  BY SourceEffect DEF ServiceInv
<1>2. latest' = latest \/ latest'.updated >= latest.updated
  <2>1. [AutoIsSticky /\ MergedAdvances]_vars
    BY ServiceSteps
  <2> QED BY <2>1 DEF MergedAdvances, vars, stateVars
<1>3. ASSUME NEW f, Flowing(f) PROVE Flowing(f)'
  BY <1>1, <1>2, <1>3, FlowingKept
<1>4. Flowing(pipe.last)' /\ Flowing(frame)'
  <2>1. PICK f : f = pipe.last
    OBVIOUS
  <2>2. PICK g : g = frame
    OBVIOUS
  <2>3. Flowing(f)' /\ Flowing(g)'
    BY <1>3, <2>1, <2>2 DEF FlowInv
  <2>4. f = pipe'.last /\ g = frame'
    BY <2>1, <2>2
  <2> QED BY <2>3, <2>4
<1>5. Follows(pipe.last, frame)'
  BY DEF FlowInv
<1>6. CASE latest' = latest /\ mergedSlot' = mergedSlot
  <2>1. Flowing(latest)'
    <3>1. PICK f : f = latest
      OBVIOUS
    <3>2. Flowing(f)'
      BY <1>3, <3>1 DEF FlowInv
    <3> QED BY <1>6, <3>1, <3>2
  <2>2. \A f \in mergedSlot'[Loop] : Flowing(f)' /\ f.gen > 0 /\ Follows(pipe'.last, f) /\ Follows(frame', f)
    BY <1>3, <1>6 DEF FlowInv
  <2> QED BY <1>4, <1>5, <2>1, <2>2 DEF FlowInv
<1>7. CASE NewLatest
  <2>1. Flowing(latest)' /\ latest'.gen > 0
    BY <1>1, <1>7, LatestFlows
  <2>2. mergedSlot'[Loop] \in {{latest'}, mergedSlot[Loop]}
    BY <1>7 DEF NewLatest, PublishMerged
  <2>3. ASSUME NEW f \in mergedSlot'[Loop]
        PROVE  Flowing(f)' /\ f.gen > 0 /\ Follows(pipe'.last, f) /\ Follows(frame', f)
    <3>1. CASE f = latest'
      BY <1>4, <2>1, <3>1 DEF Flowing
    <3>2. CASE f \in mergedSlot[Loop]
      BY <1>3, <3>2 DEF FlowInv
    <3> QED BY <2>2, <2>3, <3>1, <3>2
  <2> QED BY <1>4, <1>5, <2>1, <2>3 DEF FlowInv
<1> QED BY <1>1, <1>6, <1>7 DEF ServiceEffect

\* No frame changes under a subscriber: the loop is offered the latest one.
FlowSame == generation' = generation /\ sources' = sources /\ latest' = latest

LEMMA FlowingSame ==
    ASSUME FlowSame, NEW f, Flowing(f)
    PROVE  Flowing(f)'
BY DEF FlowSame, Flowing, OfSources

LEMMA FlowOfSubscriber ==
    ASSUME FlowInv, FlowSame, pipe' = pipe, frame' = frame,
           \A f \in mergedSlot'[Loop] : f \in mergedSlot[Loop] \/ (f = latest /\ f.gen > 0)
    PROVE  FlowInv'
<1>1. Flowing(pipe.last)' /\ Flowing(frame)' /\ Flowing(latest)' /\ Follows(pipe.last, frame)'
  BY DEF FlowInv, FlowSame, Flowing, OfSources
<1>2. ASSUME NEW f \in mergedSlot'[Loop]
      PROVE  Flowing(f)' /\ f.gen > 0 /\ Follows(pipe'.last, f) /\ Follows(frame', f)
  <2>1. CASE f \in mergedSlot[Loop]
    BY <2>1, FlowingSame DEF FlowInv
  <2>2. CASE f = latest /\ f.gen > 0
    <3>1. f = latest'
      BY <2>2 DEF FlowSame
    <3> QED BY <1>1, <2>2, <3>1 DEF Flowing
  <2> QED BY <1>2, <2>1, <2>2
<1> QED BY <1>1, <1>2 DEF FlowInv

-----------------------------------------------------------------------------
(* The pipeline. *)

\* A frame that follows the last one is not refused, whatever its class.
LEMMA Classified ==
    ASSUME NEW p, NEW f \in Merged, NEW now \in Nat, Processed(p), p.hasLast => p.now < now,
           Follows(p.last, f)
    PROVE  LET class == ClassifyInput(p, f, now)
           IN  /\ class \in {"reset", "repeat", "new"}
               /\ class = "repeat" => p.hasLast
               /\ class = "new" => p.hasLast /\ f.gen = p.last.gen
<1>1. p.last \in Merged /\ p.now \in Nat
  BY DEF Processed, PipeState
<1>2. p.last.gen \in Nat /\ f.gen \in Nat /\ p.last.seq \in Nat /\ f.seq \in Nat
  BY <1>1, FrameFields, TrackingAssumption
<1>3. f.gen = p.last.gen => SaturatedFreshnessNonregressing(p.last, f)
  BY <1>1, FrameFields DEF Follows, SaturatedFreshnessNonregressing
<1>4. p.last.gen <= f.gen /\ p.last.seq <= f.seq
      /\ (f.gen = p.last.gen /\ f.seq = p.last.seq /\ f # p.last => f.seq = MaxMerged)
  BY DEF Follows
<1>5. CASE ~p.hasLast
  BY <1>5 DEF ClassifyInput
<1>6. CASE p.hasLast /\ f.gen > p.last.gen
  BY <1>1, <1>2, <1>6 DEF ClassifyInput
<1>7. CASE p.hasLast /\ f.gen = p.last.gen /\ f = p.last
  BY <1>1, <1>2, <1>7 DEF ClassifyInput
<1>8. CASE p.hasLast /\ f.gen = p.last.gen /\ f # p.last
  BY <1>1, <1>2, <1>3, <1>4, <1>8 DEF ClassifyInput
<1> QED BY <1>2, <1>4, <1>5, <1>6, <1>7, <1>8

LEMMA NoFilterRefuses ==
    ASSUME NEW p, NEW f \in Merged, Processed(p), NEW reset \in BOOLEAN
    PROVE  ~FilterRefuses(p, f, reset)
<1> SUFFICES ASSUME NEW c \in Channel, Fresh(p, f, reset, c), Retained(p, f, reset, c).seen,
                    f.at[c] <= Retained(p, f, reset, c).at
             PROVE  FALSE
  BY DEF FilterRefuses
<1>1. ~ResetChannel(p, f, reset, c)
  BY DEF Retained, Empty
<1>2. f.src[c] # NoPlugin /\ f.at[c] > p.last.at[c] /\ f.src[c] = p.last.src[c] /\ Retained(p, f, reset, c) = p.ch[c]
  BY <1>1 DEF Fresh, ResetChannel, Retained
<1>3. p.ch[c].at <= p.last.at[c]
  BY <1>2 DEF Processed, ChannelInv
<1>4. p.ch[c].at \in Nat /\ p.last.at[c] \in Nat /\ f.at[c] \in Nat
  BY FrameFields DEF Processed, PipeState, ChannelState, Channel
<1> QED BY <1>2, <1>3, <1>4

\* A channel after a frame that is not a repetition of the last one.
LEMMA IngestChannel ==
    ASSUME NEW p, NEW f \in Merged, NEW reset \in BOOLEAN, NEW c \in Channel, Processed(p), WellMade(f),
           Follows(p.last, f), ~reset => p.last.gen = f.gen
    PROVE  Ingest(p, f, reset)[c] \in ChannelState /\ ChannelInv(Ingest(p, f, reset)[c], c, f)
<1> DEFINE last == p.last
           old  == p.ch[c]
<1>1. last \in Merged /\ old \in ChannelState /\ ChannelInv(old, c, last) /\ c \in Cap
  BY DEF Processed, PipeState, Channel
<1>2. /\ f.src[c] \in PluginOrNone /\ last.src[c] \in PluginOrNone /\ f.at[c] \in Nat /\ last.at[c] \in Nat
      /\ f.gen \in Nat /\ f.updated \in Nat /\ last.updated \in Nat
  BY <1>1, FrameFields
<1>3. Empty \in ChannelState
  BY DEF Empty, ChannelState
<1> DEFINE kept == Retained(p, f, reset, c)
<1>4. kept \in ChannelState
  <2>1. RecordUnavailable(old, f.updated) \in ChannelState
    BY <1>1, <1>2 DEF RecordUnavailable, ChannelState
  <2> QED BY <1>1, <1>3, <2>1 DEF Retained
<1>5. (kept.seen \/ kept = Empty) /\ (\A x, y \in kept.mix : x = y)
  <2>1. old.seen \/ old = Empty
    BY <1>1 DEF ChannelInv
  <2>2. \A x, y \in old.mix : x = y
    BY <1>1 DEF ChannelInv
  <2>3. RecordUnavailable(old, f.updated).seen = old.seen /\ RecordUnavailable(old, f.updated).mix = old.mix
        /\ (~old.seen => RecordUnavailable(old, f.updated) = old)
    BY <1>1 DEF RecordUnavailable, ChannelState
  <2> QED BY <2>1, <2>2, <2>3 DEF Retained, Empty
<1>6. \A x \in kept.mix : x[1] = f.gen /\ f.src[c] \in {x[2], NoPlugin}
  <2>1. CASE ResetChannel(p, f, reset, c)
    BY <2>1 DEF Retained, Empty
  <2>2. CASE ~ResetChannel(p, f, reset, c)
    <3>1. f.gen = last.gen /\ f.src[c] \in {NoPlugin, last.src[c]}
      BY <2>2 DEF ResetChannel
    <3>2. kept.mix = old.mix
      BY <1>1, <2>2 DEF Retained, RecordUnavailable, ChannelState
    <3>3. \A x \in old.mix : x[1] = last.gen /\ last.src[c] \in {x[2], NoPlugin}
      BY <1>1 DEF ChannelInv
    <3> QED BY <3>1, <3>2, <3>3
  <2> QED BY <2>1, <2>2
<1>7. CASE Fresh(p, f, reset, c)
  <2> DEFINE new == RecordFresh(kept, <<f.gen, f.src[c]>>, f.at[c])
  <2>1. f.src[c] \in Plugin /\ c \notin f.bare /\ Ingest(p, f, reset)[c] = new
    BY <1>2, <1>7 DEF Fresh, Ingest, PluginOrNone
  <2>2. new.seen /\ new.at = f.at[c] /\ new.start = f.at[c] + StaleAfter /\ new.mix = kept.mix \cup {<<f.gen, f.src[c]>>}
    BY DEF RecordFresh
  <2>3. new \in ChannelState
    <3>1. <<f.gen, f.src[c]>> \in Nat \X Plugin
      BY <1>2, <2>1
    <3> HIDE DEF kept
    <3> QED BY <1>2, <1>4, <3>1, PolicyAssumption DEF RecordFresh, ChannelState
  <2>4. \A x \in kept.mix : x = <<f.gen, f.src[c]>>
    <3> HIDE DEF kept
    <3>1. kept.mix \in SUBSET (Nat \X Plugin)
      BY <1>4 DEF ChannelState
    <3> QED BY <1>6, <2>1, <3>1, NoPluginIsNone
  <2>5. \A x, y \in new.mix : x = y
    <3> HIDE DEF kept, new
    <3> QED BY <2>2, <2>4
  <2>6. \A x \in new.mix : x[1] = f.gen /\ f.src[c] \in {x[2], NoPlugin}
    <3> HIDE DEF kept, new
    <3> QED BY <2>2, <2>4
  <2> HIDE DEF new
  <2> QED BY <1>2, <2>1, <2>2, <2>3, <2>5, <2>6, NoPluginIsNone DEF ChannelInv
<1>8. CASE ~Fresh(p, f, reset, c)
  <2>1. Ingest(p, f, reset)[c] = kept
    BY <1>8 DEF Ingest
  <2>2. CASE ResetChannel(p, f, reset, c)
    <3>1. kept = Empty /\ (f.src[c] = NoPlugin \/ c \in f.bare)
      BY <1>8, <2>2 DEF Retained, Fresh
    <3> QED BY <1>3, <2>1, <3>1 DEF ChannelInv, Empty
  <2>3. CASE ~ResetChannel(p, f, reset, c) /\ f.src[c] = NoPlugin
    <3>1. kept.seen => kept.start <= f.updated
      <4>1. last.updated <= f.updated
        BY DEF Follows
      <4>2. CASE last.src[c] = NoPlugin
        <5>1. kept = old
          BY <2>3, <4>2 DEF Retained
        <5>2. old.seen => old.start <= last.updated
          BY <1>1, <4>2 DEF ChannelInv
        <5>3. old.start \in Nat
          BY <1>1 DEF ChannelState
        <5> QED BY <1>2, <4>1, <5>1, <5>2, <5>3
      <4>3. CASE last.src[c] # NoPlugin
        <5>1. kept = RecordUnavailable(old, f.updated)
          BY <2>3, <4>3 DEF Retained
        <5>2. old.start \in Nat
          BY <1>1 DEF ChannelState
        <5> QED BY <1>1, <1>2, <5>1, <5>2 DEF RecordUnavailable, ChannelState
      <4> QED BY <4>2, <4>3
    <3> HIDE DEF kept
    <3> QED BY <1>4, <1>5, <1>6, <2>1, <2>3, <3>1 DEF ChannelInv
  <2>4. CASE ~ResetChannel(p, f, reset, c) /\ f.src[c] # NoPlugin
    <3>1. kept = old /\ f.src[c] = last.src[c] /\ f.gen = last.gen
      BY <2>4 DEF Retained, ResetChannel
    <3>2. last.at[c] <= f.at[c] /\ (last.at[c] = f.at[c] => (c \in last.bare <=> c \in f.bare))
      BY <1>1, <2>4, <3>1 DEF Follows
    <3>3. c \notin f.bare => ~(f.at[c] > last.at[c])
      BY <1>8, <2>4 DEF Fresh
    <3>4. /\ old.seen => old.at <= last.at[c]
          /\ c \notin last.bare => old.seen /\ old.at = last.at[c] /\ old.start = last.at[c] + StaleAfter
      BY <1>1, <2>4, <3>1 DEF ChannelInv
    <3>5. old.at \in Nat
      BY <1>1 DEF ChannelState
    <3>6. old.seen => old.at <= f.at[c]
      BY <1>2, <3>2, <3>4, <3>5
    <3>7. c \notin f.bare => c \notin last.bare /\ last.at[c] = f.at[c]
      BY <1>2, <3>2, <3>3
    <3> HIDE DEF kept, old, last
    <3> QED BY <1>4, <1>5, <1>6, <2>1, <2>4, <3>1, <3>4, <3>6, <3>7 DEF ChannelInv
  <2> QED BY <2>2, <2>3, <2>4
<1> QED BY <1>7, <1>8

\* ProcessAt takes a frame that follows the last one, or finds it ahead.
LEMMA ProcessKeeps ==
    ASSUME NEW p, NEW f \in Merged, NEW now \in Nat, Processed(p), p.hasLast => p.now < now,
           WellMade(f), f.gen > 0, Follows(p.last, f)
    PROVE  LET result == ProcessAt(p, f, now)
           IN  /\ result.refusal \in {"none", "ahead"}
               /\ Processed(result.next)
               /\ result.next.last \in {p.last, f}
               /\ result.next = p \/ result.next.now = now
<1> DEFINE class  == ClassifyInput(p, f, now)
           reset  == class = "reset"
           result == ProcessAt(p, f, now)
           taken  == [hasLast |-> TRUE, last |-> f, now |-> now, ch |-> Ingest(p, f, reset)]
<1>1. class \in {"reset", "repeat", "new"} /\ (class = "repeat" => p.hasLast)
      /\ (class = "new" => f.gen = p.last.gen)
  BY Classified
<1>2. ~Invalid(f, now)
  BY FrameFields DEF Invalid, WellMade
<1>3. ~FilterRefuses(p, f, reset)
  BY NoFilterRefuses
<1>4. result.refusal = IF Ahead(f, now) THEN "ahead" ELSE "none"
  <2> HIDE DEF class
  <2> SUFFICES ProcessAt(p, f, now).refusal = IF Ahead(f, now) THEN "ahead" ELSE "none"
    OBVIOUS
  <2> QED BY <1>1, <1>2, <1>3 DEF ProcessAt, class
<1>5. result.next = IF Ahead(f, now) THEN p ELSE IF class = "repeat" THEN [p EXCEPT !.now = now] ELSE taken
  BY <1>1, <1>2, <1>3 DEF ProcessAt
<1>6. Processed([p EXCEPT !.now = now])
  BY DEF Processed, PipeState
<1>7. CASE class # "repeat"
  <2>1. \A c \in Channel : Ingest(p, f, reset)[c] \in ChannelState /\ ChannelInv(Ingest(p, f, reset)[c], c, f)
    BY <1>1, <1>7, IngestChannel
  <2>2. Ingest(p, f, reset) \in [Channel -> ChannelState]
    BY <2>1 DEF Ingest
  <2>3. f # NoFrame
    BY DEF NoFrame
  <2>4. Processed(taken)
    <3> HIDE DEF class
    <3> QED BY <2>1, <2>2, <2>3 DEF Processed, PipeState
  <2> QED BY <1>4, <1>5, <1>7, <2>4
<1>8. CASE class = "repeat"
  <2>1. [p EXCEPT !.now = now].last = p.last /\ [p EXCEPT !.now = now].now = now
    BY DEF Processed, PipeState
  <2> HIDE DEF class, taken, result
  <2> QED BY <1>4, <1>5, <1>6, <1>8, <2>1 DEF result
<1> QED BY <1>7, <1>8

-----------------------------------------------------------------------------
(* The loop. *)

LEMMA LoopProcess ==
    ASSUME PipeInv, NEW f \in Merged, NEW wall \in Nat, clock' = Sample(wall), Process(f, clock'), plan' = plan,
           WellMade(f), f.gen > 0, Follows(pipe.last, f)
    PROVE  PipeInv' /\ pipe'.last \in {pipe.last, f}
<1>1. PICK now : now = clock'
  OBVIOUS
<1>2. now \in Nat /\ clock < now
  BY <1>1 DEF PipeInv, Sample
<1>3. PICK p : p = pipe
  OBVIOUS
<1>4. Processed(p) /\ (p.hasLast => p.now < now) /\ p.now \in Nat
  BY <1>2, <1>3 DEF PipeInv, Processed, PipeState
<1>5. PICK result : result = ProcessAt(p, f, now)
  OBVIOUS
<1>6. /\ result.refusal \in {"none", "ahead"} /\ Processed(result.next)
      /\ result.next.last \in {p.last, f} /\ (result.next = p \/ result.next.now = now)
  BY <1>2, <1>3, <1>4, <1>5, ProcessKeeps
<1>7. \/ pipe' = result.next /\ refusal' = result.refusal
      \/ pipe' = p /\ refusal' = refusal
  BY <1>1, <1>3, <1>5 DEF Process
<1>8. Processed(pipe') /\ pipe'.last \in {p.last, f} /\ (pipe' = p \/ pipe'.now = now)
  BY <1>4, <1>6, <1>7
<1>9. pipe'.hasLast => pipe'.now <= clock'
  BY <1>1, <1>2, <1>4, <1>8
<1>10. refusal' \in {"none", "ahead"}
  BY <1>6, <1>7 DEF PipeInv, RefusedOnlyAhead
<1>11. Processed(pipe)'
  BY <1>8 DEF Processed
<1> QED BY <1>1, <1>2, <1>3, <1>8, <1>9, <1>10, <1>11 DEF PipeInv, RefusedOnlyAhead

LEMMA FlowOfLoop ==
    ASSUME FlowInv, FlowSame, pipe'.last \in {pipe.last, frame'},
           \/ frame' = frame /\ mergedSlot' = mergedSlot
           \/ frame' \in mergedSlot[Loop] /\ mergedSlot'[Loop] = {}
    PROVE  FlowInv'
<1>1. PICK f, g, h : f = pipe'.last /\ g = frame' /\ h = latest'
  OBVIOUS
<1>2. Flowing(f) /\ Flowing(g) /\ Flowing(h)
  BY <1>1 DEF FlowInv, FlowSame
<1>3. Flowing(f)' /\ Flowing(g)' /\ Flowing(h)'
  BY <1>2, FlowingSame
<1>4. Follows(f, g)
  <2>1. Follows(g, g)
    <3>1. g \in Merged
      BY <1>2 DEF Flowing
    <3> QED BY <3>1, FrameFields DEF Follows
  <2> QED BY <1>1, <2>1 DEF FlowInv
<1>5. Flowing(pipe.last)' /\ Flowing(frame)' /\ Flowing(latest)' /\ Follows(pipe.last, frame)'
  BY <1>1, <1>3, <1>4
<1>6. ASSUME NEW m \in mergedSlot'[Loop]
      PROVE  Flowing(m)' /\ m.gen > 0 /\ Follows(pipe'.last, m) /\ Follows(frame', m)
  BY <1>6, FlowingSame DEF FlowInv
<1> QED BY <1>5, <1>6 DEF FlowInv

LEMMA ReceiveFrameKeeps ==
    ASSUME ServiceInv, Loop \in MergedSub, FlowInv, PipeInv, NEW wall \in Nat, ReceiveFrame(wall)
    PROVE  FlowInv' /\ PipeInv'
<1>1. PICK m \in mergedSlot[Loop] : mergedSeen' = [mergedSeen EXCEPT ![Loop] = m]
  BY DEF ReceiveFrame, ReceiveMerged
<1>2. frame' = m /\ mergedSlot'[Loop] = {} /\ FlowSame
  BY <1>1 DEF ReceiveFrame, ReceiveMerged, ServiceInv, MergedInv, IsFunction, FlowSame, stateVars
<1>3. m \in Merged /\ WellMade(m) /\ m.gen > 0 /\ Follows(pipe.last, m)
  BY <1>1 DEF FlowInv, Flowing
<1>4. clock' = Sample(wall) /\ Process(m, clock') /\ plan' = plan
  BY <1>2 DEF ReceiveFrame
<1>5. PipeInv' /\ pipe'.last \in {pipe.last, m}
  BY <1>3, <1>4, LoopProcess
<1> QED BY <1>1, <1>2, <1>5, FlowOfLoop

LEMMA TickKeeps ==
    ASSUME FlowInv, PipeInv, NEW wall \in Nat, Tick(wall)
    PROVE  FlowInv' /\ PipeInv'
<1>1. PICK f : f = frame
  OBVIOUS
<1>2. f \in Merged /\ WellMade(f) /\ f # NoFrame /\ Follows(pipe.last, f)
  BY <1>1 DEF FlowInv, Flowing, Tick
<1>3. f.gen > 0
  BY <1>2, FrameFields DEF WellMade
<1>4. clock' = Sample(wall) /\ Process(f, clock') /\ plan' = plan /\ UNCHANGED <<vars, frame>>
  BY <1>1 DEF Tick
<1>5. PipeInv' /\ pipe'.last \in {pipe.last, f}
  BY <1>2, <1>3, <1>4, LoopProcess
<1>6. FlowSame /\ mergedSlot' = mergedSlot
  BY <1>4 DEF FlowSame, vars, stateVars, subVars
<1> QED BY <1>1, <1>4, <1>5, <1>6, FlowOfLoop

LEMMA FlowOfService ==
    ASSUME ServiceInv, ServiceInv', Loop \in MergedSub, FlowInv, SourceStep \/ SubscriberStep \/ UNCHANGED vars,
           pipe' = pipe, frame' = frame
    PROVE  FlowInv'
<1>1. CASE SourceStep
  BY <1>1, FlowOfSource
<1>2. CASE SubscriberStep
  <2>1. FlowSame
    BY <1>2, SubscriberKeeps DEF stateVars, FlowSame
  <2>2. IsFunction(mergedSlot, MergedSub) /\ (generation > 0 => latest.gen > 0)
    BY DEF ServiceInv, StateInv, MergedInv, MergedMatchesSources
  <2>3. ASSUME NEW f \in mergedSlot'[Loop] PROVE f \in mergedSlot[Loop] \/ (f = latest /\ f.gen > 0)
    <3>1. ASSUME NEW x \in MergedSub, SubscribeMerged(x) PROVE f \in mergedSlot[Loop] \/ (f = latest /\ f.gen > 0)
      <4>1. mergedSlot' = [mergedSlot EXCEPT ![x] = IF generation > 0 THEN {latest} ELSE {}]
        BY <3>1 DEF SubscribeMerged, OfferOnSubscribe
      <4> QED BY <2>2, <2>3, <4>1 DEF IsFunction
    <3>2. ASSUME NEW x \in MergedSub, ReceiveMerged(x) PROVE f \in mergedSlot[Loop]
      BY <2>2, <2>3, <3>2 DEF ReceiveMerged, IsFunction
    <3>3. mergedSlot' = mergedSlot => f \in mergedSlot[Loop]
      BY <2>3
    <3> QED BY <1>2, <3>1, <3>2, <3>3 DEF SubscriberStep, CancelMerged, SubscribeSummary, CancelSummary, ReceiveSummary
  <2> QED BY <2>1, <2>3, FlowOfSubscriber
<1>3. CASE UNCHANGED vars
  BY <1>3, FlowOfSubscriber DEF vars, stateVars, subVars, FlowSame
<1> QED BY <1>1, <1>2, <1>3

LEMMA FlowStep ==
    ASSUME CoreInv, CoreInv', FlowInv, PipeInv, [Next]_allVars
    PROVE  FlowInv' /\ PipeInv'
<1>1. Loop \in MergedSub /\ usage.wall \subseteq Nat /\ usage.generations \in 0 .. MaxGeneration
  BY LoopAssumption, TrackingAssumption DEF CoreInv, Host
<1>2. SourceStep \/ SubscriberStep \/ UNCHANGED vars
  BY StepOfService
<1>3. CASE pipe' = pipe /\ frame' = frame /\ clock' = clock /\ refusal' = refusal /\ plan' \in {plan} \cup 0 .. MaxGeneration
  <2>1. FlowInv'
    BY <1>1, <1>2, <1>3, FlowOfService DEF CoreInv
  <2>2. Processed(pipe)'
    BY <1>3 DEF PipeInv, Processed
  <2> QED BY <1>3, <2>1, <2>2 DEF PipeInv, RefusedOnlyAhead
<1>4. ASSUME NEW wall \in usage.wall, ReceiveFrame(wall) \/ Tick(wall) PROVE FlowInv' /\ PipeInv'
  BY <1>1, <1>4, ReceiveFrameKeeps, TickKeeps DEF CoreInv
<1>5. ASSUME NEW g \in 1 .. usage.generations, NEW now \in usage.wall, Activate(g, now)
      PROVE  pipe' = pipe /\ frame' = frame /\ clock' = clock /\ refusal' = refusal /\ plan' \in 0 .. MaxGeneration
  BY <1>1, <1>5, TrackingAssumption DEF Activate
<1>6. CASE Serving
  BY <1>3, <1>4, <1>5, <1>6 DEF Serving, loopVars
<1>7. CASE Driving \/ UNCHANGED allVars
  BY <1>3, <1>7 DEF Driving, allVars, loopVars
<1> QED BY <1>6, <1>7 DEF Next

LEMMA FlowInit == LoopInit => FlowInv /\ PipeInv
<1> SUFFICES ASSUME LoopInit PROVE FlowInv /\ PipeInv
  OBVIOUS
<1>1. /\ pipe = NewPipeline /\ clock = -1 /\ frame = NoFrame /\ plan = 0 /\ refusal = "none"
      /\ latest = NoFrame /\ mergedSlot[Loop] = {} /\ sources = [p \in Plugin |-> NoSource]
  BY LoopAssumption DEF LoopInit, Init
<1>2. NoFrame \in Merged /\ WellMade(NoFrame) /\ Follows(NoFrame, NoFrame)
  BY TrackingAssumption DEF NoFrame, Merged, Selection, Host, WellMade, Follows
<1>3. OfSources(NoFrame)
  BY <1>1 DEF OfSources
<1>4. FlowInv
  BY <1>1, <1>2, <1>3 DEF FlowInv, Flowing, NewPipeline
<1>5. Empty \in ChannelState /\ \A c \in Channel : ChannelInv(Empty, c, NoFrame)
  BY DEF Empty, ChannelState, ChannelInv, NoFrame, Channel
<1>6. Processed(NewPipeline)
  BY <1>2, <1>5 DEF NewPipeline, Processed, PipeState
<1> QED BY <1>1, <1>4, <1>6, TrackingAssumption DEF PipeInv, RefusedOnlyAhead, NewPipeline

LEMMA ProcessingTruth == PipeInv => ProcessingIsSound
<1> SUFFICES ASSUME PipeInv PROVE ProcessingIsSound
  OBVIOUS
<1> DEFINE out == Canonical(pipe)
<1>1. PICK last, now : last = pipe.last /\ now = pipe.now
  OBVIOUS
<1>2. last \in Merged /\ now \in Nat
  BY <1>1 DEF PipeInv, Processed, PipeState
<1>3. ASSUME NEW c \in Channel
      PROVE  /\ \A x, y \in pipe.ch[c].mix : x = y
             /\ \A x \in pipe.ch[c].mix : x[1] = last.gen /\ last.src[c] \in {x[2], NoPlugin}
             /\ out.active[c] /\ c \notin last.bare =>
                  /\ pipe.ch[c].at = last.at[c]
                  /\ ActiveStaleAfter <= StaleAfter + HoldDuration => out.value[c] = "held"
             /\ last.src[c] = NoPlugin /\ now > last.updated + HoldDuration => out.value[c] # "held"
  <2>1. PICK ch : ch = pipe.ch[c]
    OBVIOUS
  <2>2. ch \in ChannelState /\ ChannelInv(ch, c, last) /\ c \in Cap
    BY <1>1, <2>1 DEF PipeInv, Processed, PipeState, Channel
  <2>3. out.value[c] = DropoutValue(ch, now)
    BY <1>1, <2>1 DEF Canonical
  <2>4. out.active[c] = (last.src[c] # NoPlugin /\ now - last.at[c] <= ActiveStaleAfter)
    BY <1>1, <2>2 DEF Canonical, Active
  <2>5. last.at[c] \in Nat /\ last.updated \in Nat /\ ch.start \in Nat
    BY <1>2, <2>2, FrameFields DEF ChannelState
  <2>6. ASSUME out.active[c], c \notin last.bare
        PROVE  /\ ch.at = last.at[c]
               /\ ActiveStaleAfter <= StaleAfter + HoldDuration => out.value[c] = "held"
    <3>1. ch.seen /\ ch.at = last.at[c] /\ ch.start = last.at[c] + StaleAfter
      BY <2>2, <2>4, <2>6 DEF ChannelInv
    <3>2. ActiveStaleAfter <= StaleAfter + HoldDuration => now - ch.start <= HoldDuration
      <4>1. now - last.at[c] <= ActiveStaleAfter
        BY <2>4, <2>6, Zenon
      <4> HIDE DEF out
      <4> QED BY <1>2, <2>5, <3>1, <4>1, PolicyAssumption
    <3>3. ASSUME now - ch.start <= HoldDuration PROVE DropoutValue(ch, now) = "held"
      <4>1. PICK e \in Int : e = now - ch.start
        BY <1>2, <2>5
      <4>2. ch.seen /\ e <= HoldDuration /\ ~(e > HoldDuration)
        BY <3>1, <3>3, <4>1, PolicyAssumption
      <4> QED BY <4>1, <4>2, Zenon DEF DropoutValue
    <3> HIDE DEF out
    <3> QED BY <2>3, <3>1, <3>2, <3>3
  <2>7. ASSUME last.src[c] = NoPlugin, now > last.updated + HoldDuration PROVE out.value[c] # "held"
    <3>1. ch.seen => ch.start <= last.updated
      BY <2>2, <2>7 DEF ChannelInv
    <3>2. ch.seen => ~(now - ch.start <= HoldDuration)
      BY <1>2, <2>5, <2>7, <3>1, PolicyAssumption
    <3> QED BY <2>3, <3>2 DEF DropoutValue
  <2>8. /\ \A x, y \in ch.mix : x = y
        /\ \A x \in ch.mix : x[1] = last.gen /\ last.src[c] \in {x[2], NoPlugin}
    BY <2>2 DEF ChannelInv
  <2> HIDE DEF out
  <2> QED BY <2>1, <2>6, <2>7, <2>8
<1>4. ChannelsOfSource
  BY <1>1, <1>3 DEF ChannelsOfSource
<1> QED BY <1>4 DEF ProcessingIsSound, PipeInv

\* Whatever the service does between two ticks and however its clock and that of
\* the loop go, a frame is refused only because it is ahead of the loop, and a
\* channel shows one source of one generation: its last valid value as long as it
\* is active, and nothing any more when it is gone (internal/processing/
\* pipeline.go: classifyInput, ProcessAt; channel.go and dropout.go; internal/
\* application/coordinator.go: process).
THEOREM ProcessingSound == Spec => []ProcessingIsSound
<1>1. CoreInv /\ CoreInv' /\ FlowInv /\ PipeInv /\ [Next]_allVars => FlowInv' /\ PipeInv'
  BY FlowStep
<1>2. PipeInv => ProcessingIsSound
  BY ProcessingTruth
<1> QED BY CoreHolds, FlowInit, <1>1, <1>2, PTL DEF Spec

=============================================================================
