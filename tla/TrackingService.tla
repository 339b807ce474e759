---------------------------- MODULE TrackingService ----------------------------
(***************************************************************************)
(* The tracking service (internal/tracking): plugins submit frames, the    *)
(* coordinator sets the generation and removes sources, a user sets the    *)
(* routing, and subscribers receive the latest merged frame and summary    *)
(* through channels of capacity one.  Every operation runs under one       *)
(* mutex, so an operation is one step; receives of the subscribers are     *)
(* not under it.                                                           *)
(*                                                                         *)
(* The content of a frame is represented by the host time at which it was  *)
(* received, which the service makes unique.  The host clock may stand     *)
(* still or go backwards.                                                  *)
(***************************************************************************)
EXTENDS Integers, FiniteSets

CONSTANTS
    Plugin,        \* plugin IDs, positive integers so that they are ordered
    Cap,           \* capabilities: eye, expression, lip
    MaxGeneration, \* bound: largest generation
    MaxSequence,   \* bound: largest sequence number of a plugin's frame
    MaxTick,       \* bound: largest timestamp or source clock of a frame
    MaxHost,       \* largest host time (2^63-1 in the code)
    MaxMerged,     \* largest merged sequence (2^64-1 in the code)
    MaxCount,      \* largest diagnostic count (2^64-1 in the code)
    MergedSub,     \* subscribers of merged frames
    SummarySub     \* subscribers of summaries

NoPlugin == 0
Host     == 0 .. MaxHost

\* TrackingFrame: a frame that Canonicalize refuses, or that has a negative
\* clock, is not valid.  A timestamp or source clock of 0 is absent.  A bare
\* frame has its capabilities without a valid value.
Frame == [caps : SUBSET Cap, seq : 0 .. MaxSequence, ts : 0 .. MaxTick, clock : 0 .. MaxTick,
          canonical : BOOLEAN, negative : BOOLEAN, bare : BOOLEAN]

ASSUME TrackingAssumption ==
    /\ Plugin \subseteq Nat \ {0}
    /\ IsFiniteSet(Plugin)
    /\ MaxGeneration \in Nat /\ MaxSequence \in Nat /\ MaxTick \in Nat
    /\ MaxHost \in Nat /\ MaxMerged \in Nat \ {0} /\ MaxCount \in Nat

\* sourceState
Source == [caps : SUBSET Cap, at : Host, seq : 0 .. MaxSequence, ts : 0 .. MaxTick, clock : 0 .. MaxTick,
           bare : BOOLEAN]

NoSource == [caps |-> {}, at |-> 0, seq |-> -1, ts |-> 0, clock |-> 0, bare |-> FALSE]

\* RoutingConfig: a plugin for every capability, or NoPlugin for Auto.
Routing == [Cap -> Plugin \cup {NoPlugin}]

Selection == [Cap -> Plugin \cup {NoPlugin}]

\* MergedFrame: per capability the source and the time of its frame, and the
\* capabilities whose frame has no valid value.
Merged == [gen : 0 .. MaxGeneration, seq : 0 .. MaxMerged, updated : Host,
           src : Selection, at : [Cap -> Host], bare : SUBSET Cap]

Reasons == {"none", "unset", "zero", "stale", "future", "plugin", "frame", "sequence",
            "timestamp", "clock"}

VARIABLES
    generation, routing, sources,
    selected,       \* eyeSourceID, expressionSourceID, lipSourceID
    lastHost,       \* lastHostTimeNS
    latest,         \* latestMerged with mergedSequence; present once generation > 0
    accepted, rejected, lastRejection,
    mergedSubs, summarySubs,   \* subscribers whose channel is open
    mergedSlot, summarySlot,   \* the channels of capacity one, as sets
    mergedSeen, summarySeen    \* what each subscriber received last

stateVars == <<generation, routing, sources, selected, lastHost, latest>>
countVars == <<accepted, rejected, lastRejection>>
subVars   == <<mergedSubs, summarySubs, mergedSlot, summarySlot, mergedSeen, summarySeen>>
vars      == <<stateVars, countVars, subVars>>

\* saturatingAdd of one
Saturated(n, max) == IF n < max THEN n + 1 ELSE n

\* currentSummaryLocked
Summary == [gen |-> generation, routing |-> routing,
            count |-> Cardinality({p \in Plugin : sources[p] # NoSource}), selected |-> selected,
            accepted |-> accepted, rejected |-> rejected, last |-> lastRejection]

NoFrame == [gen |-> 0, seq |-> 0, updated |-> 0,
            src |-> [c \in Cap |-> NoPlugin], at |-> [c \in Cap |-> 0], bare |-> {}]

NoSummary == [gen |-> 0, routing |-> [c \in Cap |-> NoPlugin], count |-> -1,
              selected |-> [c \in Cap |-> NoPlugin], accepted |-> 0, rejected |-> 0,
              last |-> "none"]

Init ==
    /\ generation = 0
    /\ routing = [c \in Cap |-> NoPlugin]
    /\ sources = [p \in Plugin |-> NoSource]
    /\ selected = [c \in Cap |-> NoPlugin]
    /\ lastHost = 0
    /\ latest = NoFrame
    /\ accepted = 0 /\ rejected = 0 /\ lastRejection = "none"
    /\ mergedSubs = {} /\ summarySubs = {}
    /\ mergedSlot = [s \in MergedSub |-> {}] /\ summarySlot = [s \in SummarySub |-> {}]
    /\ mergedSeen = [s \in MergedSub |-> NoFrame]
    /\ summarySeen = [s \in SummarySub |-> NoSummary]

-----------------------------------------------------------------------------
(* Routing and merging. *)

Has(srcs, p, c) == p \in Plugin /\ c \in srcs[p].caps

Capable(srcs, c) == {p \in Plugin : Has(srcs, p, c)}

Least(P) == CHOOSE p \in P : \A q \in P : p <= q

\* chooseAutoSource: sticky, then the smallest capable plugin.
ChooseSmallest(current, srcs, c) ==
    IF Capable(srcs, c) = {} THEN NoPlugin ELSE Least(Capable(srcs, c))

ChooseAuto(current, srcs, c) ==
    IF Has(srcs, current, c) THEN current
    ELSE IF Capable(srcs, c) = {} THEN NoPlugin
    ELSE Least(Capable(srcs, c))

\* resolveSource: a manual choice has no fallback.
Resolve(route, current, srcs, c) ==
    IF route = NoPlugin THEN ChooseAuto(current, srcs, c)
    ELSE IF Has(srcs, route, c) THEN route ELSE NoPlugin

\* The times of the selected frames.
Times(sel, srcs) == [c \in Cap |-> IF sel[c] = NoPlugin THEN 0 ELSE srcs[sel[c]].at]

\* nextTimeLocked and nextReceiptTimeLocked with clock reading now.
NextTime(last, now) == IF now < last THEN last ELSE now

NextReceipt(last, now) == IF now <= last THEN (IF last < MaxHost THEN last + 1 ELSE last) ELSE now

\* publishMergedLocked and publishSummaryLocked: offerLatest replaces what a
\* subscriber has not received yet.
PublishMerged == mergedSlot' = [s \in MergedSub |-> IF s \in mergedSubs THEN {latest'} ELSE mergedSlot[s]]

PublishSummary ==
    summarySlot' = [s \in SummarySub |-> IF s \in summarySubs THEN {Summary'} ELSE summarySlot[s]]

\* recomputeMergedLocked on the new sources and routing, after host time last,
\* and publishMergedLocked when it made a new merged frame.
Recompute(srcs, rt, last, force, now) ==
    LET sel  == [c \in Cap |-> Resolve(rt[c], selected[c], srcs, c)]
        same == sel = latest.src /\ Times(sel, srcs) = latest.at /\ latest.gen = generation
    IN  /\ selected' = sel
        /\ IF ~force /\ sel = selected /\ same
           THEN lastHost' = last /\ UNCHANGED <<latest, mergedSlot>>
           ELSE /\ lastHost' = NextTime(last, now)
                /\ latest' = [gen |-> generation, seq |-> Saturated(latest.seq, MaxMerged), updated |-> lastHost',
                              src |-> sel, at |-> Times(sel, srcs),
                              bare |-> {c \in Cap : sel[c] # NoPlugin /\ srcs[sel[c]].bare}]
                /\ PublishMerged

-----------------------------------------------------------------------------
(* The operations. *)

restOfSubs == <<mergedSubs, summarySubs, mergedSeen, summarySeen>>

\* SetGeneration of a newer generation; an equal one changes nothing, and zero
\* and an older one are refused.
SetGeneration(g, now) ==
    /\ g > generation
    /\ generation' = g
    /\ sources' = [p \in Plugin |-> NoSource]
    /\ selected' = [c \in Cap |-> NoPlugin]
    /\ lastHost' = NextTime(lastHost, now)
    /\ latest' = [NoFrame EXCEPT !.gen = g, !.seq = Saturated(latest.seq, MaxMerged), !.updated = lastHost']
    /\ UNCHANGED <<routing, countVars, restOfSubs>>
    /\ PublishMerged /\ PublishSummary

\* The reasons in the order of Submit's checks, and the first check that fails.
CheckReason == <<"plugin", "unset", "zero", "stale", "future", "frame", "sequence", "frame",
                 "timestamp", "clock", "timestamp">>

Reason(p, g, f) ==
    LET prev   == IF p \in Plugin THEN sources[p] ELSE NoSource
        fails  == <<p = NoPlugin, generation = 0, g = 0, g < generation, g > generation,
                    ~f.canonical, f.seq <= prev.seq, f.negative,
                    f.ts # 0 /\ f.ts < prev.ts, f.clock # 0 /\ f.clock < prev.clock,
                    lastHost = MaxHost>>
        failed == {i \in 1 .. 11 : fails[i]}
    IN  IF failed = {} THEN "none" ELSE CheckReason[Least(failed)]

\* rejectLocked
Reject(reason) ==
    /\ rejected' = Saturated(rejected, MaxCount)
    /\ lastRejection' = reason
    /\ UNCHANGED <<stateVars, accepted, mergedSlot, restOfSubs>>
    /\ PublishSummary

\* An absent clock keeps the last one.
Accept(p, f, received, now) ==
    LET at   == NextReceipt(lastHost, received)
        srcs == [sources EXCEPT ![p] =
                   [caps |-> f.caps, at |-> at, seq |-> f.seq, bare |-> f.bare,
                    ts |-> IF f.ts # 0 THEN f.ts ELSE @.ts,
                    clock |-> IF f.clock # 0 THEN f.clock ELSE @.clock]]
    IN  /\ sources' = srcs
        /\ Recompute(srcs, routing, at, \E c \in Cap : selected[c] = p, now)
        /\ accepted' = Saturated(accepted, MaxCount)
        /\ UNCHANGED <<generation, routing, rejected, lastRejection, restOfSubs>>
        /\ PublishSummary

Submit(p, g, f, wall) ==
    LET reason == Reason(p, g, f)
    IN  \/ reason # "none" /\ Reject(reason)
        \/ reason = "none" /\ \E received, now \in wall : Accept(p, f, received, now)

SetRouting(r, now) ==
    /\ r # routing
    /\ routing' = r
    /\ IF generation = 0 THEN UNCHANGED <<selected, lastHost, latest, mergedSlot>>
       ELSE Recompute(sources, r, lastHost, TRUE, now)
    /\ UNCHANGED <<generation, sources, countVars, restOfSubs>>
    /\ PublishSummary

RemoveUnpublished(p, now) ==
    LET srcs == [sources EXCEPT ![p] = NoSource]
    IN  /\ sources[p] # NoSource
        /\ sources' = srcs
        /\ Recompute(srcs, routing, lastHost, FALSE, now)
        /\ UNCHANGED <<generation, routing, countVars, summarySlot, restOfSubs>>

RemoveSource(p, now) ==
    LET srcs == [sources EXCEPT ![p] = NoSource]
    IN  /\ sources[p] # NoSource
        /\ sources' = srcs
        /\ Recompute(srcs, routing, lastHost, FALSE, now)
        /\ UNCHANGED <<generation, routing, countVars, restOfSubs>>
        /\ PublishSummary

-----------------------------------------------------------------------------
(* Subscribers. *)

\* A new merged subscriber is offered the latest frame, if there is one.
OfferOnSubscribe(s) == mergedSlot' = [mergedSlot EXCEPT ![s] = IF generation > 0 THEN {latest} ELSE {}]

SubscribeMerged(s) ==
    /\ s \notin mergedSubs
    /\ mergedSubs' = mergedSubs \cup {s}
    /\ OfferOnSubscribe(s)
    /\ mergedSeen' = [mergedSeen EXCEPT ![s] = NoFrame]
    /\ UNCHANGED <<stateVars, countVars, summarySubs, summarySlot, summarySeen>>

SubscribeSummary(s) ==
    /\ s \notin summarySubs
    /\ summarySubs' = summarySubs \cup {s}
    /\ summarySlot' = [summarySlot EXCEPT ![s] = {Summary}]
    /\ summarySeen' = [summarySeen EXCEPT ![s] = NoSummary]
    /\ UNCHANGED <<stateVars, countVars, mergedSubs, mergedSlot, mergedSeen>>

\* The context of the subscription ends: no value is offered any more, and the
\* buffered one can still be received.
CancelMerged(s) ==
    /\ s \in mergedSubs
    /\ mergedSubs' = mergedSubs \ {s}
    /\ UNCHANGED <<stateVars, countVars, summarySubs, mergedSlot, summarySlot, mergedSeen, summarySeen>>

CancelSummary(s) ==
    /\ s \in summarySubs
    /\ summarySubs' = summarySubs \ {s}
    /\ UNCHANGED <<stateVars, countVars, mergedSubs, mergedSlot, summarySlot, mergedSeen, summarySeen>>

ReceiveMerged(s) ==
    /\ \E m \in mergedSlot[s] : mergedSeen' = [mergedSeen EXCEPT ![s] = m]
    /\ mergedSlot' = [mergedSlot EXCEPT ![s] = {}]
    /\ UNCHANGED <<stateVars, countVars, mergedSubs, summarySubs, summarySlot, summarySeen>>

ReceiveSummary(s) ==
    /\ \E m \in summarySlot[s] : summarySeen' = [summarySeen EXCEPT ![s] = m]
    /\ summarySlot' = [summarySlot EXCEPT ![s] = {}]
    /\ UNCHANGED <<stateVars, countVars, mergedSubs, summarySubs, mergedSlot, mergedSeen>>

-----------------------------------------------------------------------------
(* Properties. *)

TypeOK ==
    /\ generation \in 0 .. MaxGeneration /\ routing \in Routing /\ selected \in Selection
    /\ \A p \in Plugin : sources[p] \in Source \cup {NoSource}
    /\ lastHost \in Host /\ latest \in Merged
    /\ accepted \in 0 .. MaxCount /\ rejected \in 0 .. MaxCount /\ lastRejection \in Reasons
    /\ \A s \in MergedSub : mergedSlot[s] \subseteq Merged /\ Cardinality(mergedSlot[s]) <= 1

\* The latest merged frame is the merge of the current sources under the current
\* routing: each capability comes from a plugin that has it, manually chosen or
\* automatic, with the time of that plugin's last frame, although a frame of an
\* unselected source does not make a new merged frame.
MergedMatchesSources ==
    generation > 0 =>
        /\ latest.gen = generation
        /\ latest.src = selected
        /\ latest.at = Times(selected, sources)
        /\ \A c \in Cap : selected[c] = Resolve(routing[c], selected[c], sources, c)

\* Host times are not later than the last one given out, and two sources never
\* share a receipt time, even when the clock stands still, goes backwards or
\* reaches its end: equal times mean an equal frame.
ReceiptTimesDistinct ==
    /\ latest.updated <= lastHost
    /\ \A p \in Plugin : sources[p] # NoSource => sources[p].at <= lastHost
    /\ \A p, q \in Plugin : p # q /\ sources[p] # NoSource => sources[p].at # sources[q].at

\* A subscriber that has nothing to receive has seen the latest merged frame,
\* and what it has to receive is the latest one: slow subscribers lose frames,
\* never the last one.
NoMergedFrameLost ==
    \A s \in mergedSubs : IF mergedSlot[s] = {} THEN generation > 0 => mergedSeen[s] = latest
                          ELSE mergedSlot[s] = {latest}

\* The same for summaries: every operation that changes the summary offers it.
NoSummaryLost ==
    \A s \in summarySubs : IF summarySlot[s] = {} THEN summarySeen[s] = Summary
                           ELSE summarySlot[s] = {Summary}

\* The merged frame is that of the sources, its times tell frames apart, and
\* neither kind of subscriber misses what came last.
ServiceIsCurrent ==
    TypeOK /\ MergedMatchesSources /\ ReceiptTimesDistinct /\ NoMergedFrameLost /\ NoSummaryLost

\* Within a generation an automatic selection leaves its source only when that
\* source is gone or lost the capability, or the routing changes.
AutoIsSticky ==
    \A c \in Cap :
      selected'[c] # selected[c] /\ selected[c] # NoPlugin /\ generation' = generation
          => routing' # routing \/ ~Has(sources', selected[c], c)

\* Merged frames are numbered upwards without gaps, their time and generation
\* never go back, and an accepted frame of a selected source always makes one.
MergedAdvances ==
    /\ latest' # latest =>
         /\ latest'.seq = Saturated(latest.seq, MaxMerged)
         /\ latest'.updated >= latest.updated
         /\ latest'.gen >= latest.gen
    /\ \A p \in Plugin : sources'[p] # sources[p] /\ (\E c \in Cap : selected[c] = p) => latest' # latest

\* How the selection and the merged frame may change.
MergedSteps == [][AutoIsSticky /\ MergedAdvances]_vars

=============================================================================
