------------------------------- MODULE Pipeline -------------------------------
(***************************************************************************)
(* The processing pipeline (internal/processing): it takes merged frames   *)
(* of the tracking service and host times, and keeps for every channel     *)
(* the filtered value of the last frame, which it holds and lets decay     *)
(* when the source stays silent or goes away.                              *)
(*                                                                         *)
(* A value is represented by the frame it came from: at is the receipt     *)
(* time of the last one, and mix the sources whose values the filter       *)
(* has blended.  The arithmetic of calibration, tuning, filters and mutual *)
(* exclusion is left out.  One channel stands for those of a capability;   *)
(* lip has none.                                                           *)
(***************************************************************************)
EXTENDS TrackingService

CONSTANTS
    StaleAfter, HoldDuration, DecayDuration,  \* DropoutPolicy
    ActiveStaleAfter

ASSUME PolicyAssumption ==
    /\ StaleAfter \in Nat \ {0} /\ ActiveStaleAfter \in Nat \ {0}
    /\ HoldDuration \in Nat /\ DecayDuration \in Nat

Channel == Cap \ {"lip"}

\* channelState with its filterState, whose last time is that of the channel.
Empty == [seen |-> FALSE, at |-> 0, start |-> 0, mix |-> {}]

NewPipeline == [hasLast |-> FALSE, last |-> NoFrame, now |-> 0, ch |-> [c \in Channel |-> Empty]]

\* validateMergedInput: the frame, or a group of it, is ahead of the host time
\* or has no time at all.
Invalid(f, now) ==
    \/ f.gen = 0 \/ f.seq = 0
    \/ \E c \in Cap : f.src[c] # NoPlugin /\ f.at[c] = 0

Ahead(f, now) == f.updated > now \/ \E c \in Cap : f.at[c] > now

\* Every time of a saturated revision is as new as before, or of another source.
SaturatedFreshnessNonregressing(prev, f) ==
    /\ f.updated >= prev.updated
    /\ \A c \in Cap : prev.src[c] # NoPlugin /\ prev.src[c] = f.src[c] => f.at[c] >= prev.at[c]

\* classifyInput: a frame that resets everything, a new or a repeated one, or
\* why it is refused.
ClassifyInput(p, f, now) ==
    CASE ~p.hasLast                                            -> "reset"
      [] p.hasLast /\ f.gen < p.last.gen                       -> "generation"
      [] p.hasLast /\ f.gen > p.last.gen                       -> IF now <= p.now THEN "time" ELSE "reset"
      [] p.hasLast /\ f.gen = p.last.gen /\ f.seq < p.last.seq -> "revision"
      [] p.hasLast /\ f = p.last                               -> IF now < p.now THEN "time" ELSE "repeat"
      [] OTHER -> IF f.seq = p.last.seq /\ (f.seq # MaxMerged \/ ~SaturatedFreshnessNonregressing(p.last, f))
                  THEN "conflict"
                  ELSE IF now <= p.now THEN "time" ELSE "new"

\* Dropout: when a value starts to be held is known as soon as it arrives, and
\* comes earlier when the source goes away.
RecordFresh(channel, source, at) ==
    [seen |-> TRUE, at |-> at, start |-> at + StaleAfter, mix |-> channel.mix \cup {source}]

RecordUnavailable(channel, at) ==
    IF channel.seen /\ at < channel.start THEN [channel EXCEPT !.start = at] ELSE channel

DropoutValue(channel, now) ==
    LET elapsed == now - channel.start
    IN  CASE ~channel.seen                                      -> "invalid"
          [] channel.seen /\ elapsed <= HoldDuration            -> "held"
          [] channel.seen /\ elapsed >= HoldDuration + DecayDuration /\ elapsed > HoldDuration -> "zero"
          [] OTHER                                              -> "decaying"

\* Faulty variant: only the generation resets the channels.
ResetByGeneration(p, f, reset, c) == reset

\* A channel starts anew with its source.
ResetChannel(p, f, reset, c) == reset \/ (f.src[c] # NoPlugin /\ f.src[c] # p.last.src[c])

Retained(p, f, reset, c) ==
    CASE ResetChannel(p, f, reset, c)                              -> Empty
      [] ~ResetChannel(p, f, reset, c) /\ f.src[c] = NoPlugin /\ p.last.src[c] # NoPlugin
                                                                   -> RecordUnavailable(p.ch[c], f.updated)
      [] OTHER                                                     -> p.ch[c]

\* The channels that take a value: the first frame of a source, and newer ones,
\* that have a valid value.
Fresh(p, f, reset, c) ==
    /\ f.src[c] # NoPlugin /\ c \notin f.bare
    /\ ResetChannel(p, f, reset, c) \/ f.at[c] > p.last.at[c]

\* A filter refuses a time that is not later than its last one.
FilterRefuses(p, f, reset) ==
    \E c \in Channel : Fresh(p, f, reset, c) /\ Retained(p, f, reset, c).seen /\ f.at[c] <= Retained(p, f, reset, c).at

Ingest(p, f, reset) ==
    [c \in Channel |-> IF Fresh(p, f, reset, c)
                       THEN RecordFresh(Retained(p, f, reset, c), <<f.gen, f.src[c]>>, f.at[c])
                       ELSE Retained(p, f, reset, c)]

\* ProcessAt: the pipeline after it, and why the frame was refused, which leaves
\* the pipeline as it was.
ProcessAt(p, f, now) ==
    LET class   == ClassifyInput(p, f, now)
        reset   == class = "reset"
        refusal == CASE Invalid(f, now)                          -> "invalid"
                     [] ~Invalid(f, now) /\ Ahead(f, now)        -> "ahead"
                     [] ~Invalid(f, now) /\ ~Ahead(f, now) /\ class \in {"reset", "new"} /\ FilterRefuses(p, f, reset)
                                                                 -> "filter"
                     [] OTHER -> IF class \in {"reset", "new", "repeat"} THEN "none" ELSE class
    IN  [refusal |-> refusal,
         next |-> CASE refusal # "none"                          -> p
                    [] refusal = "none" /\ class = "repeat"      -> [p EXCEPT !.now = now]
                    [] OTHER -> [hasLast |-> TRUE, last |-> f, now |-> now, ch |-> Ingest(p, f, reset)]]

\* The CanonicalFrame of the last frame that was processed.
Active(p, c) == p.last.src[c] # NoPlugin /\ p.now - p.last.at[c] <= ActiveStaleAfter

Canonical(p) == [active |-> [c \in Cap |-> Active(p, c)],
                 value |-> [c \in Channel |-> DropoutValue(p.ch[c], p.now)]]

=============================================================================
