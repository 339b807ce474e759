------------------------------ MODULE OSCSender ------------------------------
\* The send runtime and the parameter sender of the OSC service: a catalog of
\* outputs, the source of their values, the cache of what was sent last, and the
\* pass of the send loop that turns changes into datagrams.
\*
\* All outputs come from one parameter.  A catalog is its hash; its generation
\* only has to differ from zero.
EXTENDS Integers, Sequences, FiniteSets, FiniteSetsExt

CONSTANTS
    Catalog,      \* catalogs by hash: each a sequence of outputs [op, weight, large]
    Value,        \* values of the parameter
    Epsilon,      \* FloatEpsilon
    Limit,        \* the parameter's range is -Limit .. Limit
    QuantizeMax,  \* what the bits of the parameter can express
    BundleSize,   \* outputs that fit in one datagram
    Address,      \* OSC targets
    NoTarget,
    NoValue,      \* no source, or nothing sent yet
    Invalid       \* the source has no finite value for the parameter

ASSUME CatalogAssumption ==
    /\ IsFiniteSet(DOMAIN Catalog)
    /\ \A h \in DOMAIN Catalog :
          /\ h \in Nat \ {0}
          /\ Catalog[h] \in Seq([op : {"float", "negative", "bit"}, weight : Nat, large : BOOLEAN])
          /\ \A i \in DOMAIN Catalog[h] : Catalog[h][i].op = "bit" => Catalog[h][i].weight > 0
    /\ NoTarget \notin Address /\ NoValue \notin Int \cup {Invalid} /\ Invalid \notin Int
    /\ Value \subseteq Int /\ {Epsilon, QuantizeMax} \subseteq Nat /\ {Limit, BundleSize} \subseteq Nat \ {0}

VARIABLES
    target,   \* UDPTransport.target
    catalog,  \* the hash of the sender's catalog, 0 for none
    source,   \* the runtime's value source
    cache,    \* the sender's last
    pass,     \* the send loop
    shown     \* what each receiver was sent

senderVars == <<target, catalog, source, cache, pass, shown>>

Output == Catalog[catalog]
Index == 1 .. Max({Len(Catalog[h]) : h \in DOMAIN Catalog})
Nothing == [i \in Index |-> NoValue]
\* The send loop's pass: its position, the source it sends, and whether the
\* source has kept its value since.
IdlePass == [at |-> "idle", next |-> 1, source |-> NoValue, ok |-> TRUE]

SenderInit ==
    /\ catalog = 0 /\ source = NoValue
    /\ cache = Nothing
    /\ pass = IdlePass
    /\ shown = [a \in Address |-> Nothing]

Abs(n) == IF n < 0 THEN -n ELSE n
Least(a, b) == IF a < b THEN a ELSE b

Clamp(v) == IF v < -Limit THEN -Limit ELSE Least(v, Limit)

\* binaryMagnitude of a signed range, scaled and cut to the bits there are.
Quantized(v) == Least((Abs(v) * (QuantizeMax + 1)) \div Limit, QuantizeMax)

\* What an output's address is sent for a value of the parameter.
EvaluateOutput(i, v) ==
    LET c == Clamp(v) IN
    CASE Output[i].op = "float" -> c
      [] Output[i].op = "negative" -> IF c < 0 THEN 1 ELSE 0
      [] Output[i].op = "bit" -> (Quantized(c) \div Output[i].weight) % 2

ScalarEqual(i, a, b) == IF Output[i].op = "float" THEN Abs(a - b) <= Epsilon ELSE a = b

Changed(i, v) == cache[i] = NoValue \/ ~ScalarEqual(i, cache[i], EvaluateOutput(i, v))

(***************************************************************************)
(* The runtime.  A send holds the read lock, the operations that replace   *)
(* catalog or source wait for it.                                          *)
(***************************************************************************)

Unlocked == pass.at = "idle"

ResetChangeDetection == cache' = Nothing

SetTarget(a) == target' = a

\* clear, of the coordinator and of a lost connection.
Clear ==
    /\ Unlocked
    /\ catalog' = 0 /\ source' = NoValue
    /\ ResetChangeDetection
    /\ UNCHANGED <<pass, shown>>

\* SetCatalog keeps the cache of a catalog with the same hash.
Install(hash, from) ==
    /\ Unlocked
    /\ catalog' = hash /\ source' = from
    /\ cache' = IF catalog = hash THEN cache ELSE Nothing
    /\ UNCHANGED <<pass, shown>>

(***************************************************************************)
(* The send loop.                                                          *)
(***************************************************************************)

BeginPass ==
    /\ pass.at = "idle" /\ target # NoTarget /\ catalog # 0 /\ source # NoValue
    /\ pass' = [IdlePass EXCEPT !.at = "sending", !.source = source]
    /\ UNCHANGED <<target, catalog, source, cache, shown>>

\* The outputs from the pass's position on that have to be sent.
Due == IF pass.source = Invalid THEN {} ELSE {i \in pass.next .. Len(Output) : Changed(i, pass.source)}

\* The outputs of the next datagram: one that is too large goes alone, the
\* others are bundled until one more does not fit.
Datagram ==
    LET first == Min(Due)
        alone == Output[first].large
        bundled == {i \in Due : \A j \in Due : j <= i => ~Output[j].large}
    IN  IF alone THEN {first} ELSE {i \in bundled : Cardinality({j \in bundled : j <= i}) <= BundleSize}

\* The cache takes over what was sent, once the transport has accepted it.
Commit(sent) == cache' = [i \in Index |-> IF i \in sent THEN EvaluateOutput(i, pass.source) ELSE cache[i]]

SendDatagram ==
    /\ pass.at = "sending" /\ Due # {} /\ target # NoTarget
    /\ LET sent == Datagram IN
       /\ shown' = [shown EXCEPT ![target] =
                       [i \in Index |-> IF i \in sent THEN EvaluateOutput(i, pass.source) ELSE @[i]]]
       /\ Commit(sent)
       /\ pass' = [pass EXCEPT !.next = 1 + Max(sent)]
    /\ UNCHANGED <<target, catalog, source>>

\* Without a target, or when the socket fails, the pass ends and nothing of the
\* datagram is committed.
SendFails ==
    /\ pass.at = "sending" /\ Due # {}
    /\ pass' = IdlePass
    /\ UNCHANGED <<target, catalog, source, cache, shown>>

EndPass ==
    /\ pass.at = "sending" /\ Due = {}
    /\ pass' = IdlePass
    /\ UNCHANGED <<target, catalog, source, cache, shown>>

=============================================================================
