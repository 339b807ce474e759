------------------------------ MODULE MCFrameLoop ------------------------------
\* Instances of FrameLoop for TLC.
EXTENDS FrameLoop, TLC

CONSTANT s

Good(caps, seq) == [caps |-> caps, seq |-> seq, ts |-> 0, clock |-> 0,
                    canonical |-> TRUE, negative |-> FALSE, bare |-> FALSE]

\* Two plugins with frames of every capability set, in order, and any routing.
Merging ==
    [plugins |-> Plugin, frames |-> {Good(caps, seq) : caps \in SUBSET Cap, seq \in 1 .. 2},
     generations |-> MaxGeneration, wall |-> {0, 2}, rejects |-> FALSE, routes |-> TRUE, subscribe |-> {}, loop |-> FALSE, driver |-> {}, ports |-> {}]

\* One plugin whose frames have clocks that are absent, advance and regress, or
\* are not valid, and subscribers of the summary; and of the merged frames.
Summing ==
    [plugins |-> {1}, generations |-> 1, wall |-> {1}, rejects |-> TRUE, routes |-> FALSE, subscribe |-> {"summary"}, loop |-> FALSE, driver |-> {}, ports |-> {},
     frames |-> {[Good(Cap, 1) EXCEPT !.ts = 2, !.clock = 2], Good(Cap, 2), [Good(Cap, 2) EXCEPT !.ts = 1],
                 [Good(Cap, 2) EXCEPT !.clock = 1], [Good({}, 1) EXCEPT !.canonical = FALSE],
                 [Good({}, 1) EXCEPT !.negative = TRUE]}]

Subscribing ==
    [Merging EXCEPT !.plugins = {1}, !.frames = {Good(Cap, 1), Good(Cap, 2)}, !.subscribe = {"merged"}, !.routes = FALSE]

\* Two plugins and the coordinator's loop, with a clock that goes back.
Processing ==
    [plugins |-> Plugin, generations |-> MaxGeneration, wall |-> {1, 2, 3}, rejects |-> FALSE, routes |-> FALSE,
     subscribe |-> {}, loop |-> TRUE, driver |-> {}, ports |-> {},
     frames |-> {Good({"eye"}, 1), Good({}, 2), [Good({"eye"}, 2) EXCEPT !.bare = TRUE], Good({"eye"}, 3)}]

\* The Steam Link driver: configurations with two ports; and changes of activity
\* and subscription while frames pass.
Binding ==
    [plugins |-> {}, generations |-> 0, wall |-> {1}, rejects |-> FALSE, routes |-> FALSE, subscribe |-> {}, loop |-> FALSE,
     frames |-> {}, driver |-> {"config", "shutdown"}, ports |-> Port]

Streaming == [Binding EXCEPT !.generations = MaxGeneration, !.driver = {"active", "subscription"}, !.ports = {1}]

Usages == {Merging, Summing, Subscribing, Processing, Binding, Streaming}

=============================================================================
