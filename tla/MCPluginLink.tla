---------------------------- MODULE MCPluginLink ----------------------------
\* Instances of PluginLink for TLC: two callers, of two generations.
EXTENDS PluginLink, TLC

CONSTANTS c1, c2

Base == [config |-> 1, generation |-> 1, active |-> TRUE]
Generations == c1 :> [kind |-> "generation", value |-> 2] @@ c2 :> [kind |-> "generation", value |-> 3]

=============================================================================
