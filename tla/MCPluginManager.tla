---------------------------- MODULE MCPluginManager ----------------------------
\* Instances of PluginManager for TLC: calls and plugins are interchangeable.
EXTENDS PluginManager, TLC

CallSymmetry == Permutations(Call) \cup Permutations(Plugin)

=============================================================================
