---------------------------- MODULE MCSettingsStore ----------------------------
\* Instances of SettingsStore for TLC: callers are interchangeable.
EXTENDS SettingsStore, TLC

CallSymmetry == Permutations(Caller)

=============================================================================
