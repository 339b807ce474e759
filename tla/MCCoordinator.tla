----------------------------- MODULE MCCoordinator -----------------------------
\* Instances of Coordinator for TLC: avatars are interchangeable.
EXTENDS Coordinator, TLC

AvatarSymmetry == Permutations(Avatar)

=============================================================================
