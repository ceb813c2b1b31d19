---------------------------- MODULE MCFoundryOutbox ----------------------------
EXTENDS FoundryOutbox, TLC
Replicas == Permutations(Workers) \cup Permutations(Artifacts)
=============================================================================
