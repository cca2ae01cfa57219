------------------------- MODULE MCSessionLifecycle -------------------------
EXTENDS SessionLifecycle, TLC

CONSTANTS Unmade   \* the ids of threads that do not exist yet

\* Requests differ only in what they ask for, and new ids in nothing.
LifecycleSymmetry == Permutations(Requests) \union Permutations(Unmade)

=============================================================================
