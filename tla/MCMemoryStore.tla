---------------------------- MODULE MCMemoryStore ----------------------------
EXTENDS MemoryStore, TLC

CONSTANTS api, learner, u1, u2

\* Processes and users are alike, and the properties are invariants.
Symmetry == Permutations({api, learner}) \cup Permutations({u1, u2})
=============================================================================
