------------------------------- MODULE MCEmbla ------------------------------
\* The runtime with a few processes, groups and host ids.
EXTENDS Embla, TLC

\* Host process ids are interchangeable.
Symmetry == Permutations(Host)
=============================================================================
