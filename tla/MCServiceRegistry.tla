------------------------- MODULE MCServiceRegistry --------------------------
\* The registry with a few services.
EXTENDS ServiceRegistry

\* Names are interchangeable.
Symmetry == Permutations(Name)
=============================================================================
