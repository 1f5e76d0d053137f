---------------------------- MODULE MCScheduler -----------------------------
\* The scheduler with a few processes and slots.
EXTENDS Scheduler, TLC

\* Process records are interchangeable.
Symmetry == Permutations(Process)
=============================================================================
