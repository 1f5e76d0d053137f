--------------------------- MODULE MCDescriptors ----------------------------
\* Two pairs and a child; children do not meet except through the host
\* program's descriptors, which none of them changes.
EXTENDS Descriptors

\* An unprivileged host program with low hard limits, and a privileged one that
\* was started without stdin on a platform that does not limit memory.
MCEnvironments ==
    {[std |-> 0 .. 2, hard |-> 1, memory |-> TRUE, root |-> FALSE],
     [std |-> {1, 2}, hard |-> 3, memory |-> FALSE, root |-> TRUE]}
=============================================================================
