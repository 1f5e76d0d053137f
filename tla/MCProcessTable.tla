--------------------------- MODULE MCProcessTable ---------------------------
\* A small process table.
EXTENDS ProcessTable
=============================================================================
