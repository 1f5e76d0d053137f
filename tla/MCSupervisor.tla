---------------------------- MODULE MCSupervisor ----------------------------
\* Two services, the first registered depends on the second.
EXTENDS Supervisor, TLC

MCRegistry == <<"a", "b">>
MCDeps == [s \in {"a", "b"} |-> IF s = "a" THEN {"b"} ELSE {}]
MCSettings == {[s \in {"a", "b"} |-> IF s = "a" THEN "ON_FAILURE" ELSE "ALWAYS"]}

\* Process records are interchangeable; used where only safety is checked.
Symmetry == Permutations(Record)
=============================================================================
