------------------------- MODULE MCTimedSupervisor --------------------------
\* One service, under each of the policies, with a clock.
EXTENDS TimedSupervisor

MCRegistry == <<"a">>
MCDeps == [s \in {"a"} |-> {}]
MCSettings == [{"a"} -> Policies]
=============================================================================
