---------------------------- MODULE ProcessState ----------------------------
(***************************************************************************)
(* The life cycle of a process record (process.c).  Every module that      *)
(* changes the state of a process goes through CanTransition, as every     *)
(* caller in the code goes through process_transition.                     *)
(***************************************************************************)

\* enum ProcessState of process.h.
States == {"CREATED", "READY", "RUNNING", "STOPPED", "BLOCKED", "TERMINATED"}

\* The pairs process_can_transition accepts.
Transitions ==
    {<<"CREATED", "READY">>,
     <<"READY", "RUNNING">>, <<"READY", "STOPPED">>, <<"READY", "TERMINATED">>,
     <<"RUNNING", "READY">>, <<"RUNNING", "STOPPED">>,
     <<"RUNNING", "BLOCKED">>, <<"RUNNING", "TERMINATED">>,
     <<"STOPPED", "RUNNING">>, <<"STOPPED", "TERMINATED">>,
     <<"BLOCKED", "READY">>, <<"BLOCKED", "TERMINATED">>}

\* process_can_transition: process_transition returns -1, and leaves the
\* record alone, exactly when this is FALSE.
CanTransition(from, to) == <<from, to>> \in Transitions
=============================================================================
