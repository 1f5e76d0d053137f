----------------------------- MODULE RecordSet ------------------------------
(***************************************************************************)
(* What the process manager promises: a bounded set of process records,    *)
(* each with an id that is never used again, a parent and a mark once it   *)
(* has TERMINATED.  A call either happens as a whole or not at all, and    *)
(* nobody can tell in which order the records are kept.  This is the       *)
(* process table as Embla uses it.                                         *)
(***************************************************************************)
EXTENDS Naturals, FiniteSets

CONSTANTS MaxPid,    \* bound on process ids; UINT32_MAX - 1 in the code
          Capacity,  \* PROCESS_MANAGER_INITIAL_CAPACITY
          None       \* no record

Root == 0             \* EMBLA_ROOT_PID
Pid == 1 .. MaxPid

VARIABLES parent,    \* Pid -> id of the parent, or None if there is no such record
          done,      \* the records that are TERMINATED
          next_pid   \* the next id

vars == <<parent, done, next_pid>>

Records == {p \in Pid : parent[p] # None}
Children(q) == {p \in Records : parent[p] = q}

Init ==
    /\ parent = [p \in Pid |-> None]
    /\ done = {}
    /\ next_pid = 1

Create(q) ==
    /\ Cardinality(Records) < Capacity /\ next_pid <= MaxPid
    /\ parent' = [parent EXCEPT ![next_pid] = q]
    /\ next_pid' = next_pid + 1
    /\ UNCHANGED done

Terminate(p) ==
    /\ p \in Records \ done
    /\ done' = done \cup {p}
    /\ UNCHANGED <<parent, next_pid>>

Destroy(p) ==
    /\ p \in Records
    /\ parent' = [parent EXCEPT ![p] = None]
    /\ done' = done \ {p}
    /\ UNCHANGED next_pid

\* Any child that is TERMINATED may be the one that is reaped.
ReapChild(q) == \E p \in Children(q) \cap done : Destroy(p)

Reparent(q, new) ==
    /\ parent' = [p \in Pid |-> IF parent[p] = q THEN new ELSE parent[p]]
    /\ UNCHANGED <<done, next_pid>>

Next ==
    \/ \E q \in Pid \cup {Root} : Create(q) \/ ReapChild(q)
    \/ \E p \in Pid : Terminate(p) \/ Destroy(p)
    \/ \E q, new \in Pid \cup {Root} : Reparent(q, new)

Spec == Init /\ [][Next]_vars
=============================================================================
