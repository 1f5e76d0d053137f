----------------------------- MODULE ReadyQueue -----------------------------
(***************************************************************************)
(* What the scheduler promises: a bounded FIFO of process records and at   *)
(* most one current process, taken out of the FIFO.  A call that fails     *)
(* changes nothing, except that a dispatch whose process cannot become     *)
(* RUNNING sends that process to the back of the queue.                    *)
(*                                                                         *)
(* Scheduler implements this module with a ring buffer; Embla uses its     *)
(* operators on sequences.                                                 *)
(***************************************************************************)
EXTENDS Naturals, Sequences, ProcessState

CONSTANTS Process,      \* the process records
          NULL,         \* no process
          Capacity      \* SCHEDULER_INITIAL_CAPACITY

VARIABLES queue,        \* the queued processes, head first
          current,      \* the dispatched process, or NULL
          state         \* the state of each process record

vars == <<queue, current, state>>

Occurs(q, p) == \E i \in 1 .. Len(q) : q[i] = p

\* The position of the first occurrence of p in q.
First(q, p) == CHOOSE i \in 1 .. Len(q) :
                 q[i] = p /\ \A j \in 1 .. i - 1 : q[j] # p

\* q without its element at position i.
Without(q, i) ==
    [j \in 1 .. Len(q) - 1 |-> IF j < i THEN q[j] ELSE q[j + 1]]

-----------------------------------------------------------------------------
Init ==
    /\ queue = <<>>
    /\ current = NULL
    /\ state = [p \in Process |-> "CREATED"]

Add(p) ==
    /\ Len(queue) < Capacity
    /\ queue' = Append(queue, p)
    /\ UNCHANGED <<current, state>>

RemoveCurrent(p) ==
    /\ current = p
    /\ current' = NULL
    /\ UNCHANGED <<queue, state>>

RemoveQueued(p) ==
    /\ current # p
    /\ Occurs(queue, p)
    /\ queue' = Without(queue, First(queue, p))
    /\ UNCHANGED <<current, state>>

TakeNext ==
    /\ queue # <<>>
    /\ queue' = Tail(queue)
    /\ UNCHANGED <<current, state>>

DispatchOK ==
    /\ current = NULL
    /\ queue # <<>>
    /\ CanTransition(state[Head(queue)], "RUNNING")
    /\ current' = Head(queue)
    /\ queue' = Tail(queue)
    /\ state' = [state EXCEPT ![Head(queue)] = "RUNNING"]

DispatchFails ==
    /\ current = NULL
    /\ queue # <<>>
    /\ ~CanTransition(state[Head(queue)], "RUNNING")
    /\ queue' = Append(Tail(queue), Head(queue))
    /\ UNCHANGED <<current, state>>

Yield ==
    /\ current # NULL
    /\ Len(queue) < Capacity
    /\ CanTransition(state[current], "READY")
    /\ queue' = Append(queue, current)
    /\ current' = NULL
    /\ state' = [state EXCEPT ![current] = "READY"]

\* The rest of the program moves processes through their life cycle.
Transition(p, s) ==
    /\ CanTransition(state[p], s)
    /\ state' = [state EXCEPT ![p] = s]
    /\ UNCHANGED <<queue, current>>

Next ==
    \/ \E p \in Process : Add(p) \/ RemoveCurrent(p) \/ RemoveQueued(p)
    \/ TakeNext \/ DispatchOK \/ DispatchFails \/ Yield
    \/ \E p \in Process, s \in States : Transition(p, s)

Spec == Init /\ [][Next]_vars
=============================================================================
