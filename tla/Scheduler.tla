----------------------------- MODULE Scheduler ------------------------------
(***************************************************************************)
(* scheduler.c: a ready queue kept in a ring buffer of Capacity slots, and *)
(* the current process.  The same record may be queued more than once:     *)
(* scheduler_add does not look for it.  Calls that return -1 without       *)
(* changing anything are stuttering steps.                                 *)
(***************************************************************************)
EXTENDS Naturals, ProcessState

CONSTANTS Process,      \* the process records
          NULL,         \* the null pointer
          Capacity      \* SCHEDULER_INITIAL_CAPACITY

ASSUME CapacityAssumption == Capacity \in Nat \ {0}
ASSUME NullAssumption == NULL \notin Process

VARIABLES ready_queue,  \* the slots of the ring
          head, tail,   \* the slot to take from, the slot to fill next
          count,        \* the number of queued processes
          current,      \* the dispatched process, or NULL
          state         \* the state of each process record

vars == <<ready_queue, head, tail, count, current, state>>

Slots == 0 .. Capacity - 1

advance(i) == (i + 1) % Capacity
retreat(i) == (i + Capacity - 1) % Capacity
index_at(o) == (head + o) % Capacity

\* The process at an offset from the head, and the offset of a slot.
At(o) == ready_queue[index_at(o)]
OffsetOf(k) == (k + Capacity - head) % Capacity

\* The first offset at which the loop of scheduler_remove finds p.
IsFirst(i, p) ==
    /\ i \in 0 .. count - 1
    /\ At(i) = p
    /\ \A j \in 0 .. i - 1 : At(j) # p

-----------------------------------------------------------------------------
Init ==
    /\ ready_queue = [k \in Slots |-> NULL]
    /\ head = 0 /\ tail = 0 /\ count = 0
    /\ current = NULL
    /\ state = [p \in Process |-> "CREATED"]

Add(p) ==
    /\ count < Capacity
    /\ ready_queue' = [ready_queue EXCEPT ![tail] = p]
    /\ tail' = advance(tail)
    /\ count' = count + 1
    /\ UNCHANGED <<head, current, state>>

RemoveCurrent(p) ==
    /\ current = p
    /\ current' = NULL
    /\ UNCHANGED <<ready_queue, head, tail, count, state>>

\* Mutant: the tail cursor stays where it was.
RemoveKeepsTail(p) ==
    /\ current # p
    /\ \E i \in 0 .. count - 1 :
         /\ IsFirst(i, p)
         /\ ready_queue' =
              [k \in Slots |->
                 LET o == OffsetOf(k) IN
                 IF o = count - 1 THEN NULL
                 ELSE IF o >= i /\ o < count THEN At(o + 1)
                 ELSE ready_queue[k]]
    /\ count' = count - 1
    /\ UNCHANGED <<head, tail, current, state>>

\* Mutant: the last element fills the hole, as in process_manager.c.
RemoveSwapsLast(p) ==
    /\ current # p
    /\ \E i \in 0 .. count - 1 :
         /\ IsFirst(i, p)
         /\ ready_queue' = [[ready_queue EXCEPT ![index_at(i)] = At(count - 1)]
                              EXCEPT ![retreat(tail)] = NULL]
    /\ tail' = retreat(tail)
    /\ count' = count - 1
    /\ UNCHANGED <<head, current, state>>

\* The inner loop moves every later element one slot towards the head.
RemoveQueued(p) ==
    /\ current # p
    /\ \E i \in 0 .. count - 1 :
         /\ IsFirst(i, p)
         /\ ready_queue' =
              [k \in Slots |->
                 LET o == OffsetOf(k) IN
                 IF o = count - 1 THEN NULL
                 ELSE IF o >= i /\ o < count THEN At(o + 1)
                 ELSE ready_queue[k]]
    /\ tail' = retreat(tail)
    /\ count' = count - 1
    /\ UNCHANGED <<head, current, state>>

\* scheduler_next.
TakeNext ==
    /\ count > 0
    /\ ready_queue' = [ready_queue EXCEPT ![head] = NULL]
    /\ head' = advance(head)
    /\ count' = count - 1
    /\ UNCHANGED <<tail, current, state>>

DispatchOK ==
    /\ current = NULL
    /\ count > 0
    /\ CanTransition(state[At(0)], "RUNNING")
    /\ ready_queue' = [ready_queue EXCEPT ![head] = NULL]
    /\ head' = advance(head)
    /\ count' = count - 1
    /\ current' = At(0)
    /\ state' = [state EXCEPT ![At(0)] = "RUNNING"]
    /\ UNCHANGED tail

\* The dispatched process cannot become RUNNING: scheduler_next took it out,
\* scheduler_add puts it back at the tail.
DispatchFails ==
    /\ current = NULL
    /\ count > 0
    /\ ~CanTransition(state[At(0)], "RUNNING")
    /\ ready_queue' = [[ready_queue EXCEPT ![head] = NULL] EXCEPT ![tail] = At(0)]
    /\ head' = advance(head)
    /\ tail' = advance(tail)
    /\ UNCHANGED <<count, current, state>>

Yield ==
    /\ current # NULL
    /\ count < Capacity
    /\ CanTransition(state[current], "READY")
    /\ state' = [state EXCEPT ![current] = "READY"]
    /\ current' = NULL
    /\ ready_queue' = [ready_queue EXCEPT ![tail] = current]
    /\ tail' = advance(tail)
    /\ count' = count + 1
    /\ UNCHANGED head

\* process_transition, called by the rest of the program.
Transition(p, s) ==
    /\ CanTransition(state[p], s)
    /\ state' = [state EXCEPT ![p] = s]
    /\ UNCHANGED <<ready_queue, head, tail, count, current>>

Next ==
    \/ \E p \in Process : Add(p) \/ RemoveCurrent(p) \/ RemoveQueued(p)
    \/ TakeNext \/ DispatchOK \/ DispatchFails \/ Yield
    \/ \E p \in Process, s \in States : Transition(p, s)

Spec == Init /\ [][Next]_vars

-----------------------------------------------------------------------------
\* Type invariant of the Scheduler struct.
TypeOK ==
    /\ ready_queue \in [Slots -> Process \cup {NULL}]
    /\ head \in Slots
    /\ tail \in Slots
    /\ count \in 0 .. Capacity
    /\ current \in Process \cup {NULL}
    /\ state \in [Process -> States]

\* The cursors agree: tail is count slots after head, whatever the mix of
\* add, next and remove (scheduler_remove moves tail back, the others move
\* head and tail on).
CursorsAgree == tail = (head + count) % Capacity

\* A slot holds a process exactly when it lies in the window of count slots
\* that starts at head: scheduler_next never hands out a null or a stale
\* pointer, and no removed process keeps a slot.
WindowFilled == \A k \in Slots : (ready_queue[k] # NULL) <=> (OffsetOf(k) < count)

\* The ring is well formed, which is what makes the three cursors redundant
\* and every slot outside the window free.
RingInv == TypeOK /\ CursorsAgree /\ WindowFilled

\* The queued processes in the order scheduler_next hands them out.
Window == [i \in 1 .. count |-> At(i - 1)]

\* The ring implements the bounded FIFO.
RQ == INSTANCE ReadyQueue WITH queue <- Window

\* Every behaviour of the ring buffer is one of the FIFO: the order of
\* dispatch is the order of scheduler_add, scheduler_remove takes out the
\* first occurrence and keeps the order of the others, and no dispatch or
\* yield loses a process, however full the queue is.
ImplementsReadyQueue == RQ!Spec
=============================================================================
