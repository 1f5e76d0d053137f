--------------------------- MODULE SchedulerProofs --------------------------
(***************************************************************************)
(* The ring buffer of scheduler.c is sound for every capacity and every    *)
(* set of processes: its cursors agree and its window holds exactly the    *)
(* queued processes (RingInv), and it implements the FIFO of ReadyQueue.   *)
(***************************************************************************)
EXTENDS Scheduler, SequenceTheorems, TLAPS

USE CapacityAssumption, NullAssumption

-----------------------------------------------------------------------------
(* Arithmetic of the ring.                                                 *)

\* A sum of two slot indices wraps at most once.
LEMMA ModWrap ==
  ASSUME NEW C \in Nat \ {0}, NEW a \in 0 .. 2 * C - 1
  PROVE  a % C = IF a < C THEN a ELSE a - C
<1>1. CASE a < C
  BY <1>1
<1>2. CASE a >= C
  BY <1>2
<1> QED BY <1>1, <1>2

\* scheduler_advance wraps from the last slot to the first.
LEMMA AdvanceWraps ==
  ASSUME NEW i \in Slots
  PROVE  advance(i) = IF i + 1 < Capacity THEN i + 1 ELSE 0
BY ModWrap DEF advance, Slots

\* scheduler_retreat wraps from the first slot to the last.
LEMMA RetreatWraps ==
  ASSUME NEW i \in Slots
  PROVE  retreat(i) = IF i = 0 THEN Capacity - 1 ELSE i - 1
<1> DEFINE a == i + Capacity - 1
<1>1. a \in 0 .. 2 * Capacity - 1
  BY DEF Slots
<1>2. a % Capacity = IF a < Capacity THEN a ELSE a - Capacity
  <2> HIDE DEF a
  <2> QED BY <1>1, ModWrap
<1> QED BY <1>2 DEF retreat, Slots

\* scheduler_index_at for a head h.
LEMMA IndexWraps ==
  ASSUME NEW h \in Slots, NEW o \in 0 .. Capacity
  PROVE  (h + o) % Capacity = IF h + o < Capacity THEN h + o ELSE h + o - Capacity
<1> DEFINE a == h + o
<1>1. a \in 0 .. 2 * Capacity - 1
  BY DEF Slots
<1>2. a % Capacity = IF a < Capacity THEN a ELSE a - Capacity
  <2> HIDE DEF a
  <2> QED BY <1>1, ModWrap
<1> QED BY <1>2 DEF Slots

\* The offset of slot k from a head h.
LEMMA OffsetWraps ==
  ASSUME NEW h \in Slots, NEW k \in Slots
  PROVE  (k + Capacity - h) % Capacity = IF k >= h THEN k - h ELSE k + Capacity - h
<1> DEFINE a == k + Capacity - h
<1>1. a \in 0 .. 2 * Capacity - 1
  BY DEF Slots
<1>2. a % Capacity = IF a < Capacity THEN a ELSE a - Capacity
  <2> HIDE DEF a
  <2> QED BY <1>1, ModWrap
<1> QED BY <1>2 DEF Slots

-----------------------------------------------------------------------------
(* The ring invariant.                                                     *)

\* The slot at the head holds a process whenever the queue is not empty.
LEMMA HeadHeld ==
  ASSUME RingInv, count > 0
  PROVE  At(0) = ready_queue[head] /\ At(0) \in Process
<1>1. head \in Slots /\ OffsetOf(head) = 0
  BY OffsetWraps DEF RingInv, TypeOK, OffsetOf, Slots
<1>2. index_at(0) = head
  <2>1. head + 0 = head /\ head < Capacity /\ 0 \in 0 .. Capacity
    BY <1>1 DEF Slots
  <2> QED BY <1>1, <2>1, IndexWraps DEF index_at
<1>3. ready_queue[head] # NULL
  BY <1>1 DEF RingInv, WindowFilled
<1> QED BY <1>1, <1>2, <1>3 DEF At, RingInv, TypeOK

\* scheduler_next takes the head out of the window.
LEMMA TakeKeepsRing ==
  ASSUME RingInv, count > 0,
         ready_queue' = [ready_queue EXCEPT ![head] = NULL],
         head' = advance(head), count' = count - 1, tail' = tail
  PROVE  /\ ready_queue' \in [Slots -> Process \cup {NULL}]
         /\ head' \in Slots /\ tail' \in Slots /\ count' \in 0 .. Capacity
         /\ CursorsAgree' /\ WindowFilled'
<1>1. head' = IF head + 1 < Capacity THEN head + 1 ELSE 0
  BY AdvanceWraps DEF RingInv, TypeOK
<1>2. head' \in Slots /\ count' \in 0 .. Capacity
  BY <1>1 DEF RingInv, TypeOK, Slots
<1>3. CursorsAgree'
  <2>1. (head' + count') % Capacity
          = IF head' + count' < Capacity THEN head' + count' ELSE head' + count' - Capacity
    BY <1>2, IndexWraps
  <2>2. tail = IF head + count < Capacity THEN head + count ELSE head + count - Capacity
    BY IndexWraps DEF RingInv, TypeOK, CursorsAgree
  <2> QED BY <1>1, <2>1, <2>2 DEF RingInv, TypeOK, CursorsAgree, Slots
<1>4. WindowFilled'
  <2> SUFFICES ASSUME NEW k \in Slots
               PROVE  (ready_queue'[k] # NULL) <=> (OffsetOf(k)' < count')
    BY DEF WindowFilled, Slots
  <2>1. OffsetOf(k) = IF k >= head THEN k - head ELSE k + Capacity - head
    BY OffsetWraps DEF OffsetOf, RingInv, TypeOK
  <2>2. OffsetOf(k)' = IF k >= head' THEN k - head' ELSE k + Capacity - head'
    BY <1>2, OffsetWraps DEF OffsetOf
  <2>3. (ready_queue[k] # NULL) <=> (OffsetOf(k) < count)
    BY DEF RingInv, WindowFilled
  <2>4. ready_queue'[k] = IF k = head THEN NULL ELSE ready_queue[k]
    BY DEF RingInv, TypeOK
  <2> QED BY <1>1, <2>1, <2>2, <2>3, <2>4 DEF RingInv, TypeOK, Slots
<1> QED BY <1>2, <1>3, <1>4 DEF RingInv, TypeOK

\* scheduler_add extends the window by the slot at the tail.
LEMMA AddKeepsRing ==
  ASSUME RingInv, count < Capacity, NEW p \in Process,
         ready_queue' = [ready_queue EXCEPT ![tail] = p],
         tail' = advance(tail), count' = count + 1, head' = head
  PROVE  /\ ready_queue' \in [Slots -> Process \cup {NULL}]
         /\ head' \in Slots /\ tail' \in Slots /\ count' \in 0 .. Capacity
         /\ CursorsAgree' /\ WindowFilled'
<1>0. tail = IF head + count < Capacity THEN head + count ELSE head + count - Capacity
  BY IndexWraps DEF RingInv, TypeOK, CursorsAgree
<1>1. tail' = IF tail + 1 < Capacity THEN tail + 1 ELSE 0
  BY AdvanceWraps DEF RingInv, TypeOK
<1>2. tail' \in Slots /\ count' \in 0 .. Capacity
  BY <1>1 DEF RingInv, TypeOK, Slots
<1>3. CursorsAgree'
  <2>1. (head' + count') % Capacity
          = IF head' + count' < Capacity THEN head' + count' ELSE head' + count' - Capacity
    BY <1>2, IndexWraps DEF RingInv, TypeOK
  <2> QED BY <1>0, <1>1, <2>1 DEF RingInv, TypeOK, CursorsAgree, Slots
<1>4. WindowFilled'
  <2> SUFFICES ASSUME NEW k \in Slots
               PROVE  (ready_queue'[k] # NULL) <=> (OffsetOf(k)' < count')
    BY DEF WindowFilled, Slots
  <2>1. OffsetOf(k) = IF k >= head THEN k - head ELSE k + Capacity - head
    BY OffsetWraps DEF OffsetOf, RingInv, TypeOK
  <2>2. OffsetOf(k)' = OffsetOf(k)
    BY DEF OffsetOf
  <2>3. (ready_queue[k] # NULL) <=> (OffsetOf(k) < count)
    BY DEF RingInv, WindowFilled
  <2>4. ready_queue'[k] = IF k = tail THEN p ELSE ready_queue[k]
    BY DEF RingInv, TypeOK
  <2>5. (k = tail) <=> (OffsetOf(k) = count)
    BY <1>0, <2>1 DEF RingInv, TypeOK, Slots
  <2> QED BY <2>1, <2>2, <2>3, <2>4, <2>5 DEF RingInv, TypeOK, Slots
<1> QED BY <1>2, <1>3, <1>4 DEF RingInv, TypeOK

\* The shift of scheduler_remove keeps every slot of the shorter window filled
\* and clears the one that leaves it.
LEMMA RemoveKeepsRing ==
  ASSUME RingInv, NEW p \in Process, RemoveQueued(p)
  PROVE  /\ ready_queue' \in [Slots -> Process \cup {NULL}]
         /\ head' \in Slots /\ tail' \in Slots /\ count' \in 0 .. Capacity
         /\ CursorsAgree' /\ WindowFilled'
<1>1. PICK i \in 0 .. count - 1 :
        ready_queue' = [k \in Slots |->
                          LET o == OffsetOf(k) IN
                          IF o = count - 1 THEN NULL
                          ELSE IF o >= i /\ o < count THEN At(o + 1)
                          ELSE ready_queue[k]]
  BY DEF RemoveQueued
<1>2. head' = head /\ count' = count - 1 /\ tail' = retreat(tail) /\ count > 0
  BY DEF RemoveQueued, RingInv, TypeOK
<1>3. tail' = IF tail = 0 THEN Capacity - 1 ELSE tail - 1
  BY <1>2, RetreatWraps DEF RingInv, TypeOK
<1>4. tail' \in Slots /\ count' \in 0 .. Capacity /\ head' \in Slots
  BY <1>2, <1>3 DEF RingInv, TypeOK, Slots
<1>5. CursorsAgree'
  <2>1. (head' + count') % Capacity
          = IF head' + count' < Capacity THEN head' + count' ELSE head' + count' - Capacity
    BY <1>4, IndexWraps
  <2>2. tail = IF head + count < Capacity THEN head + count ELSE head + count - Capacity
    BY IndexWraps DEF RingInv, TypeOK, CursorsAgree
  <2> QED BY <1>2, <1>3, <2>1, <2>2 DEF RingInv, TypeOK, CursorsAgree, Slots
<1>6. ASSUME NEW k \in Slots
      PROVE  /\ ready_queue'[k] \in Process \cup {NULL}
             /\ (ready_queue'[k] # NULL) <=> (OffsetOf(k)' < count')
  <2> DEFINE o == OffsetOf(k)
             n == index_at(o + 1)
  <2>1. o = IF k >= head THEN k - head ELSE k + Capacity - head
    BY OffsetWraps DEF OffsetOf, RingInv, TypeOK
  <2>2. o \in 0 .. Capacity - 1
    BY <2>1 DEF RingInv, TypeOK, Slots
  <2>3. OffsetOf(k)' = o
    BY <1>2 DEF OffsetOf
  <2>4. (ready_queue[k] # NULL) <=> (o < count)
    BY DEF RingInv, WindowFilled
  <2>5. n = IF head + (o + 1) < Capacity THEN head + (o + 1) ELSE head + (o + 1) - Capacity
    <3> HIDE DEF o
    <3>1. o + 1 \in 0 .. Capacity /\ head \in Slots
      BY <2>2 DEF RingInv, TypeOK
    <3> QED BY <3>1, IndexWraps DEF index_at
  <2>6. n \in Slots
    <3> HIDE DEF o, n
    <3> QED BY <2>2, <2>5 DEF RingInv, TypeOK, Slots
  <2>7. OffsetOf(n) = IF n >= head THEN n - head ELSE n + Capacity - head
    <3> HIDE DEF n
    <3> QED BY <2>6, OffsetWraps DEF OffsetOf, RingInv, TypeOK
  <2>8. (o + 1 < count) => OffsetOf(n) = o + 1
    <3> HIDE DEF o, n
    <3> QED BY <2>2, <2>5, <2>6, <2>7 DEF RingInv, TypeOK, Slots
  <2>9. (o + 1 < count) => At(o + 1) \in Process
    BY <2>6, <2>8 DEF At, RingInv, TypeOK, WindowFilled
  <2>10. ready_queue'[k] = IF o = count - 1 THEN NULL
                           ELSE IF o >= i /\ o < count THEN At(o + 1)
                           ELSE ready_queue[k]
    BY <1>1
  <2>11. ready_queue[k] \in Process \cup {NULL} /\ count \in 0 .. Capacity
    BY DEF RingInv, TypeOK
  <2> HIDE DEF o
  <2> QED BY <1>2, <2>2, <2>3, <2>4, <2>9, <2>10, <2>11
<1>7. ready_queue' \in [Slots -> Process \cup {NULL}]
  BY <1>1, <1>6
<1>8. WindowFilled'
  BY <1>6 DEF WindowFilled, Slots
<1> QED BY <1>4, <1>5, <1>7, <1>8

\* A failed dispatch rotates the ring by one slot.
LEMMA RotateKeepsRing ==
  ASSUME RingInv, DispatchFails
  PROVE  /\ ready_queue' \in [Slots -> Process \cup {NULL}]
         /\ head' \in Slots /\ tail' \in Slots /\ count' \in 0 .. Capacity
         /\ CursorsAgree' /\ WindowFilled'
<1>1. At(0) = ready_queue[head] /\ At(0) \in Process /\ count > 0
  BY HeadHeld DEF DispatchFails
<1>2. head' = IF head + 1 < Capacity THEN head + 1 ELSE 0
  BY AdvanceWraps DEF RingInv, TypeOK, DispatchFails
<1>3. tail' = IF tail + 1 < Capacity THEN tail + 1 ELSE 0
  BY AdvanceWraps DEF RingInv, TypeOK, DispatchFails
<1>4. tail = IF head + count < Capacity THEN head + count ELSE head + count - Capacity
  BY IndexWraps DEF RingInv, TypeOK, CursorsAgree
<1>5. head' \in Slots /\ tail' \in Slots /\ count' = count /\ count' \in 0 .. Capacity
  BY <1>2, <1>3 DEF RingInv, TypeOK, Slots, DispatchFails
<1>6. ready_queue' \in [Slots -> Process \cup {NULL}]
  BY <1>1 DEF RingInv, TypeOK, DispatchFails
<1>7. CursorsAgree'
  <2>1. (head' + count') % Capacity
          = IF head' + count' < Capacity THEN head' + count' ELSE head' + count' - Capacity
    BY <1>5, IndexWraps
  <2> QED BY <1>1, <1>2, <1>3, <1>4, <1>5, <2>1 DEF RingInv, TypeOK, CursorsAgree, Slots
<1>8. WindowFilled'
  <2> SUFFICES ASSUME NEW k \in Slots
               PROVE  (ready_queue'[k] # NULL) <=> (OffsetOf(k)' < count')
    BY DEF WindowFilled, Slots
  <2>1. OffsetOf(k) = IF k >= head THEN k - head ELSE k + Capacity - head
    BY OffsetWraps DEF OffsetOf, RingInv, TypeOK
  <2>2. OffsetOf(k)' = IF k >= head' THEN k - head' ELSE k + Capacity - head'
    BY <1>5, OffsetWraps DEF OffsetOf
  <2>3. (ready_queue[k] # NULL) <=> (OffsetOf(k) < count)
    BY DEF RingInv, WindowFilled
  <2>4. ready_queue'[k] = IF k = tail THEN At(0)
                          ELSE IF k = head THEN NULL ELSE ready_queue[k]
    BY DEF RingInv, TypeOK, DispatchFails
  <2> QED BY <1>1, <1>2, <1>4, <1>5, <2>1, <2>2, <2>3, <2>4 DEF RingInv, TypeOK, Slots
<1> QED BY <1>5, <1>6, <1>7, <1>8

\* Every operation of the scheduler keeps the ring invariant.
LEMMA RingInductive == RingInv /\ [Next]_vars => RingInv'
<1> SUFFICES ASSUME RingInv, [Next]_vars PROVE RingInv'
  OBVIOUS
<1> USE DEF RingInv
<1>1. ASSUME NEW p \in Process, Add(p) PROVE RingInv'
  BY <1>1, AddKeepsRing DEF Add, TypeOK
<1>2. ASSUME NEW p \in Process, RemoveCurrent(p) PROVE RingInv'
  BY <1>2 DEF RemoveCurrent, TypeOK, CursorsAgree, WindowFilled, OffsetOf
<1>3. ASSUME NEW p \in Process, RemoveQueued(p) PROVE RingInv'
  <2>1. current' = current /\ state' = state
    BY <1>3 DEF RemoveQueued
  <2> QED BY <1>3, <2>1, RemoveKeepsRing DEF TypeOK
<1>4. CASE TakeNext
  BY <1>4, TakeKeepsRing DEF TakeNext, TypeOK
<1>5. CASE DispatchOK
  <2>1. At(0) \in Process
    BY <1>5, HeadHeld DEF DispatchOK
  <2>2. current' \in Process \cup {NULL} /\ state' \in [Process -> States]
    BY <1>5, <2>1 DEF DispatchOK, TypeOK, States
  <2> QED BY <1>5, <2>2, TakeKeepsRing DEF DispatchOK, TypeOK
<1>6. CASE DispatchFails
  <2>1. current' = current /\ state' = state
    BY <1>6 DEF DispatchFails
  <2> QED BY <1>6, <2>1, RotateKeepsRing DEF TypeOK
<1>7. CASE Yield
  <2>1. current \in Process
    BY <1>7 DEF Yield, TypeOK
  <2>2. current' \in Process \cup {NULL} /\ state' \in [Process -> States]
    BY <1>7, <2>1 DEF Yield, TypeOK, States
  <2> QED BY <1>7, <2>1, <2>2, AddKeepsRing DEF Yield, TypeOK
<1>8. ASSUME NEW p \in Process, NEW s \in States, Transition(p, s) PROVE RingInv'
  BY <1>8 DEF Transition, TypeOK, CursorsAgree, WindowFilled, OffsetOf
<1>9. CASE UNCHANGED vars
  BY <1>9 DEF vars, TypeOK, CursorsAgree, WindowFilled, OffsetOf
<1> QED BY <1>1, <1>2, <1>3, <1>4, <1>5, <1>6, <1>7, <1>8, <1>9 DEF Next

\* An empty ring has its cursors together and no slot filled.
LEMMA RingInitially == Init => RingInv
<1> SUFFICES ASSUME Init PROVE RingInv
  OBVIOUS
<1>1. TypeOK
  BY DEF Init, TypeOK, Slots, States
<1>2. CursorsAgree
  <2>1. 0 % Capacity = 0 /\ 0 + 0 = 0
    BY ModWrap
  <2> QED BY <2>1 DEF Init, CursorsAgree
<1>3. WindowFilled
  <2> SUFFICES ASSUME NEW k \in Slots
               PROVE  ready_queue[k] = NULL /\ ~(OffsetOf(k) < count)
    BY DEF WindowFilled
  <2>1. OffsetOf(k) = IF k >= head THEN k - head ELSE k + Capacity - head
    BY <1>1, OffsetWraps DEF OffsetOf, TypeOK
  <2> QED BY <2>1 DEF Init, Slots
<1> QED BY <1>1, <1>2, <1>3 DEF RingInv

\* scheduler.c keeps its cursors in agreement and its window filled, for every
\* capacity, every set of processes and every sequence of calls.
THEOREM RingCorrect == Spec => []RingInv
<1> QED BY RingInitially, RingInductive, PTL DEF Spec

-----------------------------------------------------------------------------
(* The ring implements the FIFO.                                           *)

\* Offsets inside the window and the one after it name distinct slots.
LEMMA WindowSlots ==
  RingInv => \A o \in 0 .. count :
    /\ index_at(o) = IF head + o < Capacity THEN head + o ELSE head + o - Capacity
    /\ index_at(o) \in Slots
    /\ o < count => OffsetOf(index_at(o)) = o /\ At(o) \in Process
<1> SUFFICES ASSUME RingInv, NEW o \in 0 .. count
             PROVE  /\ index_at(o) = IF head + o < Capacity THEN head + o ELSE head + o - Capacity
                    /\ index_at(o) \in Slots
                    /\ o < count => OffsetOf(index_at(o)) = o /\ At(o) \in Process
  OBVIOUS
<1> DEFINE n == index_at(o)
<1>1. head \in Slots /\ o \in 0 .. Capacity /\ count \in 0 .. Capacity
  BY DEF RingInv, TypeOK
<1>2. n = IF head + o < Capacity THEN head + o ELSE head + o - Capacity
  BY <1>1, IndexWraps DEF index_at
<1> HIDE DEF n
<1>3. n \in Slots
  BY <1>1, <1>2 DEF Slots
<1>4. OffsetOf(n) = IF n >= head THEN n - head ELSE n + Capacity - head
  BY <1>1, <1>3, OffsetWraps DEF OffsetOf
<1>5. o < count => OffsetOf(n) = o
  BY <1>1, <1>2, <1>3, <1>4 DEF Slots
<1>6. o < count => ready_queue[n] \in Process
  BY <1>3, <1>5 DEF RingInv, WindowFilled, TypeOK
<1> QED BY <1>2, <1>3, <1>5, <1>6 DEF n, At

\* The window is a sequence of count processes.
WindowOK ==
    /\ Window \in Seq(Process) /\ Len(Window) = count
    /\ \A i \in 1 .. count : Window[i] = At(i - 1)

\* The ring invariant makes it one.
LEMMA WindowSeq == RingInv => WindowOK
<1> SUFFICES ASSUME RingInv PROVE WindowOK
  OBVIOUS
<1>1. count \in Nat
  BY DEF RingInv, TypeOK
<1>2. \A i \in 1 .. count : At(i - 1) \in Process
  <2> SUFFICES ASSUME NEW i \in 1 .. count PROVE At(i - 1) \in Process
    OBVIOUS
  <2>1. i - 1 \in 0 .. count /\ i - 1 < count
    BY <1>1
  <2> QED BY <2>1, WindowSlots
<1>3. Window \in [1 .. count -> Process]
  BY <1>2 DEF Window
<1>4. Window \in Seq(Process)
  BY <1>1, <1>3, SeqDef
<1>5. Len(Window) = count
  BY <1>1, <1>3, <1>4
<1> QED BY <1>4, <1>5 DEF Window, WindowOK

\* The same after a step.
LEMMA WindowNext == RingInv' => WindowOK'
BY WindowSeq, PTL

\* An element added at the tail is appended to the window.
LEMMA AddAppends ==
  ASSUME RingInv, RingInv', count < Capacity, NEW p \in Process,
         ready_queue' = [ready_queue EXCEPT ![tail] = p],
         head' = head, count' = count + 1
  PROVE  Window' = Append(Window, p)
<1>1. /\ Window \in Seq(Process) /\ Len(Window) = count
      /\ \A i \in 1 .. count : Window[i] = At(i - 1)
      /\ Window' \in Seq(Process) /\ Len(Window') = count + 1
      /\ \A i \in 1 .. count + 1 : Window'[i] = At(i - 1)'
  BY WindowSeq, WindowNext DEF WindowOK
<1>2. count \in Nat /\ count <= Capacity /\ tail \in Slots
  BY DEF RingInv, TypeOK
<1>3. \A o \in 0 .. count : index_at(o)' = index_at(o)
  BY DEF index_at
<1>4. index_at(count) = tail
  BY DEF index_at, RingInv, CursorsAgree
<1>5. ASSUME NEW c, c = count PROVE At(c)' = p
  <2>1. index_at(c)' = tail
    BY <1>2, <1>4, <1>5 DEF index_at
  <2> QED BY <1>2, <2>1 DEF At, RingInv, TypeOK
<1>6. ASSUME NEW o \in 0 .. count - 1 PROVE At(o)' = At(o)
  <2>1. o \in 0 .. count /\ count \in 0 .. count /\ o < count
    BY <1>2
  <2>2. index_at(o) # tail
    BY <1>2, <1>4, <2>1, WindowSlots DEF RingInv, TypeOK, Slots
  <2>3. index_at(o) \in Slots
    BY <2>1, WindowSlots
  <2>4. index_at(o)' = index_at(o)
    BY <1>3, <2>1
  <2> QED BY <2>2, <2>3, <2>4 DEF At, RingInv, TypeOK
<1>7. \A i \in 1 .. count + 1 : Window'[i] = Append(Window, p)[i]
  <2> SUFFICES ASSUME NEW i \in 1 .. count + 1
               PROVE  Window'[i] = Append(Window, p)[i]
    OBVIOUS
  <2>1. CASE i = count + 1
    <3>1. i - 1 = count /\ At(i - 1)' = p
      BY <1>2, <1>5, <2>1
    <3> QED BY <1>1, <1>2, <2>1, <3>1
  <2>2. CASE i \in 1 .. count
    <3>1. i - 1 \in 0 .. count - 1
      BY <1>2, <2>2
    <3>2. At(i - 1)' = At(i - 1)
      BY <1>6, <3>1
    <3>3. Window'[i] = At(i - 1)' /\ Window[i] = At(i - 1)
      BY <1>1, <2>2
    <3>4. Append(Window, p)[i] = Window[i]
      BY <1>1, <2>2
    <3> QED BY <3>2, <3>3, <3>4
  <2>3. i = count + 1 \/ i \in 1 .. count
    BY <1>2
  <2> QED BY <2>1, <2>2, <2>3
<1>8. Append(Window, p) \in Seq(Process) /\ Len(Append(Window, p)) = count + 1
  BY <1>1
<1> QED BY <1>1, <1>7, <1>8, SeqEqual

\* Taking the head leaves the tail of the window.
LEMMA TakeTails ==
  ASSUME RingInv, RingInv', count > 0,
         ready_queue' = [ready_queue EXCEPT ![head] = NULL],
         head' = advance(head), count' = count - 1
  PROVE  Window' = Tail(Window) /\ Window # <<>> /\ Head(Window) = At(0)
<1>1. /\ Window \in Seq(Process) /\ Len(Window) = count
      /\ \A i \in 1 .. count : Window[i] = At(i - 1)
      /\ Window' \in Seq(Process) /\ Len(Window') = count - 1
      /\ \A i \in 1 .. count - 1 : Window'[i] = At(i - 1)'
  BY WindowSeq, WindowNext DEF WindowOK
<1>2. count \in Nat /\ count <= Capacity /\ head \in Slots
  BY DEF RingInv, TypeOK
<1>3. ASSUME NEW o \in 0 .. count - 2 PROVE At(o)' = At(o + 1)
  <2>1. o \in 0 .. Capacity /\ o + 1 \in 0 .. count /\ o + 1 < count /\ head' \in Slots
    BY <1>2 DEF RingInv, TypeOK
  <2>2. index_at(o)' = IF head' + o < Capacity THEN head' + o ELSE head' + o - Capacity
    BY <2>1, IndexWraps DEF index_at
  <2>3. head' = IF head + 1 < Capacity THEN head + 1 ELSE 0
    BY <1>2, AdvanceWraps
  <2>4. /\ index_at(o + 1) = IF head + (o + 1) < Capacity THEN head + (o + 1)
                             ELSE head + (o + 1) - Capacity
        /\ index_at(o + 1) \in Slots
    BY <2>1, WindowSlots
  <2>5. index_at(o)' = index_at(o + 1) /\ index_at(o + 1) # head
    BY <1>2, <2>1, <2>2, <2>3, <2>4 DEF Slots
  <2> QED BY <2>4, <2>5 DEF At, RingInv, TypeOK
<1>4. Window # <<>> /\ Head(Window) = At(0)
  BY <1>1, <1>2
<1>5. Tail(Window) \in Seq(Process) /\ Len(Tail(Window)) = count - 1
  BY <1>1, <1>4, HeadTailProperties
<1>6. \A i \in 1 .. count - 1 : Window'[i] = Tail(Window)[i]
  <2> SUFFICES ASSUME NEW i \in 1 .. count - 1
               PROVE  Window'[i] = Tail(Window)[i]
    OBVIOUS
  <2>1. i - 1 \in 0 .. count - 2 /\ (i - 1) + 1 = i /\ i + 1 \in 1 .. count /\ (i + 1) - 1 = i
    BY <1>2
  <2>2. Window'[i] = At(i)
    BY <1>1, <1>3, <2>1
  <2>3. Tail(Window)[i] = Window[i + 1]
    BY <1>1, <1>2, <1>4, HeadTailProperties
  <2> QED BY <1>1, <2>1, <2>2, <2>3
<1> QED BY <1>1, <1>4, <1>5, <1>6, SeqEqual

\* Removing the first occurrence removes it from the window.
LEMMA RemoveShifts ==
  ASSUME RingInv, RingInv', NEW p \in Process, RemoveQueued(p)
  PROVE  RQ!RemoveQueued(p)
<1>1. PICK i \in 0 .. count - 1 :
        /\ IsFirst(i, p)
        /\ ready_queue' = [k \in Slots |->
                             LET o == OffsetOf(k) IN
                             IF o = count - 1 THEN NULL
                             ELSE IF o >= i /\ o < count THEN At(o + 1)
                             ELSE ready_queue[k]]
  BY DEF RemoveQueued
<1>2. /\ current # p /\ head' = head /\ count' = count - 1
      /\ count \in Nat /\ count <= Capacity /\ UNCHANGED <<current, state>>
  BY DEF RemoveQueued, RingInv, TypeOK
<1>3. /\ Window \in Seq(Process) /\ Len(Window) = count
      /\ \A j \in 1 .. count : Window[j] = At(j - 1)
      /\ Window' \in Seq(Process) /\ Len(Window') = count - 1
      /\ \A j \in 1 .. count - 1 : Window'[j] = At(j - 1)'
  BY <1>2, WindowSeq, WindowNext DEF WindowOK
<1>4. /\ i + 1 \in 1 .. count /\ Window[i + 1] = p
      /\ \A j \in 1 .. i : Window[j] # p
  <2>1. At(i) = p /\ \A o \in 0 .. i - 1 : At(o) # p
    BY <1>1 DEF IsFirst
  <2>2. i + 1 \in 1 .. count /\ (i + 1) - 1 = i
    BY <1>2
  <2>3. ASSUME NEW j \in 1 .. i PROVE Window[j] # p
    <3>1. j \in 1 .. count /\ j - 1 \in 0 .. i - 1
      BY <1>2
    <3> QED BY <1>3, <2>1, <3>1
  <2> QED BY <1>3, <2>1, <2>2, <2>3
<1>5. RQ!Occurs(Window, p)
  BY <1>3, <1>4 DEF RQ!Occurs
<1>6. RQ!First(Window, p) = i + 1
  <2> DEFINE P(k) == Window[k] = p /\ \A j \in 1 .. k - 1 : Window[j] # p
  <2>1. P(i + 1)
    BY <1>2, <1>4
  <2>2. ASSUME NEW k \in 1 .. Len(Window), P(k) PROVE k = i + 1
    BY <1>2, <1>3, <1>4, <2>2
  <2>3. i + 1 \in 1 .. Len(Window)
    BY <1>3, <1>4
  <2> QED BY <2>1, <2>2, <2>3 DEF RQ!First
<1>7. ASSUME NEW o \in 0 .. count - 2
      PROVE  At(o)' = IF o < i THEN At(o) ELSE At(o + 1)
  <2>1. o \in 0 .. count /\ o < count /\ o # count - 1
    BY <1>2
  <2>2. index_at(o) \in Slots /\ OffsetOf(index_at(o)) = o
    BY <2>1, WindowSlots
  <2>3. index_at(o)' = index_at(o)
    BY <1>2 DEF index_at
  <2>4. At(o)' = ready_queue'[index_at(o)]
    BY <2>3 DEF At
  <2>5. ready_queue'[index_at(o)] = IF o >= i /\ o < count THEN At(o + 1)
                                    ELSE ready_queue[index_at(o)]
    BY <1>1, <2>1, <2>2
  <2> QED BY <2>1, <2>4, <2>5 DEF At
<1>8. ASSUME NEW j \in 1 .. count - 1
      PROVE  Window'[j] = IF j < i + 1 THEN Window[j] ELSE Window[j + 1]
  <2>1. /\ j - 1 \in 0 .. count - 2 /\ (j - 1) + 1 = (j + 1) - 1
        /\ j \in 1 .. count /\ j + 1 \in 1 .. count
        /\ (j - 1 < i) <=> (j < i + 1)
    BY <1>2
  <2>2. At(j - 1)' = IF j - 1 < i THEN At(j - 1) ELSE At((j - 1) + 1)
    BY <1>7, <2>1
  <2>3. Window'[j] = At(j - 1)' /\ Window[j] = At(j - 1) /\ Window[j + 1] = At((j + 1) - 1)
    BY <1>3, <2>1
  <2> QED BY <2>1, <2>2, <2>3
<1>9. Window' = RQ!Without(Window, i + 1)
  <2> DEFINE w == [j \in 1 .. Len(Window) - 1 |-> IF j < i + 1 THEN Window[j] ELSE Window[j + 1]]
  <2>1. count - 1 \in Nat /\ Len(Window) - 1 = count - 1
    BY <1>2, <1>3, <1>4
  <2>2. \A j \in 1 .. count - 1 : w[j] = Window'[j]
    BY <1>8, <2>1
  <2>3. w \in [1 .. count - 1 -> Process]
    BY <1>2, <1>3, <2>1
  <2>4. Window' \in [1 .. count - 1 -> Process]
    BY <1>3, LenProperties
  <2>5. w = Window'
    BY <2>2, <2>3, <2>4
  <2> QED BY <2>5 DEF RQ!Without
<1> QED BY <1>2, <1>5, <1>6, <1>9 DEF RQ!RemoveQueued

\* A failed dispatch moves the head of the window to its end.
LEMMA RotateShifts ==
  ASSUME RingInv, RingInv', DispatchFails
  PROVE  RQ!DispatchFails
<1>1. /\ current = NULL /\ count > 0 /\ count' = count /\ UNCHANGED <<current, state>>
      /\ head' = advance(head) /\ ~CanTransition(state[At(0)], "RUNNING")
      /\ ready_queue' = [[ready_queue EXCEPT ![head] = NULL] EXCEPT ![tail] = At(0)]
  BY DEF DispatchFails
<1>2. count \in Nat /\ count <= Capacity /\ head \in Slots /\ tail \in Slots /\ head' \in Slots
  BY DEF RingInv, TypeOK
<1>3. /\ Window \in Seq(Process) /\ Len(Window) = count
      /\ \A j \in 1 .. count : Window[j] = At(j - 1)
      /\ Window' \in Seq(Process) /\ Len(Window') = count
      /\ \A j \in 1 .. count : Window'[j] = At(j - 1)'
  BY <1>1, WindowSeq, WindowNext DEF WindowOK
<1>4. Window # <<>> /\ Head(Window) = At(0) /\ At(0) \in Process
  BY <1>1, <1>2, <1>3, HeadHeld
<1>5. head' = IF head + 1 < Capacity THEN head + 1 ELSE 0
  BY <1>1, <1>2, AdvanceWraps
<1>6. tail = IF head + count < Capacity THEN head + count ELSE head + count - Capacity
  BY <1>2, IndexWraps DEF RingInv, TypeOK, CursorsAgree
<1>7. ASSUME NEW o \in 0 .. count - 1
      PROVE  At(o)' = IF o = count - 1 THEN At(0) ELSE At(o + 1)
  <2>1. o \in 0 .. Capacity /\ o + 1 \in 0 .. count
    BY <1>2
  <2>2. index_at(o)' = IF head' + o < Capacity THEN head' + o ELSE head' + o - Capacity
    BY <1>2, <2>1, IndexWraps DEF index_at
  <2>3. /\ index_at(o + 1) = IF head + (o + 1) < Capacity THEN head + (o + 1)
                             ELSE head + (o + 1) - Capacity
        /\ index_at(o + 1) \in Slots
    BY <2>1, WindowSlots
  <2>4. index_at(o)' = index_at(o + 1)
    BY <1>2, <1>5, <2>1, <2>2, <2>3 DEF Slots
  <2>5. CASE o = count - 1
    <3>1. index_at(o + 1) = tail
      BY <1>2, <1>6, <2>3, <2>5
    <3> QED BY <1>1, <1>2, <2>4, <2>5, <3>1 DEF At, RingInv, TypeOK
  <2>6. CASE o # count - 1
    <3>1. index_at(o + 1) # tail /\ index_at(o + 1) # head
      BY <1>2, <1>6, <2>1, <2>3, <2>6 DEF Slots
    <3> QED BY <1>1, <1>2, <2>3, <2>4, <2>6, <3>1 DEF At, RingInv, TypeOK
  <2> QED BY <2>5, <2>6
<1> DEFINE t == Append(Tail(Window), Head(Window))
<1>8. /\ t \in Seq(Process) /\ Len(t) = count
      /\ \A j \in 1 .. count - 1 : t[j] = Window[j + 1]
      /\ t[count] = At(0)
  BY <1>1, <1>2, <1>3, <1>4
<1> HIDE DEF t
<1>9. \A j \in 1 .. count : Window'[j] = t[j]
  <2> SUFFICES ASSUME NEW j \in 1 .. count PROVE Window'[j] = t[j]
    OBVIOUS
  <2>1. j - 1 \in 0 .. count - 1 /\ (j - 1) + 1 = j
    BY <1>2
  <2>2. Window'[j] = IF j - 1 = count - 1 THEN At(0) ELSE At(j)
    BY <1>3, <1>7, <2>1
  <2>3. CASE j = count
    BY <1>8, <2>2, <2>3
  <2>4. CASE j # count
    <3>1. j + 1 \in 1 .. count /\ (j + 1) - 1 = j /\ j \in 1 .. count - 1 /\ j - 1 # count - 1
      BY <1>2, <2>4
    <3> QED BY <1>3, <1>8, <2>2, <3>1
  <2> QED BY <2>3, <2>4
<1>10. Window' = t
  BY <1>3, <1>8, <1>9, SeqEqual
<1>11. ~RQ!CanTransition(state[Head(Window)], "RUNNING")
  BY <1>1, <1>4 DEF CanTransition, Transitions, RQ!CanTransition, RQ!Transitions
<1> QED BY <1>1, <1>4, <1>10, <1>11 DEF t, RQ!DispatchFails

\* The transitions and states of the two modules are the same.
LEMMA SameTransitions ==
  /\ \A a, b : RQ!CanTransition(a, b) <=> CanTransition(a, b)
  /\ RQ!States = States
BY DEF CanTransition, Transitions, RQ!CanTransition, RQ!Transitions, States, RQ!States

\* Every step of the ring is a step of the FIFO or leaves it unchanged.
LEMMA StepRefines ==
  ASSUME RingInv, RingInv', [Next]_vars
  PROVE  [RQ!Next]_(RQ!vars)
<1>0. Len(Window) = count /\ (count = 0 => Window = <<>>)
  BY WindowSeq DEF WindowOK
<1>1. ASSUME NEW p \in Process, Add(p) PROVE RQ!Next
  <2>1. Window' = Append(Window, p)
    BY <1>1, AddAppends DEF Add
  <2>2. RQ!Add(p)
    BY <1>0, <1>1, <2>1 DEF Add, RQ!Add
  <2> QED BY <2>2 DEF RQ!Next
<1>2. ASSUME NEW p \in Process, RemoveCurrent(p) PROVE RQ!Next
  <2>1. Window' = Window
    BY <1>2 DEF RemoveCurrent, Window, At, index_at
  <2>2. RQ!RemoveCurrent(p)
    BY <1>2, <2>1 DEF RemoveCurrent, RQ!RemoveCurrent
  <2> QED BY <2>2 DEF RQ!Next
<1>3. ASSUME NEW p \in Process, RemoveQueued(p) PROVE RQ!Next
  BY <1>3, RemoveShifts DEF RQ!Next
<1>4. CASE TakeNext
  <2>1. Window' = Tail(Window) /\ Window # <<>>
    BY <1>4, TakeTails DEF TakeNext
  <2>2. RQ!TakeNext
    BY <1>4, <2>1 DEF TakeNext, RQ!TakeNext
  <2> QED BY <2>2 DEF RQ!Next
<1>5. CASE DispatchOK
  <2>1. Window' = Tail(Window) /\ Window # <<>> /\ Head(Window) = At(0)
    BY <1>5, TakeTails DEF DispatchOK
  <2>2. RQ!DispatchOK
    BY <1>5, <2>1, SameTransitions DEF DispatchOK, RQ!DispatchOK
  <2> QED BY <2>2 DEF RQ!Next
<1>6. CASE DispatchFails
  BY <1>6, RotateShifts DEF RQ!Next
<1>7. CASE Yield
  <2>1. current \in Process
    BY <1>7 DEF Yield, RingInv, TypeOK
  <2>2. PICK p \in Process : p = current
    BY <2>1
  <2>3. Window' = Append(Window, p)
    BY <1>7, <2>2, AddAppends DEF Yield
  <2>4. RQ!Yield
    BY <1>0, <1>7, <2>2, <2>3, SameTransitions DEF Yield, RQ!Yield
  <2> QED BY <2>4 DEF RQ!Next
<1>8. ASSUME NEW p \in Process, NEW s \in States, Transition(p, s) PROVE RQ!Next
  <2>1. Window' = Window
    BY <1>8 DEF Transition, Window, At, index_at
  <2>2. RQ!Transition(p, s)
    BY <1>8, <2>1, SameTransitions DEF Transition, RQ!Transition
  <2> QED BY <2>2, SameTransitions DEF RQ!Next
<1>9. CASE UNCHANGED vars
  <2>1. Window' = Window
    BY <1>9 DEF vars, Window, At, index_at
  <2> QED BY <1>9, <2>1 DEF vars, RQ!vars
<1> QED BY <1>1, <1>2, <1>3, <1>4, <1>5, <1>6, <1>7, <1>8, <1>9 DEF Next

\* An empty ring is an empty FIFO.
LEMMA InitRefines == Init => RQ!Init
<1> SUFFICES ASSUME Init PROVE RQ!Init
  OBVIOUS
<1>1. Window \in Seq(Process) /\ Len(Window) = 0
  BY RingInitially, WindowSeq DEF WindowOK, Init
<1>2. Window = <<>>
  BY <1>1
<1> QED BY <1>2 DEF Init, RQ!Init

\* The ring buffer of scheduler.c implements the bounded FIFO, for every
\* capacity and every set of processes.
THEOREM RefinesReadyQueue == Spec => ImplementsReadyQueue
<1>1. RingInv /\ RingInv' /\ [Next]_vars => [RQ!Next]_(RQ!vars)
  BY StepRefines
<1> QED BY <1>1, InitRefines, RingCorrect, PTL DEF Spec, ImplementsReadyQueue, RQ!Spec
=============================================================================
