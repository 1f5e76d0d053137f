------------------------- MODULE ProcessTableProofs -------------------------
(***************************************************************************)
(* The array of process_manager.c keeps its records, its cursor and its    *)
(* iterators straight for every capacity and every number of ids, and      *)
(* implements the set of records of RecordSet.                             *)
(***************************************************************************)
EXTENDS ProcessTable, SequenceTheorems, FiniteSetTheorems, TLAPS

USE TableAssumption

-----------------------------------------------------------------------------
(* The inductive invariant.                                                *)

\* What the open child iterator has returned lies before its index; what it
\* still owes lies at or after it and has kept its parent.
IteratorInv ==
    /\ iter = None => given = {} /\ owed = {}
    /\ iter # None =>
         /\ given \subseteq Records /\ owed \subseteq Records
         /\ \A i \in 1 .. Len(slots) : slots[i] \in given => i <= iter.index
         /\ \A i \in 1 .. Len(slots) :
              slots[i] \in owed => i > iter.index /\ parent[slots[i]] = iter.parent

\* A walk has returned the records up to the cursor.
WalkInv ==
    walked # None =>
        /\ cursor < Len(slots)
        /\ walked = {slots[i] : i \in 1 .. cursor + 1}

\* reparent_children has left no child behind its index.
ReparentInv ==
    loop # None /\ loop.new # loop.parent =>
        \A i \in 1 .. Len(slots) : i <= loop.index => parent[slots[i]] # loop.parent

TableInv == SlotsExact /\ IteratorInv /\ WalkInv /\ ReparentInv

-----------------------------------------------------------------------------
(* What the operations do to the array.                                    *)

\* process_manager_create_process adds one record, which was not there.
LEMMA AppendArray ==
  ASSUME SlotsExact, next_pid <= MaxPid, slots' = Append(slots, next_pid)
  PROVE  /\ slots' \in Seq(Pid) /\ Len(slots') = Len(slots) + 1
         /\ \A i \in 1 .. Len(slots) : slots'[i] = slots[i] /\ slots[i] # next_pid
         /\ slots'[Len(slots) + 1] = next_pid
         /\ next_pid \in Pid /\ next_pid \notin Records
         /\ Records' = Records \cup {next_pid}
<1>1. slots \in Seq(Pid) /\ next_pid \in Pid
  BY DEF SlotsExact, TypeOK, Pid
<1>2. \A p \in Records : p < next_pid
  BY DEF SlotsExact
<1>3. next_pid \notin Records
  BY <1>1, <1>2 DEF Pid
<1>4. /\ slots' \in Seq(Pid) /\ Len(slots') = Len(slots) + 1
      /\ \A i \in 1 .. Len(slots) : slots'[i] = slots[i]
      /\ slots'[Len(slots) + 1] = next_pid
  BY <1>1, AppendProperties
<1>5. Records' = Records \cup {next_pid}
  BY <1>1, <1>4 DEF Records
<1> QED BY <1>1, <1>3, <1>4, <1>5 DEF Records

\* process_manager_destroy_process takes one record out; the last one fills
\* its slot.
LEMMA TakeOutArray ==
  ASSUME SlotsExact, NEW p \in Records, TakeOut(p)
  PROVE  \E i \in 1 .. Len(slots) :
           /\ slots[i] = p
           /\ slots' \in Seq(Pid) /\ Len(slots') = Len(slots) - 1
           /\ \A j \in 1 .. Len(slots) - 1 :
                slots'[j] = IF j = i THEN slots[Len(slots)] ELSE slots[j]
           /\ Records' = Records \ {p}
<1> DEFINE n == Len(slots)
           i == CHOOSE k \in 1 .. n : slots[k] = p
<1>1. slots \in Seq(Pid) /\ n \in Nat /\ \A k \in 1 .. n : slots[k] \in Pid
  BY DEF SlotsExact, TypeOK
<1>2. i \in 1 .. n /\ slots[i] = p
  <2>1. \E k \in 1 .. n : slots[k] = p
    BY DEF Records
  <2> QED BY <2>1
<1>3. slots' = [j \in 1 .. n - 1 |-> IF j = i THEN slots[n] ELSE slots[j]]
  BY DEF TakeOut
<1> HIDE DEF i
<1>4. n - 1 \in Nat /\ \A j \in 1 .. n - 1 : slots'[j] \in Pid
  BY <1>1, <1>2, <1>3
<1>5. slots' \in Seq(Pid) /\ Len(slots') = n - 1
  <2>1. slots' \in [1 .. n - 1 -> Pid]
    BY <1>3, <1>4
  <2> HIDE DEF n
  <2> QED BY <1>4, <2>1
<1>6. Records' = Records \ {p}
  <2>1. ASSUME NEW j \in 1 .. n - 1
        PROVE  slots'[j] \in Records \ {p}
    BY <1>1, <1>2, <1>3 DEF Records, SlotsExact
  <2>2. ASSUME NEW q \in Records, q # p
        PROVE  \E j \in 1 .. n - 1 : slots'[j] = q
    <3>1. PICK k \in 1 .. n : slots[k] = q
      BY DEF Records
    <3>2. CASE k = n
      BY <1>1, <1>2, <1>3, <3>1, <3>2, <2>2
    <3>3. CASE k # n
      BY <1>1, <1>2, <1>3, <3>1, <3>3, <2>2
    <3> QED BY <3>2, <3>3
  <2>3. Records' = {slots'[j] : j \in 1 .. n - 1}
    BY <1>5 DEF Records
  <2> QED BY <2>1, <2>2, <2>3
<1> QED BY <1>2, <1>3, <1>5, <1>6

-----------------------------------------------------------------------------
(* The invariant is inductive.                                             *)

\* The empty table satisfies it.
LEMMA InitInv == Init => TableInv
<1> SUFFICES ASSUME Init PROVE TableInv
  OBVIOUS
<1>1. Len(slots) = 0 /\ slots \in Seq(Pid) /\ Records = {}
  BY DEF Init, Records
<1>2. SlotsExact
  BY <1>1 DEF Init, SlotsExact, TypeOK, Pid
<1> QED BY <1>1, <1>2 DEF Init, TableInv, IteratorInv, WalkInv, ReparentInv

\* process_manager_create_process.
LEMMA CreateKeeps ==
  ASSUME TableInv, NEW q \in Parent, CreateProcess(q)
  PROVE  TableInv'
<1> USE DEF CreateProcess, history
<1>1. SlotsExact /\ TypeOK /\ next_pid <= MaxPid /\ slots' = Append(slots, next_pid)
  BY DEF TableInv, SlotsExact
<1>2. /\ slots' \in Seq(Pid) /\ Len(slots') = Len(slots) + 1
      /\ \A i \in 1 .. Len(slots) : slots'[i] = slots[i] /\ slots[i] # next_pid
      /\ slots'[Len(slots) + 1] = next_pid
      /\ next_pid \in Pid /\ next_pid \notin Records
      /\ Records' = Records \cup {next_pid}
  BY <1>1, AppendArray
<1>3. Len(slots) \in Nat /\ slots \in Seq(Pid)
  BY <1>1 DEF TypeOK
<1>4. \A p \in Pid : parent'[p] = IF p = next_pid THEN q ELSE parent[p]
  BY <1>1 DEF TypeOK
<1>5. q # None /\ q \in Parent
  BY DEF Parent, Pid, Root
<1>6. TypeOK'
  BY <1>1, <1>2, <1>3, <1>5 DEF TypeOK
<1>7. SlotsExact'
  <2>1. \A i, j \in 1 .. Len(slots') : slots'[i] = slots'[j] => i = j
    BY <1>1, <1>2, <1>3 DEF SlotsExact
  <2>2. \A p \in Pid : p \in Records' <=> parent'[p] # None
    BY <1>1, <1>2, <1>4, <1>5 DEF SlotsExact
  <2>3. \A p \in Records' : p < next_pid'
    <3>1. \A p \in Records : p \in Nat /\ p < next_pid
      BY <1>1, <1>3 DEF SlotsExact, Records, Pid
    <3>2. next_pid \in Nat /\ next_pid' = next_pid + 1
      BY <1>2 DEF Pid
    <3> QED BY <1>2, <3>1, <3>2
  <2>4. cursor' = 0 \/ cursor' < Len(slots')
    BY <1>1, <1>2, <1>3 DEF SlotsExact, TypeOK
  <2> QED BY <1>6, <2>1, <2>2, <2>3, <2>4 DEF SlotsExact
<1>8. IteratorInv'
  <2>1. ASSUME iter # None, NEW i \in 1 .. Len(slots')
        PROVE  /\ slots'[i] \in given => i <= iter.index
               /\ slots'[i] \in owed => i > iter.index /\ parent'[slots'[i]] = iter.parent
    <3>0. given \subseteq Records /\ owed \subseteq Records
      BY <2>1 DEF TableInv, IteratorInv
    <3>1. CASE i = Len(slots) + 1
      BY <1>2, <3>0, <3>1
    <3>2. CASE i \in 1 .. Len(slots)
      <4>1. slots'[i] = slots[i] /\ slots[i] # next_pid /\ slots[i] \in Pid
        BY <1>2, <1>3, <3>2
      <4> QED BY <2>1, <3>2, <4>1, <1>4 DEF TableInv, IteratorInv
    <3> QED BY <1>2, <1>3, <3>1, <3>2
  <2>2. ASSUME iter # None
        PROVE  given \subseteq Records' /\ owed \subseteq Records'
    BY <2>2, <1>2 DEF TableInv, IteratorInv
  <2> QED BY <2>1, <2>2 DEF TableInv, IteratorInv
<1>9. WalkInv'
  <2> SUFFICES ASSUME walked # None
               PROVE  cursor < Len(slots') /\ walked = {slots'[i] : i \in 1 .. cursor + 1}
    BY DEF WalkInv
  <2>1. cursor < Len(slots) /\ walked = {slots[i] : i \in 1 .. cursor + 1}
    BY DEF TableInv, WalkInv
  <2>2. \A i \in 1 .. cursor + 1 : i \in 1 .. Len(slots) /\ slots'[i] = slots[i]
    BY <1>1, <1>2, <1>3, <2>1 DEF TypeOK
  <2> QED BY <1>1, <1>2, <1>3, <2>1, <2>2 DEF TypeOK
<1> QED BY <1>7, <1>8, <1>9 DEF TableInv, ReparentInv, Free

\* process_manager_destroy_process, for its caller and for reap_child.
LEMMA TakeOutKeeps ==
  ASSUME TableInv, Free, NEW p \in Records, TakeOut(p), UNCHANGED <<next_pid, iter, loop>>
  PROVE  TableInv'
<1>1. SlotsExact /\ TypeOK
  BY DEF TableInv, SlotsExact
<1> DEFINE n == Len(slots)
<1>2. PICK i \in 1 .. n :
           /\ slots[i] = p
           /\ slots' \in Seq(Pid) /\ Len(slots') = n - 1
           /\ \A j \in 1 .. n - 1 : slots'[j] = IF j = i THEN slots[n] ELSE slots[j]
           /\ Records' = Records \ {p}
  BY <1>1, TakeOutArray
<1>3. /\ parent' = [parent EXCEPT ![p] = None]
      /\ done' = done \ {p}
      /\ cursor' = 0 /\ walked' = None
      /\ owed' = owed \ {p, slots[n]}
      /\ given' = given \ {p}
  BY DEF TakeOut
<1>4. n \in Nat /\ slots \in Seq(Pid) /\ \A j \in 1 .. n : slots[j] \in Pid /\ slots[j] \in Records
  BY <1>1 DEF TypeOK, Records
<1>5. \A r \in Pid : parent'[r] = IF r = p THEN None ELSE parent[r]
  BY <1>1, <1>3 DEF TypeOK
<1> HIDE DEF n
<1>6. TypeOK'
  <2>1. done' \subseteq Records'
    BY <1>1, <1>2, <1>3 DEF TypeOK
  <2>2. Len(slots') <= Capacity
    BY <1>1, <1>2, <1>4 DEF TypeOK, n
  <2>3. parent' \in [Pid -> Parent \cup {None}]
    BY <1>1, <1>3 DEF TypeOK
  <2> QED BY <1>1, <1>2, <1>3, <2>1, <2>2, <2>3 DEF TypeOK
<1>7. SlotsExact'
  <2>1. \A a, b \in 1 .. n - 1 : slots'[a] = slots'[b] => a = b
    BY <1>1, <1>2, <1>4 DEF SlotsExact, n
  <2>2. \A r \in Pid : r \in Records' <=> parent'[r] # None
    BY <1>1, <1>2, <1>5 DEF SlotsExact
  <2>3. \A r \in Records' : r < next_pid'
    BY <1>1, <1>2 DEF SlotsExact
  <2> QED BY <1>2, <1>3, <1>6, <2>1, <2>2, <2>3 DEF SlotsExact
<1>8. IteratorInv'
  <2>1. CASE iter = None
    BY <2>1, <1>3 DEF TableInv, IteratorInv
  <2>2. CASE iter # None
    <3>1. /\ given \subseteq Records /\ owed \subseteq Records
          /\ \A k \in 1 .. n : slots[k] \in given => k <= iter.index
          /\ \A k \in 1 .. n :
               slots[k] \in owed => k > iter.index /\ parent[slots[k]] = iter.parent
      BY <2>2 DEF TableInv, IteratorInv, n
    <3>2. given' \subseteq Records' /\ owed' \subseteq Records'
      BY <1>2, <1>3, <3>1
    <3>3. iter.index \in Nat
      BY <2>2, <1>1 DEF TypeOK, Iterator
    <3>4. ASSUME NEW k \in 1 .. n - 1
          PROVE  /\ slots'[k] \in given' => k <= iter.index
                 /\ slots'[k] \in owed' =>
                      k > iter.index /\ parent'[slots'[k]] = iter.parent
      <4>1. CASE k = i
        <5>1. slots'[k] = slots[n] /\ k <= n /\ n \in 1 .. n
          BY <1>2, <1>4, <4>1
        <5> QED BY <1>3, <1>4, <3>1, <3>3, <5>1
      <4>2. CASE k # i
        <5>1. slots'[k] = slots[k] /\ slots[k] # p /\ k \in 1 .. n
          BY <1>1, <1>2, <1>4, <4>2 DEF SlotsExact, n
        <5>2. parent'[slots[k]] = parent[slots[k]]
          BY <1>4, <1>5, <5>1
        <5> QED BY <1>3, <3>1, <5>1, <5>2
      <4> QED BY <4>1, <4>2
    <3> QED BY <1>2, <2>2, <3>2, <3>4 DEF IteratorInv
  <2> QED BY <2>1, <2>2
<1>9. WalkInv' /\ ReparentInv'
  BY <1>3 DEF WalkInv, ReparentInv, Free
<1> QED BY <1>7, <1>8, <1>9 DEF TableInv

\* The calls that leave the records where they are: only the marks, the
\* cursor and the iterators move.
LEMMA WalksKeep ==
  ASSUME TableInv, First \/ NextRecord \/ \E p \in Pid : Terminate(p)
  PROVE  TableInv'
<1>1. SlotsExact /\ TypeOK /\ slots' = slots /\ parent' = parent /\ iter' = iter
      /\ given' = given /\ owed' = owed /\ loop' = loop /\ next_pid' = next_pid
  BY DEF TableInv, SlotsExact, First, NextRecord, Terminate, table, history
<1>2. Records' = Records /\ Len(slots) \in Nat /\ \A k \in 1 .. Len(slots) : slots[k] \in Pid
  BY <1>1 DEF Records, TypeOK
<1>3. done' \subseteq Records
  BY <1>1 DEF First, NextRecord, Terminate, table, TypeOK
<1>4. cursor' \in Nat /\ (cursor' = 0 \/ cursor' < Len(slots))
  BY <1>1 DEF First, NextRecord, Terminate, TypeOK, SlotsExact
<1>5. walked' = None \/ walked' \subseteq Pid
  <2>1. CASE First
    BY <1>2, <2>1 DEF First
  <2>2. CASE NextRecord
    <3>1. cursor + 2 \in 1 .. Len(slots)
      BY <1>1, <2>2 DEF NextRecord, TypeOK
    <3> QED BY <1>1, <1>2, <2>2, <3>1 DEF NextRecord, TypeOK
  <2>3. CASE \E p \in Pid : Terminate(p)
    BY <1>1, <2>3 DEF Terminate, TypeOK
  <2> QED BY <2>1, <2>2, <2>3
<1>6. SlotsExact'
  BY <1>1, <1>2, <1>3, <1>4, <1>5 DEF SlotsExact, TypeOK
<1>7. WalkInv'
  <2>1. CASE First
    <3>1. 1 .. 0 + 1 = {1}
      OBVIOUS
    <3> QED BY <1>1, <2>1, <3>1 DEF First, WalkInv
  <2>2. CASE NextRecord
    <3> SUFFICES ASSUME walked' # None
                 PROVE  cursor' < Len(slots) /\ walked' = {slots[k] : k \in 1 .. cursor' + 1}
      BY <1>1 DEF WalkInv
    <3>1. /\ walked # None /\ walked' = walked \cup {slots[cursor + 2]}
          /\ cursor' = cursor + 1 /\ cursor' < Len(slots)
      BY <2>2 DEF NextRecord
    <3>2. walked = {slots[k] : k \in 1 .. cursor + 1}
      BY <3>1 DEF TableInv, WalkInv
    <3>3. 1 .. cursor' + 1 = 1 .. cursor + 1 \cup {cursor + 2}
      BY <1>1, <3>1 DEF TypeOK
    <3> QED BY <3>1, <3>2, <3>3
  <2>3. CASE \E p \in Pid : Terminate(p)
    BY <1>1, <2>3 DEF Terminate, TableInv, WalkInv
  <2> QED BY <2>1, <2>2, <2>3
<1> QED BY <1>1, <1>2, <1>6, <1>7 DEF TableInv, IteratorInv, ReparentInv

\* The child iterator of the client.
LEMMA IteratorKeeps ==
  ASSUME TableInv,
         (\E q \in Parent : IteratorCreate(q)) \/ IteratorDestroy \/ IteratorNext \/ IteratorEnd
  PROVE  TableInv'
<1>1. /\ SlotsExact /\ TypeOK /\ slots' = slots /\ parent' = parent /\ done' = done
      /\ loop' = loop /\ next_pid' = next_pid /\ cursor' = cursor /\ walked' = walked
  BY DEF TableInv, SlotsExact, IteratorCreate, IteratorDestroy, IteratorNext, IteratorEnd,
         table, history
<1>2. /\ Records' = Records /\ Len(slots) \in Nat /\ Records \subseteq Pid
      /\ \A k \in 1 .. Len(slots) : slots[k] \in Pid /\ slots[k] \in Records
  BY <1>1 DEF Records, TypeOK
<1>3. WalkInv' /\ ReparentInv'
  BY <1>1 DEF TableInv, WalkInv, ReparentInv
<1>4. ASSUME iter' = None \/ iter' \in Iterator, given' \subseteq Pid, owed' \subseteq Pid
      PROVE  SlotsExact'
  BY <1>1, <1>2, <1>4 DEF SlotsExact, TypeOK
<1>5. ASSUME iter # None
      PROVE  /\ iter \in Iterator /\ iter.index \in 0 .. Capacity
             /\ given \subseteq Records /\ owed \subseteq Records
             /\ \A k \in 1 .. Len(slots) : slots[k] \in given => k <= iter.index
             /\ \A k \in 1 .. Len(slots) :
                  slots[k] \in owed => k > iter.index /\ parent[slots[k]] = iter.parent
  BY <1>5, <1>1 DEF TypeOK, TableInv, IteratorInv, Iterator
<1>6. ASSUME NEW q \in Parent, IteratorCreate(q)
      PROVE  SlotsExact' /\ IteratorInv'
  <2>1. iter' \in Iterator /\ iter' # None /\ iter'.index = 0 /\ iter'.parent = q
    BY <1>6, <1>1 DEF IteratorCreate, Iterator
  <2>2. given' = {} /\ owed' = Children(q)
    BY <1>6 DEF IteratorCreate, TableInv, IteratorInv
  <2>3. owed' \subseteq Records /\ owed' \subseteq Pid
    BY <1>2, <2>2 DEF Children
  <2>4. \A k \in 1 .. Len(slots) : slots[k] \in owed' => k > 0 /\ parent[slots[k]] = q
    BY <2>2 DEF Children
  <2> QED BY <1>1, <1>2, <1>4, <2>1, <2>2, <2>3, <2>4 DEF IteratorInv
<1>7. ASSUME IteratorDestroy
      PROVE  SlotsExact' /\ IteratorInv'
  BY <1>4, <1>7 DEF IteratorDestroy, IteratorInv
<1>8. ASSUME IteratorNext
      PROVE  SlotsExact' /\ IteratorInv'
  <2>1. iter # None
    BY <1>8 DEF IteratorNext
  <2>2. PICK i \in 1 .. Len(slots) :
              /\ NextChild(iter, i)
              /\ iter' = [iter EXCEPT !.index = i]
              /\ given' = given \cup {slots[i]}
              /\ owed' = owed \ {slots[i]}
    BY <1>8 DEF IteratorNext
  <2>3. /\ iter' \in Iterator /\ iter' # None /\ iter'.index = i /\ iter'.parent = iter.parent
        /\ iter.index < i
    <3>1. iter \in Iterator /\ i \in 0 .. Capacity
      BY <1>1, <1>2, <1>5, <2>1 DEF TypeOK
    <3>2. iter' = [parent |-> iter.parent, index |-> i]
      BY <2>2, <3>1 DEF Iterator
    <3>3. iter.index < i
      BY <1>5, <2>1, <2>2 DEF NextChild
    <3> QED BY <3>1, <3>2, <3>3 DEF Iterator
  <2>4. \A j \in iter.index + 1 .. i - 1 : parent[slots[j]] # iter.parent
    BY <2>2 DEF NextChild
  <2>5. ASSUME NEW k \in 1 .. Len(slots)
        PROVE  /\ slots[k] \in given' => k <= i
               /\ slots[k] \in owed' => k > i /\ parent[slots[k]] = iter.parent
    <3>1. slots[k] = slots[i] => k = i
      BY <1>1 DEF SlotsExact
    <3>2. slots[k] \in given' => k <= i
      BY <1>2, <1>5, <2>1, <2>2, <2>3, <3>1
    <3>3. ASSUME slots[k] \in owed'
          PROVE  k > i /\ parent[slots[k]] = iter.parent
      <4>1. k # i /\ k > iter.index /\ parent[slots[k]] = iter.parent
        BY <1>5, <2>1, <2>2, <3>3
      <4> QED BY <1>2, <1>5, <2>1, <2>4, <4>1
    <3> QED BY <3>2, <3>3
  <2>6. given' \subseteq Records /\ owed' \subseteq Records
    BY <1>2, <1>5, <2>1, <2>2
  <2> QED BY <1>1, <1>2, <1>4, <2>3, <2>5, <2>6 DEF IteratorInv
<1>9. ASSUME IteratorEnd
      PROVE  SlotsExact' /\ IteratorInv'
  <2>1. iter # None /\ NoNextChild(iter) /\ given' = given /\ owed' = owed
    BY <1>9 DEF IteratorEnd, history
  <2>2. /\ iter' \in Iterator /\ iter' # None /\ iter'.parent = iter.parent
        /\ iter'.index >= iter.index
    BY <1>1, <1>2, <1>5, <1>9, <2>1 DEF IteratorEnd, Iterator, TypeOK
  <2>3. \A k \in 1 .. Len(slots) : slots[k] \notin owed
    BY <1>2, <1>5, <2>1 DEF NoNextChild
  <2>4. \A k \in 1 .. Len(slots) : slots[k] \in given => k <= iter'.index
    <3>1. iter.index \in Nat /\ iter'.index \in Nat
      BY <1>5, <2>1, <2>2 DEF Iterator
    <3> QED BY <1>5, <2>1, <2>2, <3>1
  <2> QED BY <1>1, <1>2, <1>4, <1>5, <2>1, <2>2, <2>3, <2>4 DEF IteratorInv
<1> QED BY <1>3, <1>6, <1>7, <1>8, <1>9 DEF TableInv

\* process_manager_reparent_children.
LEMMA ReparentKeeps ==
  ASSUME TableInv,
         (\E q, new \in Parent : ReparentBegin(q, new)) \/ ReparentStep \/ ReparentEnd
  PROVE  TableInv'
<1>1. /\ SlotsExact /\ TypeOK /\ slots' = slots /\ done' = done /\ given' = given
      /\ iter' = iter /\ next_pid' = next_pid /\ cursor' = cursor /\ walked' = walked
  BY DEF TableInv, SlotsExact, ReparentBegin, ReparentStep, ReparentEnd, table, history
<1>2. /\ Records' = Records /\ Len(slots) \in Nat
      /\ \A k \in 1 .. Len(slots) : slots[k] \in Pid /\ slots[k] \in Records
  BY <1>1 DEF Records, TypeOK
<1>3. WalkInv'
  BY <1>1 DEF TableInv, WalkInv
<1>4. ASSUME NEW q \in Parent, NEW new \in Parent, ReparentBegin(q, new)
      PROVE  TableInv'
  <2>1. /\ loop' \in Reparenting /\ loop'.index = 0
        /\ parent' = parent /\ owed' = owed
    BY <1>4 DEF ReparentBegin, Reparenting, table, history
  <2>2. SlotsExact' /\ IteratorInv'
    BY <1>1, <1>2, <2>1 DEF TableInv, SlotsExact, TypeOK, IteratorInv
  <2>3. ReparentInv'
    BY <1>1, <1>2, <2>1 DEF ReparentInv
  <2> QED BY <1>3, <2>2, <2>3 DEF TableInv
<1>5. ASSUME ReparentStep
      PROVE  TableInv'
  <2>1. loop # None /\ loop \in Reparenting
    BY <1>1, <1>5 DEF ReparentStep, Free, TypeOK
  <2>2. PICK i \in 1 .. Len(slots) :
              /\ NextChild(loop, i)
              /\ loop' = [loop EXCEPT !.index = i]
              /\ parent' = [parent EXCEPT ![slots[i]] = loop.new]
              /\ owed' = IF loop.new # loop.parent THEN owed \ {slots[i]} ELSE owed
    BY <1>5 DEF ReparentStep
  <2>3. /\ loop' \in Reparenting /\ loop'.index = i /\ loop'.parent = loop.parent
        /\ loop'.new = loop.new /\ loop.new \in Parent /\ loop.parent \in Parent
        /\ loop.index \in Nat /\ loop' # None
    BY <1>1, <1>2, <2>1, <2>2 DEF Reparenting, TypeOK
  <2>4. loop.new # None /\ loop.parent # None
    BY <2>3 DEF Parent, Pid, Root
  <2>5. \A p \in Pid : parent'[p] = IF p = slots[i] THEN loop.new ELSE parent[p]
    BY <1>1, <2>2 DEF TypeOK
  <2>6. parent[slots[i]] = loop.parent
    BY <2>2 DEF NextChild
  <2>7. SlotsExact'
    <3>1. parent' \in [Pid -> Parent \cup {None}]
      BY <1>1, <2>2, <2>3 DEF TypeOK
    <3>2. \A p \in Pid : p \in Records <=> parent'[p] # None
      BY <1>1, <1>2, <2>4, <2>5 DEF SlotsExact
    <3> QED BY <1>1, <1>2, <2>2, <2>3, <3>1, <3>2 DEF SlotsExact, TypeOK
  <2>8. IteratorInv'
    <3>1. owed' \subseteq owed
      BY <2>2
    <3>2. ASSUME iter # None, NEW k \in 1 .. Len(slots), slots[k] \in owed'
          PROVE  k > iter.index /\ parent'[slots[k]] = iter.parent
      <4>1. k > iter.index /\ parent[slots[k]] = iter.parent
        BY <3>1, <3>2 DEF TableInv, IteratorInv
      <4>2. parent'[slots[k]] = parent[slots[k]]
        BY <1>2, <2>2, <2>5, <2>6, <3>2
      <4> QED BY <4>1, <4>2
    <3> QED BY <1>1, <1>2, <3>1, <3>2 DEF TableInv, IteratorInv
  <2>9. ReparentInv'
    <3> SUFFICES ASSUME loop.new # loop.parent, NEW k \in 1 .. Len(slots), k <= i
                 PROVE  parent'[slots[k]] # loop.parent
      BY <1>1, <2>3 DEF ReparentInv
    <3>1. CASE k = i
      BY <1>2, <2>5, <3>1
    <3>2. CASE k # i /\ k <= loop.index
      BY <1>2, <2>1, <2>5, <3>2 DEF TableInv, ReparentInv
    <3>3. CASE k # i /\ k > loop.index
      <4>1. k \in loop.index + 1 .. i - 1
        BY <2>3, <3>3
      <4> QED BY <1>2, <2>2, <2>5, <4>1 DEF NextChild
    <3> QED BY <2>3, <3>1, <3>2, <3>3
  <2> QED BY <1>3, <2>7, <2>8, <2>9 DEF TableInv
<1>6. ASSUME ReparentEnd
      PROVE  TableInv'
  <2>1. loop' = None /\ parent' = parent /\ owed' = owed
    BY <1>6 DEF ReparentEnd, table, history
  <2> QED BY <1>1, <1>2, <1>3, <2>1 DEF TableInv, SlotsExact, TypeOK, IteratorInv, ReparentInv
<1> QED BY <1>4, <1>5, <1>6

\* Every step keeps the invariant.
LEMMA StepInv == TableInv /\ [Next]_vars => TableInv'
<1> SUFFICES ASSUME TableInv, [Next]_vars PROVE TableInv'
  OBVIOUS
<1>1. Records \cup {Root} \subseteq Parent /\ Adopters \subseteq Parent
  BY DEF TableInv, SlotsExact, TypeOK, Records, Parent, Pid, Root
<1>2. ASSUME NEW q \in Records \cup {Root}, CreateProcess(q)
      PROVE  TableInv'
  BY <1>1, <1>2, CreateKeeps
<1>3. ASSUME NEW q \in Records \cup {Root}, ReapChild(q)
      PROVE  TableInv'
  BY <1>3, TakeOutKeeps DEF ReapChild
<1>4. ASSUME NEW q \in Records \cup {Root}, IteratorCreate(q)
      PROVE  TableInv'
  BY <1>1, <1>4, IteratorKeeps
<1>5. ASSUME NEW q \in Records \cup {Root}, NEW new \in Adopters, ReparentBegin(q, new)
      PROVE  TableInv'
  BY <1>1, <1>5, ReparentKeeps
<1>6. ASSUME NEW p \in Pid, DestroyProcess(p)
      PROVE  TableInv'
  BY <1>6, TakeOutKeeps DEF DestroyProcess
<1>7. CASE First \/ NextRecord \/ \E p \in Pid : Terminate(p)
  BY <1>7, WalksKeep
<1>8. CASE IteratorDestroy \/ IteratorNext \/ IteratorEnd
  BY <1>8, IteratorKeeps
<1>9. CASE ReparentStep \/ ReparentEnd
  BY <1>9, ReparentKeeps
<1>10. CASE UNCHANGED vars
  <2>1. UNCHANGED <<slots, parent, done, next_pid, cursor, iter, loop, given, owed, walked>>
    BY <1>10 DEF vars, table, history
  <2>2. Records' = Records
    BY <2>1 DEF Records
  <2>3. TypeOK'
    BY <2>1, <2>2 DEF TableInv, SlotsExact, TypeOK
  <2>4. SlotsExact'
    BY <2>1, <2>2, <2>3 DEF TableInv, SlotsExact
  <2>5. IteratorInv' /\ WalkInv'
    BY <2>1, <2>2 DEF TableInv, IteratorInv, WalkInv
  <2>6. ReparentInv'
    BY <2>1 DEF TableInv, ReparentInv
  <2> QED BY <2>4, <2>5, <2>6 DEF TableInv
<1> QED BY <1>2, <1>3, <1>4, <1>5, <1>6, <1>7, <1>8, <1>9, <1>10 DEF Next

\* The inductive invariant holds in every reachable state.
THEOREM TableCorrect == Spec => []TableInv
BY InitInv, StepInv, PTL DEF Spec

\* process_manager.c keeps every record in exactly one slot of its array, has
\* no record for an id that is in no slot, and never hands out an id twice.
THEOREM SlotsCorrect == Spec => []SlotsExact
<1>1. TableInv => SlotsExact
  BY DEF TableInv
<1> QED BY <1>1, TableCorrect, PTL

\* process_manager_child_iterator_next misses no child that was there all the
\* time, unless process_manager_destroy_process moved it to another slot.
THEOREM IteratorComplete == Spec => []IteratorMissesOnlyMoved
<1>1. TableInv => IteratorMissesOnlyMoved
  <2> SUFFICES ASSUME TableInv, iter # None, iter.index >= Len(slots)
               PROVE  owed = {}
    BY DEF IteratorMissesOnlyMoved
  <2>1. /\ owed \subseteq Records
        /\ \A i \in 1 .. Len(slots) : slots[i] \in owed => i > iter.index
    BY DEF TableInv, IteratorInv
  <2>2. iter.index \in Nat /\ Len(slots) \in Nat
    BY DEF TableInv, SlotsExact, TypeOK, Iterator
  <2> QED BY <2>1, <2>2 DEF Records
<1> QED BY <1>1, TableCorrect, PTL

\* process_manager_child_iterator_next returns no child a second time, even if
\* a destroyed record's slot was filled by one that it has returned.
THEOREM IteratorDistinct == Spec => IteratorNeverRepeats
<1>1. TableInv /\ [Next]_vars => [IteratorNext => given' # given]_vars
  <2> SUFFICES ASSUME TableInv, IteratorNext PROVE given' # given
    OBVIOUS
  <2>1. PICK i \in 1 .. Len(slots) : NextChild(iter, i) /\ given' = given \cup {slots[i]}
    BY DEF IteratorNext
  <2>2. iter # None /\ iter.index \in Nat
    BY DEF IteratorNext, TableInv, SlotsExact, TypeOK, Iterator
  <2>3. i > iter.index
    BY <2>1, <2>2 DEF NextChild
  <2>4. slots[i] \notin given
    BY <2>2, <2>3 DEF TableInv, IteratorInv
  <2> QED BY <2>1, <2>4
<1> QED BY <1>1, TableCorrect, PTL DEF Spec, IteratorNeverRepeats

\* A walk with process_manager_first and process_manager_next that no destroy
\* has cut short returns every record.
THEOREM WalkReturnsAll == Spec => []WalkComplete
<1>1. TableInv => WalkComplete
  <2> SUFFICES ASSUME TableInv, walked # None, cursor + 1 >= Len(slots)
               PROVE  walked = Records
    BY DEF WalkComplete
  <2>1. cursor < Len(slots) /\ walked = {slots[i] : i \in 1 .. cursor + 1}
    BY DEF TableInv, WalkInv
  <2>2. cursor + 1 = Len(slots)
    BY <2>1 DEF TableInv, SlotsExact, TypeOK
  <2> QED BY <2>1, <2>2 DEF Records
<1> QED BY <1>1, TableCorrect, PTL

-----------------------------------------------------------------------------
(* The refinement of RecordSet.                                            *)

\* The parents as RecordSet sees them.
Seen == [p \in Pid |-> IF loop # None /\ parent[p] = loop.parent
                       THEN loop.new ELSE parent[p]]

\* An array that has room holds fewer records than its capacity.
LEMMA RecordsBounded ==
  ASSUME SlotsExact
  PROVE  Cardinality(Records) <= Len(slots)
<1> DEFINE n == Len(slots)
<1>1. n \in Nat /\ slots \in [1 .. n -> Records]
  BY DEF SlotsExact, TypeOK, Records
<1>2. slots \in Surjection(1 .. n, Records)
  BY <1>1 DEF Surjection, Records
<1>3. ExistsSurjection(1 .. n, Records)
  BY <1>2 DEF ExistsSurjection
<1> HIDE DEF n
<1>4. Cardinality(Records) <= n
  BY <1>1, <1>3, FS_SurjCardinalityBound
<1> QED BY <1>4 DEF n

\* While no reparent_children is in progress nothing is hidden.
LEMMA SeenWhenFree ==
  ASSUME SlotsExact, Free
  PROVE  Seen = parent /\ Table!Records = Records
<1>1. parent \in [Pid -> Parent \cup {None}] /\ Records \subseteq Pid
  BY DEF SlotsExact, TypeOK, Records
<1>2. Seen = parent
  BY <1>1 DEF Seen, Free
<1>3. Table!Records = {p \in Pid : Seen[p] # None}
  BY DEF Table!Records, Table!Pid, Seen, Pid
<1> QED BY <1>1, <1>2, <1>3 DEF SlotsExact

\* RecordSet counts as this module does.
LEMMA SameCardinality == \A S : Table!Cardinality(S) = Cardinality(S)
BY DEF Cardinality, Table!Cardinality

\* One record taken out of the array is one record destroyed.
LEMMA TakeOutRefines ==
  ASSUME TableInv, TableInv', Free, NEW p \in Records, TakeOut(p),
         UNCHANGED <<next_pid, iter, loop>>
  PROVE  Table!Destroy(p)
<1>1. SlotsExact /\ SlotsExact' /\ Free'
  BY DEF TableInv, Free
<1>2. Seen = parent /\ Table!Records = Records
  BY <1>1, SeenWhenFree
<1>3. Seen' = parent'
  BY <1>1 DEF SlotsExact, TypeOK, Seen, Free
<1>4. /\ p \in Table!Records
      /\ Seen' = [Seen EXCEPT ![p] = None]
      /\ done' = done \ {p} /\ next_pid' = next_pid
  BY <1>2, <1>3 DEF TakeOut
<1> QED BY <1>4 DEF Table!Destroy, Seen

\* Every step is a step of RecordSet, or one that RecordSet does not see.
LEMMA StepRefines ==
  ASSUME TableInv, TableInv', [Next]_vars
  PROVE  [Table!Next]_(Table!vars)
<1>1. SlotsExact /\ SlotsExact' /\ TypeOK /\ TypeOK'
  BY DEF TableInv, SlotsExact
<1>2. ASSUME Free PROVE Seen = parent /\ Table!Records = Records
  BY <1>1, <1>2, SeenWhenFree
<1>3. ASSUME Free' PROVE Seen' = parent'
  BY <1>1, <1>3 DEF TypeOK, Seen, Free
<1>4. Parent = Table!Pid \cup {Table!Root} /\ Pid = Table!Pid
  BY DEF Parent, Pid, Root, Table!Pid, Table!Root
<1>5. Records \cup {Root} \subseteq Parent /\ Records \subseteq Pid /\ Adopters \subseteq Parent
  <2>1. Records \subseteq Pid
    BY <1>1 DEF TypeOK, Records
  <2>2. Adopters \subseteq Parent
    BY DEF Parent, Pid, Root
  <2> QED BY <2>1, <2>2 DEF Parent
<1>6. ASSUME Seen' = Seen, UNCHANGED <<done, next_pid>>
      PROVE  UNCHANGED Table!vars
  BY <1>6 DEF Table!vars, Seen
<1>7. ASSUME NEW q \in Records \cup {Root}, CreateProcess(q)
      PROVE  Table!Next
  <2>1. Free /\ Free'
    BY <1>7 DEF CreateProcess, Free
  <2>2. Table!Cardinality(Table!Records) < Capacity
    <3>1. Cardinality(Records) <= Len(slots) /\ Len(slots) < Capacity /\ Len(slots) \in Nat
      BY <1>1, <1>7, RecordsBounded DEF CreateProcess, TypeOK
    <3>2. Cardinality(Records) \in Nat
      <4>1. IsFiniteSet(Pid)
        BY FS_Interval DEF Pid
      <4> QED BY <1>5, <4>1, FS_Subset, FS_CardinalityType
    <3> QED BY <1>2, <2>1, <3>1, <3>2, SameCardinality
  <2>3. /\ next_pid <= MaxPid /\ Seen' = [Seen EXCEPT ![next_pid] = q]
        /\ next_pid' = next_pid + 1 /\ done' = done
    BY <1>2, <1>3, <1>7, <2>1 DEF CreateProcess
  <2>4. Table!Create(q)
    BY <2>2, <2>3 DEF Table!Create, Seen
  <2> QED BY <1>4, <1>5, <2>4 DEF Table!Next
<1>8. ASSUME NEW q \in Records \cup {Root}, ReapChild(q)
      PROVE  Table!Next
  <2>1. PICK p \in Records : Waitable(q, p) /\ TakeOut(p)
    BY <1>8 DEF ReapChild
  <2>2. Free /\ Table!Destroy(p)
    BY <1>8, <2>1, TakeOutRefines DEF ReapChild
  <2>3. p \in Table!Children(q) \cap done
    <3>1. Seen[p] = q /\ p \in done /\ p \in Table!Records
      BY <1>2, <2>1, <2>2 DEF Waitable
    <3> QED BY <3>1 DEF Table!Children, Seen
  <2>4. Table!ReapChild(q)
    BY <2>2, <2>3 DEF Table!ReapChild
  <2> QED BY <1>4, <1>5, <2>4 DEF Table!Next
<1>9. ASSUME NEW p \in Pid, DestroyProcess(p)
      PROVE  Table!Next
  <2>1. Table!Destroy(p)
    BY <1>9, TakeOutRefines DEF DestroyProcess
  <2> QED BY <1>4, <2>1 DEF Table!Next
<1>10. ASSUME NEW p \in Pid, Terminate(p)
       PROVE  Table!Next
  <2>1. Free /\ Free' /\ p \in Records \ done /\ done' = done \cup {p}
        /\ parent' = parent /\ next_pid' = next_pid
    BY <1>10 DEF Terminate, Free
  <2>2. Table!Terminate(p)
    BY <1>2, <1>3, <2>1 DEF Table!Terminate, Seen
  <2> QED BY <1>4, <2>2 DEF Table!Next
<1>11. ASSUME NEW q \in Records \cup {Root}, NEW new \in Adopters, ReparentBegin(q, new)
       PROVE  Table!Next
  <2>1. /\ Free /\ loop' = [parent |-> q, new |-> new, index |-> 0]
        /\ parent' = parent /\ UNCHANGED <<done, next_pid>>
    BY <1>11 DEF ReparentBegin, table
  <2>2. loop' # None /\ loop'.parent = q /\ loop'.new = new
    <3>1. q \in Parent /\ new \in Parent /\ 0 \in 0 .. Capacity
      BY <1>5
    <3>2. loop' \in Reparenting
      BY <2>1, <3>1 DEF Reparenting
    <3> QED BY <2>1, <3>2
  <2>3. Seen = parent
    BY <1>2, <2>1
  <2>4. Seen' = [p \in Pid |-> IF Seen[p] = q THEN new ELSE Seen[p]]
    BY <2>1, <2>2, <2>3 DEF Seen
  <2>5. Table!Reparent(q, new)
    BY <2>1, <2>4, <1>4 DEF Table!Reparent, Seen
  <2> QED BY <1>4, <1>5, <2>5 DEF Table!Next
<1>12. ASSUME ReparentStep
       PROVE  UNCHANGED Table!vars
  <2>1. loop # None /\ loop \in Reparenting
    BY <1>1, <1>12 DEF ReparentStep, Free, TypeOK
  <2>2. PICK i \in 1 .. Len(slots) :
              /\ NextChild(loop, i)
              /\ loop' = [loop EXCEPT !.index = i]
              /\ parent' = [parent EXCEPT ![slots[i]] = loop.new]
    BY <1>12 DEF ReparentStep
  <2>3. loop' = [parent |-> loop.parent, new |-> loop.new, index |-> i]
    BY <2>1, <2>2 DEF Reparenting
  <2>4. i \in 0 .. Capacity /\ slots[i] \in Pid
    BY <1>1, <2>2 DEF TypeOK
  <2>5. loop' # None /\ loop'.parent = loop.parent /\ loop'.new = loop.new
    <3>1. loop' \in Reparenting
      BY <2>1, <2>3, <2>4 DEF Reparenting
    <3> QED BY <2>3, <3>1
  <2>6. parent[slots[i]] = loop.parent
    BY <2>2 DEF NextChild
  <2>7. \A p \in Pid : parent'[p] = IF p = slots[i] THEN loop.new ELSE parent[p]
    BY <1>1, <2>2 DEF TypeOK
  <2>8. Seen' = Seen
    BY <2>1, <2>5, <2>6, <2>7 DEF Seen
  <2> QED BY <1>6, <1>12, <2>8 DEF ReparentStep
<1>13. ASSUME ReparentEnd
       PROVE  UNCHANGED Table!vars
  <2>1. /\ loop # None /\ loop \in Reparenting /\ loop' = None /\ parent' = parent
        /\ NoNextChild(loop)
    BY <1>1, <1>13 DEF ReparentEnd, Free, TypeOK, table
  <2>2. loop.parent # None /\ loop.index \in Nat /\ Len(slots) \in Nat
    BY <1>1, <2>1 DEF Reparenting, Parent, Pid, Root, TypeOK
  <2>3. ASSUME NEW p \in Pid, loop.new # loop.parent
        PROVE  parent[p] # loop.parent
    <3>1. CASE p \in Records
      <4>1. PICK i \in 1 .. Len(slots) : slots[i] = p
        BY <3>1 DEF Records
      <4>2. CASE i <= loop.index
        BY <2>1, <2>3, <4>1, <4>2 DEF TableInv, ReparentInv
      <4>3. CASE i > loop.index
        BY <2>1, <2>2, <4>1, <4>3 DEF NoNextChild
      <4> QED BY <2>2, <4>2, <4>3
    <3>2. CASE p \notin Records
      BY <1>1, <2>2, <3>2 DEF SlotsExact
    <3> QED BY <3>1, <3>2
  <2>4. Seen' = Seen
    BY <2>1, <2>3 DEF Seen
  <2> QED BY <1>6, <1>13, <2>4 DEF ReparentEnd, table
<1>14. ASSUME \/ First \/ NextRecord \/ IteratorDestroy \/ IteratorNext \/ IteratorEnd
              \/ (\E q \in Records \cup {Root} : IteratorCreate(q)) \/ UNCHANGED vars
       PROVE  UNCHANGED Table!vars
  <2>1. UNCHANGED <<parent, done, next_pid, loop>>
    BY <1>14 DEF First, NextRecord, IteratorDestroy, IteratorNext, IteratorEnd, IteratorCreate,
                 vars, table
  <2>2. Seen' = Seen
    BY <2>1 DEF Seen
  <2> QED BY <1>6, <2>1, <2>2
<1> QED BY <1>7, <1>8, <1>9, <1>10, <1>11, <1>12, <1>13, <1>14 DEF Next

\* The array with its moves, its cursor and its loops implements the set of
\* records: reparent_children moves all children of one process and nobody
\* else, and wait_child finds a TERMINATED child if there is one.
THEOREM RefinesRecordSet == Spec => ImplementsRecordSet
<1>1. Init => Table!Init
  BY DEF Init, Table!Init, Table!Pid, Pid
<1>2. TableInv /\ TableInv' /\ [Next]_vars => [Table!Next]_(Table!vars)
  BY StepRefines
<1> QED BY <1>1, <1>2, TableCorrect, PTL DEF Spec, ImplementsRecordSet, Table!Spec
=============================================================================
