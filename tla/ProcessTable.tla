---------------------------- MODULE ProcessTable ----------------------------
(***************************************************************************)
(* The process manager, process_manager.c: an array of records in which    *)
(* the last one fills the hole that a destroyed one leaves, the cursor of  *)
(* process_manager_first and process_manager_next, one child iterator of   *)
(* the client, and reparent_children, which walks the array with a child   *)
(* iterator of its own while no other call can be made.                    *)
(*                                                                         *)
(* A position is the number of slots before it, as in the code; slots[1]   *)
(* is at position 0.  malloc does not fail.  Of a process's state only     *)
(* whether it is TERMINATED matters here.                                  *)
(***************************************************************************)
EXTENDS Naturals, Sequences, FiniteSets

CONSTANTS MaxPid,    \* bound on process ids; UINT32_MAX - 1 in the code
          Capacity,  \* PROCESS_MANAGER_INITIAL_CAPACITY
          Adopters,  \* whom children are handed to; embla.c names only Root
          None       \* no record, no iterator

Root == 0             \* EMBLA_ROOT_PID
Pid == 1 .. MaxPid
Parent == Pid \cup {Root}

Iterator == [parent : Parent, index : 0 .. Capacity]
Reparenting == [parent : Parent, new : Parent, index : 0 .. Capacity]

ASSUME TableAssumption ==
    /\ MaxPid \in Nat /\ Capacity \in Nat
    /\ None \notin Nat \cup Iterator \cup Reparenting
    /\ Adopters \subseteq 0 .. MaxPid

VARIABLES
    slots,     \* the records of the array, in order
    parent,    \* Pid -> parent_id, or None if there is no such record
    done,      \* the records that are TERMINATED
    next_pid,  \* the next id
    cursor,    \* iterator_index
    iter,      \* the client's child iterator: its parent_id and index
    loop,      \* reparent_children in progress: whose children, where to, index
    given,     \* history: the records iter has returned
    owed,      \* history: children of iter's parent since iter was created that
               \* it has not returned and no destroy has moved to another slot
    walked     \* history: returned since process_manager_first, or None after a destroy

table == <<slots, parent, done, next_pid>>
history == <<given, owed>>
vars == <<table, cursor, iter, loop, history, walked>>

Records == {slots[i] : i \in 1 .. Len(slots)}
Children(q) == {p \in Records : parent[p] = q}

Init ==
    /\ slots = <<>> /\ parent = [p \in Pid |-> None] /\ done = {} /\ next_pid = 1
    /\ cursor = 0 /\ iter = None /\ loop = None
    /\ given = {} /\ owed = {} /\ walked = None

\* No reparent_children is in progress.
Free == loop = None

-----------------------------------------------------------------------------
(* Records come and go.                                                    *)

\* Mutant: ids start again when they have been used up.
CreateWraps(q) ==
    /\ Free /\ Len(slots) < Capacity
    /\ LET p == IF next_pid > MaxPid THEN 1 ELSE next_pid IN
         /\ slots' = Append(slots, p)
         /\ parent' = [parent EXCEPT ![p] = q]
         /\ next_pid' = p + 1
    /\ UNCHANGED <<done, cursor, iter, loop, history, walked>>

\* Mutant: the newest record comes first.
CreateInFront(q) ==
    /\ Free /\ Len(slots) < Capacity /\ next_pid <= MaxPid
    /\ slots' = <<next_pid>> \o slots
    /\ parent' = [parent EXCEPT ![next_pid] = q]
    /\ next_pid' = next_pid + 1
    /\ UNCHANGED <<done, cursor, iter, loop, history, walked>>

\* process_manager_create_process; it does not look at the parent.
CreateProcess(q) ==
    /\ Free /\ Len(slots) < Capacity /\ next_pid <= MaxPid
    /\ slots' = Append(slots, next_pid)
    /\ parent' = [parent EXCEPT ![next_pid] = q]
    /\ next_pid' = next_pid + 1
    /\ UNCHANGED <<done, cursor, iter, loop, history, walked>>

\* The owner of the record moves it to PROCESS_TERMINATED.
Terminate(p) ==
    /\ Free /\ p \in Records \ done
    /\ done' = done \cup {p}
    /\ UNCHANGED <<slots, parent, next_pid, cursor, iter, loop, history, walked>>

\* process_manager_destroy_process: the last record takes the slot of p.
TakeOut(p) ==
    LET n == Len(slots)
        i == CHOOSE i \in 1 .. n : slots[i] = p IN
    /\ slots' = [j \in 1 .. n - 1 |-> IF j = i THEN slots[n] ELSE slots[j]]
    /\ parent' = [parent EXCEPT ![p] = None]
    /\ done' = done \ {p}
    /\ cursor' = 0 /\ walked' = None
    /\ owed' = owed \ {p, slots[n]}
    /\ given' = given \ {p}

DestroyProcess(p) ==
    /\ Free /\ p \in Records
    /\ TakeOut(p)
    /\ UNCHANGED <<next_pid, iter, loop>>

\* process_manager_wait_child: the first in the array.
Waitable(q, p) ==
    \E i \in 1 .. Len(slots) :
        /\ slots[i] = p /\ parent[p] = q /\ p \in done
        /\ \A j \in 1 .. i - 1 : ~(parent[slots[j]] = q /\ slots[j] \in done)

\* process_manager_reap_child.
ReapChild(q) ==
    /\ Free
    /\ \E p \in Records : Waitable(q, p) /\ TakeOut(p)
    /\ UNCHANGED <<next_pid, iter, loop>>

-----------------------------------------------------------------------------
(* The cursor of the table.                                                *)

\* Mutant: the walk goes on from where the last one was.
FirstKeepsCursor ==
    /\ Free /\ Len(slots) > 0
    /\ walked' = {slots[1]}
    /\ UNCHANGED <<table, cursor, iter, loop, history>>

\* process_manager_first.
First ==
    /\ Free /\ Len(slots) > 0
    /\ cursor' = 0 /\ walked' = {slots[1]}
    /\ UNCHANGED <<table, iter, loop, history>>

\* process_manager_next, unless it returns NULL.
NextRecord ==
    /\ Free /\ cursor + 1 < Len(slots)
    /\ cursor' = cursor + 1
    /\ walked' = IF walked = None THEN None ELSE walked \cup {slots[cursor + 2]}
    /\ UNCHANGED <<table, iter, loop, history>>

-----------------------------------------------------------------------------
(* The child iterator.                                                     *)

\* process_manager_child_iterator_create and _destroy.
IteratorCreate(q) ==
    /\ Free /\ iter = None
    /\ iter' = [parent |-> q, index |-> 0]
    /\ owed' = Children(q)
    /\ UNCHANGED <<table, cursor, loop, given, walked>>

IteratorDestroy ==
    /\ Free /\ iter # None
    /\ iter' = None
    /\ given' = {} /\ owed' = {}
    /\ UNCHANGED <<table, cursor, loop, walked>>

\* The next child at or after a position is in the i-th slot.
NextChild(it, i) ==
    /\ i \in it.index + 1 .. Len(slots) /\ parent[slots[i]] = it.parent
    /\ \A j \in it.index + 1 .. i - 1 : parent[slots[j]] # it.parent

NoNextChild(it) == \A i \in it.index + 1 .. Len(slots) : parent[slots[i]] # it.parent

\* Mutant: the iterator steps over the slot after a child.
IteratorNextSkips ==
    /\ Free /\ iter # None
    /\ \E i \in 1 .. Len(slots) :
         /\ NextChild(iter, i)
         /\ iter' = [iter EXCEPT !.index = i + 1]
         /\ given' = given \cup {slots[i]}
         /\ owed' = owed \ {slots[i]}
    /\ UNCHANGED <<table, cursor, loop, walked>>

\* process_manager_child_iterator_next returns a child.
IteratorNext ==
    /\ Free /\ iter # None
    /\ \E i \in 1 .. Len(slots) :
         /\ NextChild(iter, i)
         /\ iter' = [iter EXCEPT !.index = i]
         /\ given' = given \cup {slots[i]}
         /\ owed' = owed \ {slots[i]}
    /\ UNCHANGED <<table, cursor, loop, walked>>

\* It returns NULL, and leaves the index at the end of the array, or where it
\* was if records were destroyed and the array ends before it.
IteratorEnd ==
    /\ Free /\ iter # None /\ NoNextChild(iter)
    /\ iter' = [iter EXCEPT !.index = IF @ < Len(slots) THEN Len(slots) ELSE @]
    /\ UNCHANGED <<table, cursor, loop, history, walked>>

-----------------------------------------------------------------------------
(* process_manager_reparent_children.                                      *)

ReparentBegin(q, new) ==
    /\ Free
    /\ loop' = [parent |-> q, new |-> new, index |-> 0]
    /\ UNCHANGED <<table, cursor, iter, history, walked>>

\* Mutant: the child that was moved away makes room for the slot after it.
ReparentStepSkips ==
    /\ ~Free
    /\ \E i \in 1 .. Len(slots) :
         /\ NextChild(loop, i)
         /\ loop' = [loop EXCEPT !.index = i + 1]
         /\ parent' = [parent EXCEPT ![slots[i]] = loop.new]
         /\ owed' = IF loop.new # loop.parent THEN owed \ {slots[i]} ELSE owed
    /\ UNCHANGED <<slots, done, next_pid, cursor, iter, given, walked>>

ReparentStep ==
    /\ ~Free
    /\ \E i \in 1 .. Len(slots) :
         /\ NextChild(loop, i)
         /\ loop' = [loop EXCEPT !.index = i]
         /\ parent' = [parent EXCEPT ![slots[i]] = loop.new]
         /\ owed' = IF loop.new # loop.parent THEN owed \ {slots[i]} ELSE owed
    /\ UNCHANGED <<slots, done, next_pid, cursor, iter, given, walked>>

ReparentEnd ==
    /\ ~Free /\ NoNextChild(loop)
    /\ loop' = None
    /\ UNCHANGED <<table, cursor, iter, history, walked>>

Next ==
    \/ \E q \in Records \cup {Root} :
         \/ CreateProcess(q) \/ ReapChild(q) \/ IteratorCreate(q)
         \/ \E new \in Adopters : ReparentBegin(q, new)
    \/ \E p \in Pid : Terminate(p) \/ DestroyProcess(p)
    \/ First \/ NextRecord
    \/ IteratorDestroy \/ IteratorNext \/ IteratorEnd
    \/ ReparentStep \/ ReparentEnd

Spec == Init /\ [][Next]_vars

-----------------------------------------------------------------------------
(* Properties.                                                             *)

\* Type invariant of the table and its iterators.
TypeOK ==
    /\ slots \in Seq(Pid) /\ Len(slots) <= Capacity
    /\ parent \in [Pid -> Parent \cup {None}]
    /\ done \subseteq Records
    /\ next_pid \in 1 .. MaxPid + 1
    /\ cursor \in Nat
    /\ iter = None \/ iter \in Iterator
    /\ loop = None \/ loop \in Reparenting
    /\ given \subseteq Pid /\ owed \subseteq Pid
    /\ walked = None \/ walked \subseteq Pid

\* However records are created, destroyed and moved, each is in one slot, all
\* that are in no slot are gone, and no id is ever handed out twice.
SlotsExact ==
    /\ TypeOK
    /\ \A i, j \in 1 .. Len(slots) : slots[i] = slots[j] => i = j
    /\ \A p \in Pid : p \in Records <=> parent[p] # None
    /\ \A p \in Records : p < next_pid
    /\ cursor = 0 \/ cursor < Len(slots)

\* A child iterator that has come to the end has returned every child that was
\* there all the time, except one that a destroy moved to another slot: the
\* hazard of destroying records while iterating is no larger than that.
IteratorMissesOnlyMoved ==
    iter # None /\ iter.index >= Len(slots) => owed = {}

\* A child iterator returns no child twice, even if records are destroyed,
\* created and reparented while it is open.
IteratorNeverRepeats ==
    [][IteratorNext => given' # given]_vars

\* A walk with first and next that no destroy has cut short returns every
\* record, those created on the way too.
WalkComplete ==
    walked # None /\ cursor + 1 >= Len(slots) => walked = Records

\* The table as a set of records.  A reparent in progress counts as done.
Table == INSTANCE RecordSet WITH
    parent <- [p \in Pid |-> IF loop # None /\ parent[p] = loop.parent
                             THEN loop.new ELSE parent[p]]

\* The array with its moves, cursor and loops implements the set of records:
\* in particular reparent_children moves all children of one process and
\* nobody else, and wait_child returns none but a TERMINATED child.
ImplementsRecordSet == Table!Spec
=============================================================================
