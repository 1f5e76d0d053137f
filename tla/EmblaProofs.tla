----------------------------- MODULE EmblaProofs ----------------------------
(***************************************************************************)
(* The runtime keeps its books for every capacity, every number of host    *)
(* processes and every interleaving of calls, events and signals: IInv is  *)
(* an invariant.  Each lemma handles one kind of step: what only the       *)
(* kernel changes, spawning, dispatching, an exit, a stop or continue, and *)
(* reaping.                                                                *)
(***************************************************************************)
EXTENDS Embla, FiniteSetTheorems, TLAPS

USE BoundsAssumption, NoneAssumption

\* The variables of embla_run keep their types.
RunType ==
    /\ estate \in {"STOPPED", "RUNNING", "STOPPING"}
    /\ pc \in {"out", "poll", "dispatch"}
    /\ outcome \in {"none", "ok", "error"}
    /\ strays \in 0 .. MaxStrays

\* What the kernel may do to the children of Embla without telling it.
KernelMoves ==
    /\ kern' \in [Host -> ChildType]
    /\ \A h \in Host : /\ kern'[h].life = "none" <=> kern[h].life = "none"
                       /\ kern'[h].pgid = kern[h].pgid
                       /\ kern[h].life = "none" => kern'[h] = kern[h]

\* Table and Live depend on the states of the records only.
LEMMA SameTable ==
  ASSUME state' = state
  PROVE  Table' = Table /\ Live' = Live
BY DEF Table, Live

\* Steps that change nothing but children, the id counters, embla_run's own
\* variables, and what lies outside the tables.
LEMMA TablesKept ==
  ASSUME IInv, RunType', KernelMoves,
         UNCHANGED <<state, gids, queue, current>>,
         info' \in [Pid -> InfoType], \A p \in Table : info'[p] = info[p],
         grp' \in [Gid -> GroupType], \A g \in gids : grp'[g] = grp[g],
         next_pid' \in next_pid .. MaxPid + 1, next_gid' \in next_gid .. MaxGid + 1
  PROVE  IInv'
<1> USE DEF IInv
<1>1. TypeOK'
  BY DEF TypeOK, RunType, KernelMoves
<1>2. SchedulerTracksLive'
  BY SameTable DEF SchedulerTracksLive, Sched!Occurs
<1>t. Live \subseteq Table
  BY DEF Live
<1>3. HostsTracked'
  BY <1>t, SameTable DEF HostsTracked, KernelMoves
<1>4. GroupsConsistent'
  BY SameTable DEF GroupsConsistent, InGroup
<1>5. IdsFresh'
  BY DEF IdsFresh, TypeOK, Pid, Gid
<1>6. HostGroupsMatch'
  <2>1. \A p \in Live : kern'[info'[p].host].pgid = grp'[info'[p].group].host
    BY <1>t DEF HostGroupsMatch, KernelMoves, HostsTracked, GroupsConsistent
  <2> QED BY <2>1, SameTable DEF HostGroupsMatch, KernelMoves, NoChild
<1>7. ~DeadParents => ParentsAlive'
  BY SameTable DEF ParentsAlive
<1> QED BY <1>1, <1>2, <1>3, <1>4, <1>5, <1>6, <1>7

LEMMA KernelKeeps ==
  ASSUME IInv, RunType', KernelMoves,
         UNCHANGED <<state, info, grp, gids, queue, current>>,
         next_pid' \in next_pid .. MaxPid + 1, next_gid' \in next_gid .. MaxGid + 1
  PROVE  IInv'
BY TablesKept DEF IInv, TypeOK

\* left differs from the tables and the kernel at most in the host of a group
\* that had none.
Restored(left, groups, g) ==
    /\ left.state = state /\ left.kern = kern
    /\ left.info = [info EXCEPT ![next_pid] = NoInfo]
    /\ left.grp \in [Gid -> GroupType]
    /\ \A k \in Gid : k # g \/ groups[k].host # None => left.grp[k] = groups[k]
    /\ left.grp[g].members = groups[g].members

\* embla_spawn_rollback undoes what embla_spawn_internal has done before the
\* step that fails: states and children are as they were, and the group lists
\* whom it listed.
LEMMA RollbackRestores ==
  ASSUME IInv, CanCreate, NEW parent \in {Root} \cup Pid, NEW g \in Gid,
         NEW groups \in [Gid -> GroupType], next_pid \notin groups[g].members,
         NEW step \in SpawnSteps, NEW h \in Host, ForkedBefore(step) => Forkable(h)
  PROVE  Restored(FailedSpawn(step, parent, groups, g, h), groups, g)
<1> DEFINE made == MadeBefore(step, parent, groups, g, h)
           left == FailedSpawn(step, parent, groups, g, h)
<1>1. next_pid \in Pid /\ state[next_pid] = "FREE"
  BY DEF CanCreate, IInv, TypeOK, IdsFresh, Pid
<1>2. /\ state \in [Pid -> States \cup {"FREE"}] /\ info \in [Pid -> InfoType]
      /\ kern \in [Host -> ChildType]
  BY DEF IInv, TypeOK
<1>3. left.state = state
  <2>1. \E s : left.state = [[state EXCEPT ![next_pid] = s] EXCEPT ![next_pid] = "FREE"]
    BY DEF FailedSpawn, RolledBack, MadeBefore
  <2> QED BY <1>1, <1>2, <2>1
<1>4. left.info = [info EXCEPT ![next_pid] = NoInfo]
  <2>1. \E r : left.info = [[info EXCEPT ![next_pid] = r] EXCEPT ![next_pid] = NoInfo]
    BY DEF FailedSpawn, RolledBack, MadeBefore
  <2> QED BY <1>1, <1>2, <2>1
<1>5. left.kern = kern
  <2>1. CASE ~ForkedBefore(step)
    BY <2>1 DEF FailedSpawn, RolledBack, MadeBefore
  <2>2. CASE ForkedBefore(step)
    <3>1. kern[h] = NoChild
      BY <2>2 DEF Forkable, IInv, HostGroupsMatch
    <3>2. made.info[next_pid].host = h
      BY <1>1, <1>2, <2>2 DEF MadeBefore
    <3>3. \E pgid : made.kern = [kern EXCEPT ![h] = Born(pgid)]
      BY <2>2 DEF MadeBefore
    <3>4. left.kern = [made.kern EXCEPT ![h] = NoChild]
      BY <2>2, <3>2 DEF FailedSpawn, RolledBack
    <3> QED BY <1>2, <3>1, <3>3, <3>4
  <2> QED BY <2>1, <2>2
<1>6. PICK m, x : /\ made.grp = [groups EXCEPT ![g] = [members |-> m, host |-> x, cap |-> groups[g].cap]]
                  /\ m = IF step = "add" THEN groups[g].members
                                         ELSE groups[g].members \cup {next_pid}
                  /\ x = IF step \in {"transition", "schedule"} /\ groups[g].host = None
                         THEN h ELSE groups[g].host
  BY DEF MadeBefore
<1>7. PICK new : new = [members |-> m, host |-> x, cap |-> groups[g].cap]
  OBVIOUS
<1>8. /\ groups[g].members \in SUBSET Pid /\ groups[g].host \in Host \cup {None}
      /\ groups[g].cap \in Nat \cup {None}
      /\ groups[g] = [members |-> groups[g].members, host |-> groups[g].host, cap |-> groups[g].cap]
  BY DEF GroupType
<1>9. m \in SUBSET Pid /\ x \in Host \cup {None} /\ m \ {next_pid} = groups[g].members
  BY <1>1, <1>6, <1>8
<1>10. left.grp = [made.grp EXCEPT ![g].members = @ \ {next_pid}]
  BY DEF FailedSpawn, RolledBack
<1>11. made.grp \in [Gid -> GroupType] /\ made.grp[g] = new
       /\ \A k \in Gid : k # g => made.grp[k] = groups[k]
  BY <1>6, <1>7, <1>8, <1>9 DEF GroupType
<1>12. [new EXCEPT !.members = @ \ {next_pid}] = [members |-> groups[g].members, host |-> x, cap |-> groups[g].cap]
  <2>1. ASSUME NEW c, NEW d
        PROVE  [[members |-> m, host |-> x, cap |-> c] EXCEPT !.members = d]
                 = [members |-> d, host |-> x, cap |-> c]
    OBVIOUS
  <2>2. new.members = m
    BY <1>7
  <2> QED BY <1>7, <1>9, <2>1, <2>2
<1>13. /\ left.grp[g] = [members |-> groups[g].members, host |-> x, cap |-> groups[g].cap]
       /\ \A k \in Gid : k # g => left.grp[k] = groups[k]
       /\ left.grp \in [Gid -> GroupType]
  <2>1. left.grp = [made.grp EXCEPT ![g] = [members |-> groups[g].members, host |-> x, cap |-> groups[g].cap]]
    BY <1>10, <1>11, <1>12
  <2>2. [members |-> groups[g].members, host |-> x, cap |-> groups[g].cap] \in GroupType
    BY <1>8, <1>9 DEF GroupType
  <2> QED BY <1>11, <2>1, <2>2
<1>14. groups[g].host # None => left.grp[g] = groups[g]
  BY <1>6, <1>8, <1>13
<1>15. left.grp[g].members = groups[g].members
  BY <1>13
<1> HIDE DEF left
<1>16. \A k \in Gid : k # g \/ groups[k].host # None => left.grp[k] = groups[k]
  BY <1>13, <1>14
<1>17. Restored(left, groups, g)
  BY <1>3, <1>4, <1>5, <1>13, <1>15, <1>16 DEF Restored
<1> QED BY <1>17 DEF left

\* A failed spawn spends ids, and leaves nothing else in the tables and in the
\* kernel.
LEMMA SpawnFailsKeeps ==
  ASSUME IInv, EmblaSpawnFails \/ \E q \in Pid : EmblaSpawnChildFails(q)
  PROVE  /\ UNCHANGED <<state, gids, kern, queue, current, estate, pc, outcome, strays>>
         /\ info' \in [Pid -> InfoType] /\ \A p \in Table : info'[p] = info[p]
         /\ grp' \in [Gid -> GroupType] /\ \A g \in gids : grp'[g] = grp[g]
         /\ next_pid' \in next_pid .. MaxPid + 1 /\ next_gid' \in next_gid .. MaxGid + 1
<1> USE DEF records, schedvars, runvars
<1>1. /\ next_pid \in 1 .. MaxPid + 1 /\ next_gid \in 1 .. MaxGid + 1 /\ MaxPid \in Nat
      /\ MaxGid \in Nat /\ info \in [Pid -> InfoType] /\ grp \in [Gid -> GroupType]
      /\ NoInfo \in InfoType /\ NoGroup \in GroupType
  BY BoundsAssumption DEF IInv, TypeOK, NoInfo, InfoType, NoGroup, GroupType
<1>2. CanCreate => next_pid \in Pid /\ next_pid \notin Table
  BY DEF CanCreate, IInv, TypeOK, IdsFresh, Pid, Table
<1>3. ASSUME CanCreate, info' = [info EXCEPT ![next_pid] = NoInfo]
      PROVE  info' \in [Pid -> InfoType] /\ \A p \in Table : info'[p] = info[p]
  BY <1>1, <1>2, <1>3 DEF Table
<1>4. CASE EmblaSpawnFails
  <2>1. next_gid \in Gid /\ next_gid \notin gids
    BY <1>1, <1>4 DEF EmblaSpawnFails, CanCreateGroup, IInv, IdsFresh, Gid
  <2>2. CASE ~CanCreate
    BY <1>1, <1>4, <2>2 DEF EmblaSpawnFails, CanCreateGroup, IInv, TypeOK
  <2>3. CASE CanCreate
    <3>1. PICK groups : groups = [grp EXCEPT ![next_gid] = NoGroup]
      OBVIOUS
    <3>2. /\ groups \in [Gid -> GroupType] /\ groups[next_gid] = NoGroup
          /\ \A k \in Gid : k # next_gid => groups[k] = grp[k]
      BY <1>1, <2>1, <3>1
    <3>3. next_pid \notin groups[next_gid].members
      BY <3>2 DEF NoGroup
    <3>4. PICK step \in SpawnSteps, h \in Host :
            LET left == FailedSpawn(step, Root, groups, next_gid, h)
                empty == left.grp[next_gid].members = {}
            IN  /\ ForkedBefore(step) => Forkable(h)
                /\ state' = left.state /\ info' = left.info /\ kern' = left.kern
                /\ grp' = IF empty THEN [left.grp EXCEPT ![next_gid] = NoGroup] ELSE left.grp
                /\ gids' = IF empty THEN gids ELSE gids \cup {next_gid}
      BY <1>4, <2>3, <3>1 DEF EmblaSpawnFails
    <3>5. PICK left : left = FailedSpawn(step, Root, groups, next_gid, h)
      OBVIOUS
    <3>6. /\ left.state = state /\ left.kern = kern
          /\ left.info = [info EXCEPT ![next_pid] = NoInfo]
          /\ left.grp \in [Gid -> GroupType]
          /\ \A k \in Gid : k # next_gid => left.grp[k] = groups[k]
          /\ left.grp[next_gid].members = groups[next_gid].members
      <4>1. /\ Root \in {Root} \cup Pid /\ step \in SpawnSteps /\ h \in Host
            /\ ForkedBefore(step) => Forkable(h)
        BY <3>4
      <4>2. Restored(FailedSpawn(step, Root, groups, next_gid, h), groups, next_gid)
        BY <2>1, <2>3, <3>2, <3>3, <4>1, RollbackRestores
      <4> QED BY <3>5, <4>2 DEF Restored
    <3>7. left.grp[next_gid].members = {}
      BY <3>2, <3>6 DEF NoGroup
    <3>8. /\ UNCHANGED <<state, gids, kern>> /\ info' = [info EXCEPT ![next_pid] = NoInfo]
          /\ grp' = [left.grp EXCEPT ![next_gid] = NoGroup]
      BY <3>4, <3>5, <3>6, <3>7
    <3>9. grp' \in [Gid -> GroupType] /\ \A g \in gids : grp'[g] = grp[g]
      BY <1>1, <2>1, <3>2, <3>6, <3>8 DEF IInv, TypeOK
    <3>10. /\ UNCHANGED <<queue, current, estate, pc, outcome, strays>>
           /\ next_pid' = next_pid + 1 /\ next_gid' = next_gid + 1
      BY <1>4, <2>3 DEF EmblaSpawnFails
    <3>11. next_pid' \in next_pid .. MaxPid + 1 /\ next_gid' \in next_gid .. MaxGid + 1
      BY <1>1, <1>2, <2>1, <2>3, <3>10 DEF Pid, Gid
    <3> QED BY <1>3, <2>3, <3>8, <3>9, <3>10, <3>11
  <2> QED BY <2>2, <2>3
<1>5. ASSUME NEW q \in Pid, EmblaSpawnChildFails(q)
      PROVE  /\ UNCHANGED <<state, gids, kern, queue, current, estate, pc, outcome, strays>>
             /\ info' \in [Pid -> InfoType] /\ \A p \in Table : info'[p] = info[p]
             /\ grp' \in [Gid -> GroupType] /\ \A g \in gids : grp'[g] = grp[g]
             /\ next_pid' \in next_pid .. MaxPid + 1 /\ next_gid' \in next_gid .. MaxGid + 1
  <2>1. PICK g : g = info[q].group
    OBVIOUS
  <2>2. g \in gids /\ g \in Gid /\ CanCreate
    BY <1>5, <2>1 DEF EmblaSpawnChildFails, IInv, TypeOK
  <2>3. next_pid \notin grp[g].members
    BY <1>2, <2>2 DEF IInv, GroupsConsistent, InGroup
  <2>4. PICK step \in SpawnSteps, h \in Host :
          LET left == FailedSpawn(step, q, grp, g, h) IN
          /\ ForkedBefore(step) => Forkable(h)
          /\ state' = left.state /\ info' = left.info /\ grp' = left.grp /\ kern' = left.kern
    BY <1>5, <2>1 DEF EmblaSpawnChildFails
  <2>5. PICK left : left = FailedSpawn(step, q, grp, g, h)
    OBVIOUS
  <2>6. /\ left.state = state /\ left.kern = kern
        /\ left.info = [info EXCEPT ![next_pid] = NoInfo]
        /\ left.grp \in [Gid -> GroupType]
        /\ \A k \in Gid : k # g \/ grp[k].host # None => left.grp[k] = grp[k]
    <3>1. /\ q \in {Root} \cup Pid /\ step \in SpawnSteps /\ h \in Host
          /\ ForkedBefore(step) => Forkable(h)
      BY <2>4
    <3>2. Restored(FailedSpawn(step, q, grp, g, h), grp, g)
      BY <1>1, <2>2, <2>3, <3>1, RollbackRestores
    <3> QED BY <2>5, <3>2 DEF Restored
  <2>7. \A k \in gids : k \in Gid /\ grp[k].host # None
    BY NoneAssumption DEF IInv, TypeOK, HostGroupsMatch
  <2>8. /\ UNCHANGED <<state, kern>> /\ info' = [info EXCEPT ![next_pid] = NoInfo]
        /\ grp' \in [Gid -> GroupType] /\ \A k \in gids : grp'[k] = grp[k]
    BY <2>4, <2>5, <2>6, <2>7
  <2>9. /\ UNCHANGED <<gids, next_gid, queue, current, estate, pc, outcome, strays>>
        /\ next_pid' = next_pid + 1
    BY <1>5 DEF EmblaSpawnChildFails
  <2>10. next_pid' \in next_pid .. MaxPid + 1 /\ next_gid' \in next_gid .. MaxGid + 1
    BY <1>1, <1>2, <2>2, <2>9 DEF Pid
  <2> QED BY <1>3, <2>2, <2>8, <2>9, <2>10
<1> QED BY <1>4, <1>5

\* A signal moves children only.
LEMMA DeliverMoves ==
  ASSUME IInv, NEW targets, NEW sig, NEW s \in Status, Deliver(targets, sig, s)
  PROVE  KernelMoves
<1>1. ASSUME NEW h \in Host
      PROVE  LET c == Signalled(kern[h], sig, s) IN
             /\ c \in ChildType
             /\ c.life = "none" <=> kern[h].life = "none"
             /\ c.pgid = kern[h].pgid
             /\ kern[h].life = "none" => c = kern[h]
  <2>1. kern[h] \in ChildType
    BY DEF IInv, TypeOK
  <2> QED BY <2>1 DEF Signalled, ChildType
<1> QED BY <1>1 DEF Deliver, KernelMoves, IInv, TypeOK

-----------------------------------------------------------------------------
(* Dispatching.                                                            *)

\* The head of the queue becomes current and RUNNING.
LEMMA DispatchKeeps ==
  ASSUME IInv, RunType', Sched!DispatchOK,
         UNCHANGED <<info, next_pid, grp, gids, next_gid, kern>>
  PROVE  IInv'
<1> USE DEF IInv
<1> DEFINE p == Head(queue)
<1>1. /\ queue # <<>> /\ queue \in Seq(Pid) /\ Len(queue) > 0
      /\ p = queue[1] /\ p \in Pid /\ p \in Live /\ p # None
  BY DEF TypeOK, Sched!DispatchOK, SchedulerTracksLive, Pid
<1>2. /\ current = None /\ current' = p /\ queue' = Tail(queue)
      /\ state' = [state EXCEPT ![p] = "RUNNING"]
  BY DEF Sched!DispatchOK
<1>3. /\ Len(queue') = Len(queue) - 1
      /\ \A i \in 1 .. Len(queue') : queue'[i] = queue[i + 1]
      /\ queue' \in Seq(Pid)
  BY <1>1, <1>2
<1> HIDE DEF p
<1>4. Table' = Table /\ Live' = Live
  BY <1>1, <1>2 DEF Table, Live, TypeOK
<1>5. TypeOK'
  BY <1>1, <1>2, <1>3 DEF TypeOK, RunType, States
<1>6. SchedulerTracksLive'
  <2>1. \A q \in Live : q = p \/ \E i \in 1 .. Len(queue') : queue'[i] = q
    <3> SUFFICES ASSUME NEW q \in Live, q # p
                 PROVE  \E i \in 1 .. Len(queue') : queue'[i] = q
      OBVIOUS
    <3>1. q # current
      BY <1>2 DEF Live, Table, Pid
    <3>2. PICK i \in 1 .. Len(queue) : queue[i] = q
      BY <3>1 DEF SchedulerTracksLive, Sched!Occurs
    <3>3. i - 1 \in 1 .. Len(queue')
      BY <1>1, <1>3, <3>2
    <3>4. queue'[i - 1] = q
      BY <1>3, <3>2, <3>3
    <3> QED BY <3>3, <3>4
  <2>2. \A i \in 1 .. Len(queue') : queue'[i] \in Live /\ queue'[i] # p
    BY <1>1, <1>3 DEF SchedulerTracksLive
  <2>3. \A i, j \in 1 .. Len(queue') : queue'[i] = queue'[j] => i = j
    BY <1>1, <1>3 DEF SchedulerTracksLive
  <2> QED BY <1>1, <1>2, <1>4, <2>1, <2>2, <2>3 DEF SchedulerTracksLive, Sched!Occurs
<1>7. HostsTracked'
  BY <1>4 DEF HostsTracked
<1>8. GroupsConsistent'
  BY <1>4 DEF GroupsConsistent, InGroup
<1>9. IdsFresh'
  BY <1>1, <1>2 DEF IdsFresh, TypeOK, Live, Table
<1>10. HostGroupsMatch'
  BY <1>4 DEF HostGroupsMatch, NoChild
<1>11. ~DeadParents => ParentsAlive'
  BY <1>4 DEF ParentsAlive
<1> QED BY <1>5, <1>6, <1>7, <1>8, <1>9, <1>10, <1>11

\* The head of the queue goes to its back.
LEMMA RotateKeeps ==
  ASSUME IInv, RunType', Sched!DispatchFails,
         UNCHANGED <<info, next_pid, grp, gids, next_gid, kern>>
  PROVE  IInv'
<1> USE DEF IInv
<1> DEFINE p == Head(queue)
<1>1. /\ queue # <<>> /\ queue \in Seq(Pid) /\ Len(queue) > 0
      /\ p = queue[1] /\ p \in Pid
  BY DEF TypeOK, Sched!DispatchFails
<1>2. /\ queue' = Append(Tail(queue), p)
      /\ UNCHANGED <<current, state>>
  BY DEF Sched!DispatchFails
<1>3. /\ Len(queue') = Len(queue)
      /\ \A i \in 1 .. Len(queue) - 1 : queue'[i] = queue[i + 1]
      /\ queue'[Len(queue)] = queue[1]
      /\ queue' \in Seq(Pid)
  BY <1>1, <1>2
<1> HIDE DEF p
<1>5. TypeOK'
  BY <1>2, <1>3 DEF TypeOK, RunType
<1>6. SchedulerTracksLive'
  <2>1. \A i \in 1 .. Len(queue) :
           queue'[i] = queue[IF i = Len(queue) THEN 1 ELSE i + 1]
    BY <1>1, <1>3
  <2>2. \A q \in Live : q = current \/ \E i \in 1 .. Len(queue') : queue'[i] = q
    <3> SUFFICES ASSUME NEW q \in Live, q # current
                 PROVE  \E i \in 1 .. Len(queue') : queue'[i] = q
      OBVIOUS
    <3>1. PICK i \in 1 .. Len(queue) : queue[i] = q
      BY DEF SchedulerTracksLive, Sched!Occurs
    <3>2. queue'[IF i = 1 THEN Len(queue) ELSE i - 1] = q
      BY <1>1, <1>3, <3>1
    <3> QED BY <1>1, <1>3, <3>1, <3>2
  <2>3. \A i \in 1 .. Len(queue') : queue'[i] \in Live /\ queue'[i] # current
    BY <1>1, <1>3, <2>1 DEF SchedulerTracksLive
  <2>4. \A i, j \in 1 .. Len(queue') : queue'[i] = queue'[j] => i = j
    BY <1>1, <1>3, <2>1 DEF SchedulerTracksLive
  <2> QED BY <1>2, SameTable, <2>2, <2>3, <2>4 DEF SchedulerTracksLive, Sched!Occurs
<1>7. HostsTracked'
  BY <1>2, SameTable DEF HostsTracked
<1>8. GroupsConsistent'
  BY <1>2, SameTable DEF GroupsConsistent, InGroup
<1>9. IdsFresh'
  BY <1>2 DEF IdsFresh
<1>10. HostGroupsMatch'
  BY <1>2, SameTable DEF HostGroupsMatch, NoChild
<1>11. ~DeadParents => ParentsAlive'
  BY <1>2, SameTable DEF ParentsAlive
<1> QED BY <1>5, <1>6, <1>7, <1>8, <1>9, <1>10, <1>11

-----------------------------------------------------------------------------
(* Reports of children.                                                    *)

\* Removing position i of a sequence.
LEMMA WithoutFacts ==
  ASSUME NEW S, NEW q \in Seq(S), NEW i \in 1 .. Len(q)
  PROVE  /\ Sched!Without(q, i) \in Seq(S)
         /\ Len(Sched!Without(q, i)) = Len(q) - 1
         /\ \A j \in 1 .. Len(q) - 1 :
              Sched!Without(q, i)[j] = IF j < i THEN q[j] ELSE q[j + 1]
<1> DEFINE w == [j \in 1 .. Len(q) - 1 |-> IF j < i THEN q[j] ELSE q[j + 1]]
<1>1. Len(q) \in Nat /\ Len(q) - 1 \in Nat
  OBVIOUS
<1>2. \A j \in 1 .. Len(q) - 1 : w[j] \in S
  BY <1>1
<1>3. w \in Seq(S) /\ Len(w) = Len(q) - 1
  BY <1>1, <1>2
<1> QED BY <1>3 DEF Sched!Without

\* scheduler_remove takes a live process out of the scheduler.
LEMMA RemoveFacts ==
  ASSUME IInv, NEW p \in Live, SchedulerRemove(p)
  PROVE  /\ queue' \in Seq(Pid)
         /\ current' \in Pid \cup {None} /\ current' # p
         /\ \A q \in Live \ {p} : q = current' \/ \E i \in 1 .. Len(queue') : queue'[i] = q
         /\ \A i \in 1 .. Len(queue') : queue'[i] \in Live \ {p} /\ queue'[i] # current'
         /\ current' # None => current' \in Live
         /\ \A i, j \in 1 .. Len(queue') : queue'[i] = queue'[j] => i = j
<1> USE DEF IInv
<1>0. p # None /\ queue \in Seq(Pid) /\ None \notin Live
  BY DEF Live, Table, Pid, TypeOK
<1>1. CASE current = p /\ current' = None /\ UNCHANGED queue
  BY <1>0, <1>1 DEF SchedulerTracksLive, Sched!Occurs
<1>2. CASE /\ current # p /\ Sched!Occurs(queue, p)
           /\ queue' = Sched!Without(queue, Sched!First(queue, p))
           /\ UNCHANGED current
  <2> DEFINE k == Sched!First(queue, p)
  <2>1. k \in 1 .. Len(queue) /\ queue[k] = p
    <3>1. PICK i \in 1 .. Len(queue) : queue[i] = p
      BY <1>2 DEF Sched!Occurs
    <3>2. \A j \in 1 .. i - 1 : queue[j] # p
      BY <1>0, <3>1 DEF SchedulerTracksLive
    <3> QED BY <3>1, <3>2 DEF Sched!First
  <2> HIDE DEF k
  <2>2. /\ queue' \in Seq(Pid) /\ Len(queue') = Len(queue) - 1
        /\ \A j \in 1 .. Len(queue) - 1 : queue'[j] = IF j < k THEN queue[j] ELSE queue[j + 1]
    BY <1>0, <1>2, <2>1, WithoutFacts DEF k
  <2>3. ASSUME NEW q \in Live \ {p}, q # current
        PROVE  \E i \in 1 .. Len(queue') : queue'[i] = q
    <3>1. PICK i \in 1 .. Len(queue) : queue[i] = q
      BY <2>3 DEF SchedulerTracksLive, Sched!Occurs
    <3>2. i # k
      BY <2>1, <3>1
    <3>3. CASE i < k
      BY <1>0, <2>1, <2>2, <3>1, <3>3
    <3>4. CASE i > k
      <4>1. i - 1 \in 1 .. Len(queue') /\ queue'[i - 1] = q
        BY <1>0, <2>1, <2>2, <3>1, <3>4
      <4> QED BY <4>1
    <3> QED BY <1>0, <2>1, <3>1, <3>2, <3>3, <3>4
  <2>4. \A i \in 1 .. Len(queue') : queue'[i] \in Live \ {p} /\ queue'[i] # current'
    BY <1>0, <1>2, <2>1, <2>2 DEF SchedulerTracksLive
  <2>5. \A i, j \in 1 .. Len(queue') : queue'[i] = queue'[j] => i = j
    BY <1>0, <2>1, <2>2 DEF SchedulerTracksLive
  <2> QED BY <1>2, <2>2, <2>3, <2>4, <2>5 DEF SchedulerTracksLive, TypeOK
<1> QED BY <1>1, <1>2 DEF SchedulerRemove

\* A child ended.
LEMMA ExitKeeps ==
  ASSUME IInv, NEW h \in Host, NEW p \in Pid, PollExit(h, p)
  PROVE  IInv'
<1> USE DEF IInv
<1>1. /\ p \in Live /\ info[p].host = h /\ kern[h].life = "zombie"
      /\ kern[h].status \in Status \cup {None}
  BY DEF PollExit, Owner, Report, Live, Table, CanTransition, Transitions, TypeOK, ChildType
<1>2. /\ state' = [state EXCEPT ![p] = "TERMINATED"]
      /\ kern' = [kern EXCEPT ![h] = NoChild]
      /\ info' = Ended(p, kern[h].status)
      /\ SchedulerRemove(p)
      /\ UNCHANGED <<next_pid, grp, gids, next_gid>>
  BY <1>1 DEF PollExit, Collect, groupvars, TypeOK
<1>3. Table' = Table /\ Live' = Live \ {p}
  BY <1>1, <1>2 DEF Table, Live, TypeOK
<1>4. ASSUME NEW q \in Pid
      PROVE  /\ info'[q] \in InfoType
             /\ info'[q].host = info[q].host /\ info'[q].group = info[q].group
             /\ info'[q].parent = IF q \in Children(p) THEN Root ELSE info[q].parent
  <2>1. info[q] \in InfoType
    BY DEF TypeOK
  <2> QED BY <1>1, <1>2, <2>1 DEF Ended, InfoType
<1>5. TypeOK'
  <2>1. info' \in [Pid -> InfoType]
    BY <1>2, <1>4 DEF Ended
  <2>2. kern' \in [Host -> ChildType]
    BY <1>2 DEF TypeOK, NoChild, ChildType
  <2>3. state' \in [Pid -> States \cup {"FREE"}]
    BY <1>2 DEF TypeOK, States
  <2>4. RunType'
    BY DEF PollExit, TypeOK, RunType
  <2> QED BY <1>1, <1>2, <2>1, <2>2, <2>3, <2>4, RemoveFacts DEF TypeOK, RunType
<1>6. SchedulerTracksLive'
  BY <1>1, <1>2, <1>3, RemoveFacts DEF SchedulerTracksLive, Sched!Occurs
<1>7. HostsTracked'
  <2>1. \A k \in Host \ {h} : kern'[k] = kern[k]
    BY <1>2 DEF TypeOK
  <2>2. kern'[h].life = "none"
    BY <1>2 DEF TypeOK, NoChild
  <2>3. \A q \in Live \ {p} : info[q].host # h
    BY <1>1 DEF HostsTracked, Live
  <2> QED BY <1>1, <1>3, <1>4, <2>1, <2>2, <2>3 DEF HostsTracked, Live, Table
<1>8. GroupsConsistent'
  BY <1>2, <1>3, <1>4 DEF GroupsConsistent, InGroup, Table
<1>9. IdsFresh'
  BY <1>1, <1>2 DEF IdsFresh, TypeOK, Live, Table
<1>10. HostGroupsMatch'
  <2>1. \A k \in Host \ {h} : kern'[k] = kern[k]
    BY <1>2 DEF TypeOK
  <2>2. kern'[h] = NoChild
    BY <1>2 DEF TypeOK
  <2>3. \A q \in Live \ {p} : info[q].host \in Host \ {h}
    BY <1>1 DEF HostsTracked, Live
  <2>4. NoChild' = NoChild
    BY DEF NoChild
  <2> QED BY <1>2, <1>3, <1>4, <2>1, <2>2, <2>3, <2>4 DEF HostGroupsMatch, Live, Table
<1>11. ~DeadParents => ParentsAlive'
  <2> SUFFICES ASSUME ~DeadParents, NEW q \in Table
               PROVE  info'[q].parent \in {Root} \cup (Live \ {p})
    BY <1>3 DEF ParentsAlive
  <2>1. info[q].parent \in {Root} \cup Live
    BY DEF ParentsAlive
  <2> QED BY <1>4, <2>1 DEF Children, Table
<1> QED BY <1>5, <1>6, <1>7, <1>8, <1>9, <1>10, <1>11

\* A child stopped or continued and its record follows.
LEMMA JobControlKeeps ==
  ASSUME IInv, NEW h \in Host, NEW p \in Pid, PollJobControl(h, p)
  PROVE  IInv'
<1> USE DEF IInv
<1>1. /\ state' = [state EXCEPT ![p] = Asked(Report(h))]
      /\ p \in Live /\ Asked(Report(h)) \in {"STOPPED", "RUNNING"}
  BY DEF PollJobControl, Owner, Asked, CanTransition, Transitions, Live, Table
<1>2. UNCHANGED <<info, next_pid, grp, gids, next_gid, queue, current>>
  BY DEF PollJobControl, groupvars, schedvars
<1>3. KernelMoves
  <2>1. kern[h].life # "none" /\ kern[h].life # "zombie"
    BY DEF PollJobControl, Report, HostGroupsMatch, NoChild
  <2>2. kern[h] \in ChildType
    BY DEF TypeOK
  <2>3. kern' = [kern EXCEPT ![h] = [kern[h] EXCEPT !.event = "none"]]
    BY <2>1 DEF PollJobControl, Collect, TypeOK
  <2> QED BY <2>1, <2>2, <2>3 DEF KernelMoves, TypeOK, ChildType
<1>4. RunType'
  BY DEF PollJobControl, RunType, TypeOK
<1>5. Table' = Table /\ Live' = Live
  BY <1>1 DEF Table, Live, TypeOK
<1>6. TypeOK'
  BY <1>1, <1>2, <1>3, <1>4 DEF TypeOK, RunType, KernelMoves, States
<1>7. SchedulerTracksLive'
  BY <1>2, <1>5 DEF SchedulerTracksLive, Sched!Occurs
<1>8. HostsTracked'
  BY <1>2, <1>3, <1>5 DEF HostsTracked, KernelMoves
<1>9. GroupsConsistent'
  BY <1>2, <1>5 DEF GroupsConsistent, InGroup
<1>10. IdsFresh'
  BY <1>1, <1>2 DEF IdsFresh, TypeOK, Live, Table
<1>11. HostGroupsMatch'
  <2>1. \A q \in Live : kern'[info'[q].host].pgid = grp'[info'[q].group].host
    BY <1>2, <1>3 DEF HostGroupsMatch, KernelMoves, HostsTracked
  <2> QED BY <1>2, <1>3, <1>5, <2>1 DEF HostGroupsMatch, KernelMoves, NoChild
<1>12. ~DeadParents => ParentsAlive'
  BY <1>2, <1>5 DEF ParentsAlive
<1> QED BY <1>6, <1>7, <1>8, <1>9, <1>10, <1>11, <1>12

-----------------------------------------------------------------------------
(* Spawning and reaping.                                                   *)

\* A new record, queued, with a host process of its own in the group g, which
\* the step creates or extends.
SpawnInto(parent, g, h, pgid) ==
    /\ next_pid <= MaxPid
    /\ Forkable(h)
    /\ Spawned(parent, g, h, pgid)
    /\ ~DeadParents => parent \in {Root} \cup Live
    /\ grp' \in [Gid -> GroupType]
    /\ gids' = gids \cup {g}
    /\ next_gid' \in 1 .. MaxGid + 1
    /\ \A k \in gids' : k < next_gid'
    /\ grp'[g].host = pgid
    /\ \A k \in gids : grp'[k].host = pgid => k = g
    /\ grp'[g].members = {q \in Table : info[q].group = g} \cup {next_pid}
    /\ \A k \in gids \ {g} : grp'[k] = grp[k]
    /\ g \in gids => grp'[g].host = grp[g].host

\* Such a step keeps the invariant.
LEMMA SpawnKeeps ==
  ASSUME IInv, NEW parent \in {Root} \cup Pid, NEW g \in Gid, NEW h \in Host,
         NEW pgid \in Host, SpawnInto(parent, g, h, pgid)
  PROVE  IInv'
<1> USE DEF IInv
<1> DEFINE p == next_pid
<1>1. /\ p \in Pid /\ p \notin Table /\ state[p] = "FREE" /\ p # None
      /\ RunType' /\ current' = current
      /\ state' = [state EXCEPT ![p] = "READY"]
      /\ info' = [info EXCEPT ![p] = [parent |-> parent, group |-> g,
                                      host |-> h, status |-> None]]
      /\ queue' = Append(queue, p)
      /\ kern' = [kern EXCEPT ![h] = Born(pgid)]
      /\ next_pid' = p + 1
  BY DEF SpawnInto, Spawned, runvars, TypeOK, RunType, IdsFresh, Table, Pid
<1>0. /\ grp' \in [Gid -> GroupType] /\ gids' = gids \cup {g}
      /\ next_gid' \in 1 .. MaxGid + 1 /\ \A k \in gids' : k < next_gid'
      /\ grp'[g].host = pgid /\ \A k \in gids : grp'[k].host = pgid => k = g
      /\ \A k \in gids \ {g} : grp'[k] = grp[k]
      /\ g \in gids => grp'[g].host = grp[g].host
      /\ \A q \in Table : info[q].group \in gids
  BY DEF SpawnInto, GroupsConsistent
<1> HIDE DEF p
<1>2. Table' = Table \cup {p} /\ Live' = Live \cup {p} /\ p \notin Live
  BY <1>1 DEF Table, Live, TypeOK
<1>3. /\ \A q \in Pid \ {p} : info'[q] = info[q]
      /\ info'[p].parent = parent /\ info'[p].group = g /\ info'[p].host = h
      /\ info' \in [Pid -> InfoType]
  BY <1>1 DEF TypeOK, InfoType
<1>4. /\ \A k \in Host \ {h} : kern'[k] = kern[k]
      /\ kern'[h].life = "run" /\ kern'[h].pgid = pgid
      /\ kern' \in [Host -> ChildType]
  BY <1>1 DEF TypeOK, Born, ChildType
<1>5. /\ queue' \in Seq(Pid) /\ Len(queue') = Len(queue) + 1
      /\ queue'[Len(queue) + 1] = p
      /\ \A i \in 1 .. Len(queue) : queue'[i] = queue[i]
  BY <1>1 DEF TypeOK
<1>6. TypeOK'
  BY <1>0, <1>1, <1>3, <1>4, <1>5 DEF TypeOK, RunType, States, Pid
<1>7. SchedulerTracksLive'
  <2>1. Len(queue) \in Nat
    BY DEF TypeOK
  <2>2. ASSUME NEW q \in Live \cup {p}
        PROVE  q = current \/ \E i \in 1 .. Len(queue') : queue'[i] = q
    <3>1. CASE q = p
      BY <1>5, <2>1, <3>1
    <3>2. CASE q \in Live
      BY <1>5, <2>1, <3>2 DEF SchedulerTracksLive, Sched!Occurs
    <3> QED BY <2>2, <3>1, <3>2
  <2>3. p # current
    BY <1>1, <1>2 DEF SchedulerTracksLive
  <2>4. \A i \in 1 .. Len(queue') : queue'[i] \in Live \cup {p} /\ queue'[i] # current
    BY <1>5, <2>1, <2>3 DEF SchedulerTracksLive
  <2>5. \A i, j \in 1 .. Len(queue') : queue'[i] = queue'[j] => i = j
    BY <1>2, <1>5, <2>1 DEF SchedulerTracksLive
  <2> QED BY <1>1, <1>2, <2>2, <2>4, <2>5 DEF SchedulerTracksLive, Sched!Occurs
<1>8. HostsTracked'
  <2>1. \A q \in Table : info[q].host # h
    BY DEF Forkable, SpawnInto
  <2>2. \A q \in Table : info'[q] = info[q] /\ q # p
    BY <1>1, <1>3 DEF Table
  <2>3. \A q \in Live : q \in Table
    BY DEF Live
  <2> QED BY <1>2, <1>3, <1>4, <2>1, <2>2, <2>3 DEF HostsTracked
<1>9. GroupsConsistent'
  <2>1. \A q \in Table : info'[q].group = info[q].group /\ q # p
    BY <1>1, <1>3 DEF Table
  <2>2. \A k \in gids \ {g} : grp'[k].members = {q \in Table' : info'[q].group = k}
    BY <1>0, <1>2, <1>3, <2>1 DEF GroupsConsistent, InGroup
  <2>3. grp'[g].members = {q \in Table' : info'[q].group = g}
    BY <1>2, <1>3, <2>1 DEF p, SpawnInto
  <2>4. \A k \in gids \ {g} : grp'[k].members # {}
    BY <1>0 DEF GroupsConsistent, InGroup
  <2>5. grp'[g].members # {}
    BY DEF SpawnInto
  <2> QED BY <1>0, <1>2, <1>3, <2>1, <2>2, <2>3, <2>4, <2>5 DEF GroupsConsistent, InGroup
<1>10. IdsFresh'
  <2>1. \A q \in Pid : q >= next_pid' => state'[q] = "FREE"
    BY <1>1 DEF IdsFresh, TypeOK, Pid, p
  <2>2. \A q \in Pid : state'[q] # "CREATED"
    BY <1>1 DEF IdsFresh, TypeOK
  <2> QED BY <1>0, <2>1, <2>2 DEF IdsFresh
<1>11. HostGroupsMatch'
  <2>1. \A k \in gids \cup {g} : grp'[k].host \in Host
    BY <1>0 DEF HostGroupsMatch
  <2>2. \A k, m \in gids \cup {g} : grp'[k].host = grp'[m].host => k = m
    BY <1>0 DEF HostGroupsMatch
  <2>3. \A q \in Live : /\ info'[q] = info[q] /\ info[q].host \in Host \ {h}
                        /\ info[q].group \in gids
    <3>1. \A q \in Live : q \in Table /\ q \in Pid \ {p}
      BY <1>1 DEF Live, Table
    <3> QED BY <1>0, <1>3, <3>1 DEF HostsTracked, Forkable, SpawnInto
  <2>4. \A q \in Live : kern'[info'[q].host].pgid = grp'[info'[q].group].host
    <3> SUFFICES ASSUME NEW q \in Live
                 PROVE  kern[info[q].host].pgid = grp'[info[q].group].host
      BY <1>4, <2>3
    <3>1. kern[info[q].host].pgid = grp[info[q].group].host
      BY DEF HostGroupsMatch
    <3>2. grp'[info[q].group].host = grp[info[q].group].host
      BY <1>0, <2>3
    <3> QED BY <3>1, <3>2
  <2>5. kern'[info'[p].host].pgid = grp'[info'[p].group].host
    BY <1>0, <1>3, <1>4
  <2>6. \A k \in Host : kern'[k].life = "none" => kern'[k] = NoChild
    BY <1>4 DEF HostGroupsMatch
  <2> QED BY <1>0, <1>2, <2>1, <2>2, <2>4, <2>5, <2>6 DEF HostGroupsMatch, NoChild
<1>12. ~DeadParents => ParentsAlive'
  BY <1>1, <1>2, <1>3 DEF ParentsAlive, Table, SpawnInto
<1> QED BY <1>6, <1>7, <1>8, <1>9, <1>10, <1>11, <1>12

\* Terminated records leave the table, and the groups they emptied with them.
LEMMA ReapKeeps ==
  ASSUME IInv, RunType', NEW R, R \subseteq Table \ Live, Reap(R),
         UNCHANGED <<queue, current, kern>>
  PROVE  IInv'
<1> USE DEF IInv
<1> DEFINE emptied == {g \in gids : InGroup(g) # {} /\ InGroup(g) \subseteq R}
<1>1. /\ state' = [p \in Pid |-> IF p \in R THEN "FREE" ELSE state[p]]
      /\ info' = [p \in Pid |-> IF p \in R THEN NoInfo ELSE info[p]]
      /\ grp' = [g \in Gid |-> IF g \in emptied THEN NoGroup
                               ELSE [grp[g] EXCEPT !.members = @ \ R]]
      /\ gids' = gids \ emptied
      /\ UNCHANGED <<next_pid, next_gid>>
  BY DEF Reap
<1>2. Table' = Table \ R /\ Live' = Live
  BY <1>1 DEF Table, Live
<1>3. \A p \in Table \ R : info'[p] = info[p]
  BY <1>1 DEF Table
<1>4. \A g \in gids' : /\ g \in gids /\ g \in Gid /\ grp'[g].host = grp[g].host
                       /\ grp'[g].members = grp[g].members \ R
                       /\ grp'[g].members # {}
  <2> SUFFICES ASSUME NEW g \in gids'
               PROVE  /\ g \in gids /\ g \in Gid /\ grp'[g].host = grp[g].host
                      /\ grp'[g].members = grp[g].members \ R
                      /\ grp'[g].members # {}
    OBVIOUS
  <2>1. g \in gids /\ g \in Gid /\ g \notin emptied
    BY <1>1 DEF TypeOK
  <2>2. grp[g] \in GroupType
    BY <2>1 DEF TypeOK
  <2>3. grp'[g] = [grp[g] EXCEPT !.members = @ \ R]
    BY <1>1, <2>1
  <2>4. grp[g].members # {} /\ ~(grp[g].members \subseteq R)
    BY <2>1 DEF GroupsConsistent, InGroup
  <2> QED BY <2>1, <2>2, <2>3, <2>4 DEF GroupType
<1> HIDE DEF emptied
<1>5. TypeOK'
  <2>1. state' \in [Pid -> States \cup {"FREE"}]
    BY <1>1 DEF TypeOK
  <2>2. info' \in [Pid -> InfoType]
    BY <1>1 DEF TypeOK, NoInfo, InfoType, Root
  <2>3. grp' \in [Gid -> GroupType]
    <3>1. NoGroup \in GroupType
      BY DEF NoGroup, GroupType
    <3>2. \A g \in Gid : [grp[g] EXCEPT !.members = @ \ R] \in GroupType
      <4> SUFFICES ASSUME NEW g \in Gid
                   PROVE  [grp[g] EXCEPT !.members = @ \ R] \in GroupType
        OBVIOUS
      <4>1. grp[g] \in GroupType
        BY DEF TypeOK
      <4>2. (grp[g].members \ R) \in SUBSET Pid
        BY <4>1 DEF GroupType
      <4> QED BY <4>1, <4>2 DEF GroupType
    <3> QED BY <1>1, <3>1, <3>2
  <2> QED BY <1>1, <2>1, <2>2, <2>3 DEF TypeOK, RunType
<1>6. SchedulerTracksLive'
  BY <1>2 DEF SchedulerTracksLive, Sched!Occurs
<1>7. HostsTracked'
  <2>1. \A p \in Live : p \in Table \ R
    BY DEF Live
  <2> QED BY <1>2, <1>3, <2>1 DEF HostsTracked
<1>8. GroupsConsistent'
  <2>1. \A g \in gids' : grp'[g].members = {p \in Table' : info'[p].group = g}
    BY <1>2, <1>3, <1>4 DEF GroupsConsistent, InGroup
  <2>2. ASSUME NEW p \in Table \ R PROVE info[p].group \in gids'
    <3>1. info[p].group \in gids /\ p \in InGroup(info[p].group)
      BY DEF GroupsConsistent
    <3> QED BY <1>1, <2>2, <3>1 DEF emptied
  <2> QED BY <1>2, <1>3, <1>4, <2>1, <2>2 DEF GroupsConsistent, InGroup
<1>9. IdsFresh'
  BY <1>1 DEF IdsFresh
<1>10. HostGroupsMatch'
  <2>1. \A p \in Live : p \in Table \ R /\ info[p].group \in gids'
    BY <1>2, <1>3, <1>8 DEF GroupsConsistent, Live
  <2>2. \A p \in Live : kern'[info'[p].host].pgid = grp'[info'[p].group].host
    BY <1>3, <1>4, <2>1 DEF HostGroupsMatch
  <2> QED BY <1>2, <1>4, <2>2 DEF HostGroupsMatch, NoChild
<1>11. ~DeadParents => ParentsAlive'
  BY <1>2, <1>3 DEF ParentsAlive
<1> QED BY <1>5, <1>6, <1>7, <1>8, <1>9, <1>10, <1>11

-----------------------------------------------------------------------------
(* The invariant.                                                          *)

\* A fresh runtime satisfies the invariant.
LEMMA InitInv == Init => IInv
<1> SUFFICES ASSUME Init PROVE IInv
  OBVIOUS
<1>1. Table = {} /\ Live = {}
  BY DEF Init, Table, Live
<1>2. TypeOK
  <2>1. NoInfo \in InfoType /\ NoGroup \in GroupType /\ NoChild \in ChildType
    BY DEF NoInfo, InfoType, NoGroup, GroupType, NoChild, ChildType, Root
  <2> QED BY <2>1 DEF Init, TypeOK
<1>3. SchedulerTracksLive
  BY <1>1 DEF Init, SchedulerTracksLive, Sched!Occurs
<1>4. HostsTracked
  BY <1>1 DEF Init, HostsTracked, NoChild
<1>5. GroupsConsistent
  BY <1>1 DEF Init, GroupsConsistent
<1>6. IdsFresh
  BY DEF Init, IdsFresh
<1>7. HostGroupsMatch
  BY <1>1 DEF Init, HostGroupsMatch
<1>8. ParentsAlive
  BY <1>1 DEF ParentsAlive
<1> QED BY <1>2, <1>3, <1>4, <1>5, <1>6, <1>7, <1>8 DEF IInv

\* embla_spawn and embla_spawn_child.
LEMMA SpawnStep ==
  ASSUME IInv,
         \/ \E h \in Host : EmblaSpawn(h)
         \/ \E q \in Pid, h \in Host : EmblaSpawnChild(q, h)
  PROVE  IInv'
<1>1. ASSUME NEW h \in Host, EmblaSpawn(h) PROVE IInv'
  <2>0. PICK g \in Gid : g = next_gid
    BY <1>1 DEF EmblaSpawn, CanCreateGroup, IInv, TypeOK, Gid
  <2>1. /\ g \in Gid /\ g \notin gids /\ next_pid <= MaxPid /\ Forkable(h)
        /\ next_pid \in Pid
        /\ Spawned(Root, g, h, h)
        /\ grp' = [grp EXCEPT ![g] = [members |-> {next_pid}, host |-> h, cap |-> None]]
        /\ gids' = gids \cup {g} /\ next_gid' = g + 1
    BY <1>1, <2>0 DEF EmblaSpawn, CanCreateGroup, CanCreate, IInv, TypeOK, IdsFresh, Gid, Pid
  <2>2. grp' \in [Gid -> GroupType]
    BY <2>1 DEF IInv, TypeOK, GroupType
  <2>3. /\ grp'[g].host = h /\ grp'[g].members = {next_pid}
        /\ \A k \in gids \ {g} : grp'[k] = grp[k]
    BY <2>1 DEF IInv, TypeOK
  <2>4. \A q \in Table : info[q].group \in gids /\ info[q].group # g
    BY <2>1 DEF IInv, GroupsConsistent
  <2>5. \A k \in gids : grp'[k].host = h => k = g
    BY <2>1, <2>3 DEF Forkable
  <2>6. next_gid' \in 1 .. MaxGid + 1 /\ \A k \in gids' : k < next_gid'
    BY <2>0, <2>1 DEF IInv, TypeOK, IdsFresh, Gid
  <2>7. grp'[g].members = {q \in Table : info[q].group = g} \cup {next_pid}
    BY <2>3, <2>4
  <2>8. SpawnInto(Root, g, h, h)
    BY <2>1, <2>2, <2>3, <2>5, <2>6, <2>7 DEF SpawnInto
  <2> QED BY <2>8, SpawnKeeps
<1>2. ASSUME NEW q \in Pid, NEW h \in Host, EmblaSpawnChild(q, h) PROVE IInv'
  <2>0. PICK g \in Gid : g = info[q].group
    BY <1>2 DEF EmblaSpawnChild, IInv, TypeOK
  <2>1. /\ q \in Table /\ (~DeadParents => q \in Live)
        /\ g \in gids /\ next_pid <= MaxPid /\ Forkable(h)
        /\ Spawned(q, g, h, grp[g].host)
        /\ grp' = [grp EXCEPT ![g].members = @ \cup {next_pid}]
        /\ UNCHANGED <<gids, next_gid>>
    BY <1>2, <2>0 DEF EmblaSpawnChild, Parents, CanCreate, Live
  <2>2. g \in Gid /\ next_pid \in Pid /\ grp[g].host \in Host
    BY <2>1 DEF IInv, TypeOK, Pid, HostGroupsMatch
  <2>3. grp' \in [Gid -> GroupType]
    <3>1. grp \in [Gid -> GroupType] /\ grp[g] \in GroupType
      BY <2>2 DEF IInv, TypeOK
    <3>2. (grp[g].members \cup {next_pid}) \in SUBSET Pid
      BY <2>2, <3>1 DEF GroupType
    <3>3. [grp[g] EXCEPT !.members = @ \cup {next_pid}] \in GroupType
      BY <3>1, <3>2 DEF GroupType
    <3> QED BY <2>1, <3>1, <3>3
  <2>4. /\ grp'[g].host = grp[g].host /\ grp'[g].members = grp[g].members \cup {next_pid}
        /\ \A k \in gids \ {g} : grp'[k] = grp[k]
    BY <2>1, <2>2 DEF IInv, TypeOK, GroupType
  <2>5. grp'[g].members = {r \in Table : info[r].group = g} \cup {next_pid}
    BY <2>1, <2>4 DEF IInv, GroupsConsistent, InGroup
  <2>6. \A k \in gids : grp'[k].host = grp[g].host => k = g
    BY <2>1, <2>4 DEF IInv, HostGroupsMatch
  <2>7. next_gid' \in 1 .. MaxGid + 1 /\ \A k \in gids' : k < next_gid'
    BY <2>1 DEF IInv, TypeOK, IdsFresh
  <2>8. SpawnInto(q, g, h, grp[g].host)
    BY <2>1, <2>2, <2>3, <2>4, <2>5, <2>6, <2>7 DEF SpawnInto
  <2> QED BY <2>2, <2>8, SpawnKeeps
<1> QED BY <1>1, <1>2

\* embla_reap_child, embla_reap_process and embla_shutdown.
LEMMA ReapStep ==
  ASSUME IInv,
         \/ \E q \in Pid \cup {Root}, p \in Pid : EmblaReapChild(q, p)
         \/ \E p \in Pid : EmblaReapProcess(p)
         \/ RunShutdown
  PROVE  IInv'
<1>0. RunType
  BY DEF IInv, TypeOK, RunType
<1>1. ASSUME NEW q \in Pid \cup {Root}, NEW p \in Pid, EmblaReapChild(q, p) PROVE IInv'
  <2>1. /\ {p} \subseteq Table \ Live /\ Reap({p})
        /\ UNCHANGED <<queue, current, kern>> /\ RunType'
    BY <1>0, <1>1 DEF EmblaReapChild, Children, Live, schedvars, runvars, RunType
  <2> QED BY <2>1, ReapKeeps
<1>2. ASSUME NEW p \in Pid, EmblaReapProcess(p) PROVE IInv'
  <2>1. /\ {p} \subseteq Table \ Live /\ Reap({p})
        /\ UNCHANGED <<queue, current, kern>> /\ RunType'
    BY <1>0, <1>2 DEF EmblaReapProcess, Live, schedvars, runvars, RunType
  <2> QED BY <2>1, ReapKeeps
<1>3. CASE RunShutdown
  <2> DEFINE R == {p \in Children(Root) : state[p] = "TERMINATED"}
  <2>1. /\ R \subseteq Table \ Live /\ Reap(R)
        /\ UNCHANGED <<queue, current, kern>> /\ RunType'
    BY <1>0, <1>3 DEF RunShutdown, Children, Live, schedvars, RunType
  <2> HIDE DEF R
  <2> QED BY <2>1, ReapKeeps
<1> QED BY <1>1, <1>2, <1>3

\* Signals, exits of programs, failed spawns, polls without a record to change.
LEMMA KernelStep ==
  ASSUME IInv,
         \/ EmblaSpawnFails
         \/ \E q \in Pid : EmblaSpawnChildFails(q)
         \/ \E p \in Pid, sig \in Signals, s \in Status : EmblaSignal(p, sig, s)
         \/ \E g \in Gid, sig \in Signals, s \in Status : EmblaSignalGroup(g, sig, s)
         \/ RunEnter
         \/ \E h \in Host, p \in Pid : PollJobControlFails(h, p)
         \/ PollStray \/ PollIdle \/ LoopNoDispatch
         \/ \E h \in Host, s \in Status : HostExit(h, s)
         \/ \E h \in Host, sig \in Signals, s \in Status : HostSignal(h, sig, s)
         \/ EmblaStop
  PROVE  IInv'
<1> DEFINE Same == UNCHANGED <<state, info, grp, gids, queue, current>>
           Ids == next_pid' \in next_pid .. MaxPid + 1 /\ next_gid' \in next_gid .. MaxGid + 1
<1>0. RunType /\ next_pid \in 1 .. MaxPid + 1 /\ next_gid \in 1 .. MaxGid + 1
  BY DEF IInv, TypeOK, RunType
<1>1. UNCHANGED kern => KernelMoves
  BY DEF KernelMoves, IInv, TypeOK
<1> USE DEF records, groupvars, schedvars, runvars
<1>2. ASSUME EmblaSpawnFails \/ \E q \in Pid : EmblaSpawnChildFails(q) PROVE IInv'
  <2>1. KernelMoves /\ RunType'
    BY <1>0, <1>1, <1>2, SpawnFailsKeeps DEF RunType
  <2> QED BY <1>2, <2>1, SpawnFailsKeeps, TablesKept
<1>4. ASSUME NEW p \in Pid, NEW sig \in Signals, NEW s \in Status, EmblaSignal(p, sig, s)
      PROVE  IInv'
  <2>1. Same /\ Ids /\ RunType'
    BY <1>0, <1>4 DEF EmblaSignal, RunType
  <2>2. KernelMoves
    BY <1>4, DeliverMoves DEF EmblaSignal
  <2> QED BY <2>1, <2>2, KernelKeeps
<1>5. ASSUME NEW g \in Gid, NEW sig \in Signals, NEW s \in Status, EmblaSignalGroup(g, sig, s)
      PROVE  IInv'
  <2>1. Same /\ Ids /\ RunType'
    BY <1>0, <1>5 DEF EmblaSignalGroup, RunType
  <2>2. KernelMoves
    BY <1>5, DeliverMoves DEF EmblaSignalGroup
  <2> QED BY <2>1, <2>2, KernelKeeps
<1>6. CASE RunEnter
  <2>1. Same /\ Ids /\ KernelMoves /\ RunType'
    BY <1>0, <1>1, <1>6 DEF RunEnter, RunType
  <2> QED BY <2>1, KernelKeeps
<1>7. ASSUME NEW h \in Host, NEW p \in Pid, PollJobControlFails(h, p) PROVE IInv'
  <2>1. Same /\ Ids /\ RunType'
    BY <1>0, <1>7 DEF PollJobControlFails, Abort, RunType
  <2>2. kern[h].life # "none" /\ kern[h].life # "zombie"
    BY <1>7 DEF PollJobControlFails, Report, IInv, HostGroupsMatch, NoChild
  <2>3. kern[h] \in ChildType
    BY DEF IInv, TypeOK
  <2>4. kern' = [kern EXCEPT ![h] = [kern[h] EXCEPT !.event = "none"]]
    BY <1>7, <2>2 DEF PollJobControlFails, Collect, IInv, TypeOK
  <2>5. KernelMoves
    BY <2>2, <2>3, <2>4 DEF KernelMoves, IInv, TypeOK, ChildType
  <2> QED BY <2>1, <2>5, KernelKeeps
<1>8. CASE PollStray
  <2>1. Same /\ Ids /\ KernelMoves /\ RunType'
    BY <1>0, <1>1, <1>8 DEF PollStray, RunType
  <2> QED BY <2>1, KernelKeeps
<1>9. CASE PollIdle
  <2>1. Same /\ Ids /\ KernelMoves /\ RunType'
    BY <1>0, <1>1, <1>9 DEF PollIdle, RunType
  <2> QED BY <2>1, KernelKeeps
<1>10. CASE LoopNoDispatch
  <2>1. Same /\ Ids /\ KernelMoves /\ RunType'
    BY <1>0, <1>1, <1>10 DEF LoopNoDispatch, EndIteration, RunType
  <2> QED BY <2>1, KernelKeeps
<1>11. ASSUME NEW h \in Host, NEW s \in Status, HostExit(h, s) PROVE IInv'
  <2>0. UNCHANGED <<state, info, next_pid, grp, gids, next_gid, queue, current,
                    estate, pc, outcome, strays>>
    BY <1>11, Zenon DEF HostExit
  <2>1. Same /\ Ids /\ RunType'
    BY <1>0, <2>0 DEF RunType
  <2>2. KernelMoves
    <3> DEFINE c == [kern[h] EXCEPT !.life = "zombie", !.event = "none", !.status = s]
    <3>1. kern \in [Host -> ChildType] /\ kern[h].life = "run" /\ kern' = [kern EXCEPT ![h] = c]
      BY <1>11 DEF HostExit, IInv, TypeOK
    <3>2. c \in ChildType /\ c.life = "zombie" /\ c.pgid = kern[h].pgid
      BY <3>1 DEF ChildType
    <3> HIDE DEF c
    <3> QED BY <3>1, <3>2 DEF KernelMoves
  <2> QED BY <2>1, <2>2, KernelKeeps
<1>12. ASSUME NEW h \in Host, NEW sig \in Signals, NEW s \in Status, HostSignal(h, sig, s)
       PROVE  IInv'
  <2>1. Same /\ Ids /\ RunType'
    BY <1>0, <1>12 DEF HostSignal, RunType
  <2>2. KernelMoves
    BY <1>12, DeliverMoves DEF HostSignal
  <2> QED BY <2>1, <2>2, KernelKeeps
<1>13. CASE EmblaStop
  <2>1. Same /\ Ids /\ KernelMoves /\ RunType'
    BY <1>0, <1>1, <1>13 DEF EmblaStop, RunType
  <2> QED BY <2>1, KernelKeeps
<1> QED BY <1>2, <1>4, <1>5, <1>6, <1>7, <1>8, <1>9, <1>10, <1>11, <1>12, <1>13

\* process_group_set_max_members changes the limit of one group only.
LEMMA LimitStep ==
  ASSUME IInv, NEW g \in Gid, NEW n \in Caps, SetMaxMembers(g, n)
  PROVE  IInv'
<1> USE DEF IInv
<1>1. /\ grp' = [grp EXCEPT ![g].cap = n]
      /\ UNCHANGED <<state, info, next_pid, gids, next_gid, queue, current,
                     estate, pc, outcome, kern, strays>>
  BY DEF SetMaxMembers, records, schedvars, runvars
<1>2. \A k \in Gid : grp'[k] \in GroupType /\ grp'[k].members = grp[k].members
                                          /\ grp'[k].host = grp[k].host
  <2> SUFFICES ASSUME NEW k \in Gid
               PROVE  grp'[k] \in GroupType /\ grp'[k].members = grp[k].members
                                            /\ grp'[k].host = grp[k].host
    OBVIOUS
  <2>1. grp[k] \in GroupType /\ n \in Nat
    BY DEF TypeOK
  <2>2. grp'[k] = IF k = g THEN [grp[k] EXCEPT !.cap = n] ELSE grp[k]
    BY <1>1 DEF TypeOK
  <2> QED BY <2>1, <2>2 DEF GroupType
<1>3. TypeOK'
  BY <1>1, <1>2 DEF TypeOK
<1>4. SchedulerTracksLive' /\ HostsTracked' /\ IdsFresh' /\ (~DeadParents => ParentsAlive')
  BY <1>1, SameTable DEF SchedulerTracksLive, Sched!Occurs, HostsTracked, IdsFresh, ParentsAlive
<1>5. GroupsConsistent'
  BY <1>1, <1>2, SameTable DEF GroupsConsistent, InGroup, TypeOK
<1>6. HostGroupsMatch'
  <2>1. \A p \in Live : info[p].group \in Gid
    BY DEF GroupsConsistent, TypeOK, Live
  <2> QED BY <1>1, <1>2, <2>1, SameTable DEF HostGroupsMatch, TypeOK, NoChild
<1> QED BY <1>3, <1>4, <1>5, <1>6

\* Entering the loop or iterating with a dispatch.
LEMMA DispatchStep ==
  ASSUME IInv, RunEnterDispatch \/ RunEnterFails \/ LoopDispatch \/ LoopDispatchFails
  PROVE  IInv'
<1>0. RunType
  BY DEF IInv, TypeOK, RunType
<1> USE DEF groupvars, schedvars
<1>1. CASE RunEnterDispatch \/ LoopDispatch
  <2>1. /\ Sched!DispatchOK /\ RunType'
        /\ UNCHANGED <<info, next_pid, grp, gids, next_gid, kern>>
    BY <1>0, <1>1 DEF RunEnterDispatch, LoopDispatch, EndIteration, RunType
  <2> QED BY <2>1, DispatchKeeps
<1>2. CASE RunEnterFails \/ LoopDispatchFails
  <2>1. /\ Sched!DispatchFails \/ UNCHANGED <<state, queue, current>>
        /\ RunType'
        /\ UNCHANGED <<info, next_pid, grp, gids, next_gid, kern>>
    BY <1>0, <1>2 DEF RunEnterFails, LoopDispatchFails, Abort, RunType
  <2>2. CASE Sched!DispatchFails
    BY <2>1, <2>2, RotateKeeps
  <2>3. CASE UNCHANGED <<state, queue, current>>
    <3>1. /\ KernelMoves /\ next_pid' \in next_pid .. MaxPid + 1
          /\ next_gid' \in next_gid .. MaxGid + 1
      BY <2>1 DEF KernelMoves, IInv, TypeOK
    <3> QED BY <2>1, <2>3, <3>1, KernelKeeps
  <2> QED BY <2>1, <2>2, <2>3
<1> QED BY <1>1, <1>2

\* Every step of the runtime keeps the invariant.
LEMMA StepInv == IInv /\ [Next]_vars => IInv'
<1> SUFFICES ASSUME IInv, [Next]_vars PROVE IInv'
  OBVIOUS
<1>1. CASE Client
  BY <1>1, SpawnStep, ReapStep, KernelStep, LimitStep, DispatchStep DEF Client
<1>2. CASE Loop
  BY <1>2, ExitKeeps, JobControlKeeps, ReapStep, KernelStep, DispatchStep DEF Loop
<1>3. CASE World
  BY <1>3, KernelStep DEF World
<1>4. CASE UNCHANGED vars
  <2>1. /\ KernelMoves /\ RunType' /\ next_pid' \in next_pid .. MaxPid + 1
        /\ next_gid' \in next_gid .. MaxGid + 1
        /\ UNCHANGED <<state, info, grp, gids, queue, current>>
    BY <1>4 DEF vars, KernelMoves, RunType, IInv, TypeOK
  <2> QED BY <2>1, KernelKeeps
<1> QED BY <1>1, <1>2, <1>3, <1>4 DEF Next

\* The invariant holds throughout.
THEOREM InvCorrect == Spec => []IInv
<1> QED BY InitInv, StepInv, PTL DEF Spec

\* The runtime's state keeps its types.
THEOREM TypeCorrect == Spec => []TypeOK
<1>1. IInv => TypeOK
  BY DEF IInv
<1> QED BY <1>1, InvCorrect, PTL

\* The scheduler never points to a terminated or freed record and never loses
\* or doubles a live one, in every interleaving of calls, events and signals.
THEOREM SchedulerCorrect == Spec => []SchedulerTracksLive
<1>1. IInv => SchedulerTracksLive
  BY DEF IInv
<1> QED BY <1>1, InvCorrect, PTL

\* No host process is lost, and a live record's host id is its own process.
THEOREM HostsCorrect == Spec => []HostsTracked
<1>1. IInv => HostsTracked
  BY DEF IInv
<1> QED BY <1>1, InvCorrect, PTL

\* The group table and the records agree and no group is empty; embla_shutdown
\* therefore never fails.
THEOREM GroupsCorrect == Spec => []GroupsConsistent
<1>1. IInv => GroupsConsistent
  BY DEF IInv
<1> QED BY <1>1, InvCorrect, PTL

\* A signal to a group reaches its live members and nobody else.
THEOREM GroupSignalCorrect == Spec => []GroupSignalExact
<1>1. ASSUME IInv PROVE GroupSignalExact
  <2> SUFFICES ASSUME NEW g \in gids
               PROVE  {h \in Host : kern[h].pgid = grp[g].host}
                        = {info[p].host : p \in InGroup(g) \cap Live}
    BY DEF GroupSignalExact
  <2>1. ASSUME NEW h \in Host, kern[h].pgid = grp[g].host
        PROVE  \E p \in InGroup(g) \cap Live : info[p].host = h
    <3>1. kern[h].life # "none"
      BY <1>1, <2>1 DEF IInv, HostGroupsMatch, NoChild
    <3>2. PICK p \in Live : info[p].host = h
      BY <1>1, <3>1 DEF IInv, HostsTracked
    <3>3. grp[info[p].group].host = grp[g].host /\ p \in Table
      BY <1>1, <2>1, <3>2 DEF IInv, HostGroupsMatch, Live
    <3>4. info[p].group = g
      BY <1>1, <3>3 DEF IInv, HostGroupsMatch, GroupsConsistent
    <3> QED BY <1>1, <3>2, <3>3, <3>4 DEF IInv, GroupsConsistent
  <2>2. ASSUME NEW p \in InGroup(g) \cap Live
        PROVE  info[p].host \in Host /\ kern[info[p].host].pgid = grp[g].host
    <3>1. info[p].group = g
      BY <1>1, <2>2 DEF IInv, GroupsConsistent
    <3> QED BY <1>1, <2>2, <3>1 DEF IInv, HostsTracked, HostGroupsMatch
  <2> QED BY <2>1, <2>2
<1> QED BY <1>1, InvCorrect, PTL

\* As long as clients spawn children under live parents only, the parent of a
\* record is Root or a live process.
THEOREM ParentsCorrect == ~DeadParents => (Spec => []ParentsAlive)
<1> SUFFICES ASSUME ~DeadParents PROVE Spec => []ParentsAlive
  OBVIOUS
<1>1. IInv => ParentsAlive
  BY DEF IInv
<1> QED BY <1>1, InvCorrect, PTL

\* embla_run returns 0 from its loop through embla_shutdown only.
LEMMA OnlyShutdownReturns ==
  ASSUME Next, pc = "poll", pc' = "out", outcome' = "ok"
  PROVE  RunShutdown
<1>1. ~Client
  BY DEF Client, EmblaSpawn, EmblaSpawnFails, EmblaSpawnChild, EmblaSpawnChildFails,
         SetMaxMembers, EmblaSignal, EmblaSignalGroup, EmblaReapChild, EmblaReapProcess,
         RunEnter, RunEnterDispatch, RunEnterFails
<1>2. ~World
  BY DEF World, HostExit, HostSignal, EmblaStop, runvars
<1>3. Loop => RunShutdown
  <2>1. \A h \in Host, p \in Pid : ~PollExit(h, p) /\ ~PollJobControl(h, p)
    BY DEF PollExit, PollJobControl
  <2>2. \A h \in Host, p \in Pid : ~PollJobControlFails(h, p)
    BY DEF PollJobControlFails, Abort
  <2>3. ~PollStray /\ ~PollIdle /\ ~LoopNoDispatch /\ ~LoopDispatch
    BY DEF PollStray, PollIdle, LoopNoDispatch, LoopDispatch
  <2>4. ~LoopDispatchFails
    BY DEF LoopDispatchFails
  <2> QED BY <2>1, <2>2, <2>3, <2>4 DEF Loop
<1> QED BY <1>1, <1>2, <1>3 DEF Next

\* A run that ends because nothing is live leaves no record, no group and no
\* host process, as long as clients spawn under live parents only.
THEOREM DrainCorrect == ~DeadParents => (Spec => DrainedRunLeavesNothing)
<1> SUFFICES ASSUME ~DeadParents PROVE Spec => DrainedRunLeavesNothing
  OBVIOUS
<1>1. ASSUME IInv, [Next]_vars, outcome' = "ok", pc = "poll", pc' = "out", Live = {}
      PROVE  Table' = {} /\ gids' = {} /\ \A h \in Host : kern'[h].life = "none"
  <2>1. RunShutdown
    BY <1>1, OnlyShutdownReturns DEF vars
  <2> DEFINE R == {p \in Children(Root) : state[p] = "TERMINATED"}
  <2>2. R = Table
    <3>1. \A p \in Table : state[p] = "TERMINATED" /\ info[p].parent = Root
      BY <1>1 DEF Live, IInv, ParentsAlive
    <3> QED BY <3>1 DEF Children
  <2>3. Reap(Table) /\ UNCHANGED kern
    BY <2>1, <2>2 DEF RunShutdown
  <2>4. Table' = {}
    BY <2>3 DEF Reap, Table
  <2>5. \A g \in gids : InGroup(g) # {} /\ InGroup(g) \subseteq Table
    BY <1>1 DEF IInv, GroupsConsistent
  <2>6. gids' = {}
    BY <2>3, <2>5 DEF Reap
  <2>7. \A h \in Host : kern'[h].life = "none"
    BY <1>1, <2>3 DEF IInv, HostsTracked
  <2> QED BY <2>4, <2>6, <2>7
<1>2. IInv /\ [Next]_vars =>
        [(outcome' = "ok" /\ pc = "poll" /\ pc' = "out" /\ Live = {}) =>
           Table' = {} /\ gids' = {} /\ \A h \in Host : kern'[h].life = "none"]_vars
  BY <1>1
<1> QED BY <1>2, InvCorrect, PTL DEF Spec, DrainedRunLeavesNothing

-----------------------------------------------------------------------------
(* Room in the scheduler.                                                  *)

\* The process table is finite.
LEMMA TableFinite == IsFiniteSet(Table) /\ Cardinality(Table) \in Nat
<1>1. IsFiniteSet(1 .. MaxPid)
  BY FS_Interval
<1>2. IsFiniteSet(Table)
  BY <1>1, FS_Subset DEF Table, Pid
<1> QED BY <1>2, FS_CardinalityType

\* The ready queue holds records of the table, each once: it is never longer
\* than the table.
LEMMA QueueInTable ==
  ASSUME IInv
  PROVE  Len(queue) <= Cardinality(Table)
<1>1. queue \in Seq(Pid) /\ Len(queue) \in Nat
  BY DEF IInv, TypeOK
<1>2. queue \in Injection(1 .. Len(queue), Table)
  <2>1. queue \in [1 .. Len(queue) -> Table]
    BY <1>1 DEF IInv, SchedulerTracksLive, Live
  <2> QED BY <2>1 DEF IInv, SchedulerTracksLive, Injection, IsInjective
<1>3. IsFiniteSet(Table)
  BY TableFinite
<1>4. Cardinality(1 .. Len(queue)) = Len(queue)
  <2>1. Cardinality(1 .. Len(queue))
          = IF 1 > Len(queue) THEN 0 ELSE Len(queue) - 1 + 1
    BY <1>1, FS_Interval
  <2> QED BY <1>1, <2>1
<1> QED BY <1>2, <1>3, <1>4, FS_Injection

\* The last step of embla_spawn_internal, scheduler_add, always finds room:
\* the process table is full before the ready queue is.
THEOREM RoomCorrect == Spec => []SchedulerHasRoom
<1>1. ASSUME IInv PROVE SchedulerHasRoom
  <2>1. Len(queue) \in Nat
    BY <1>1 DEF IInv, TypeOK
  <2> QED BY <1>1, <2>1, TableFinite, QueueInTable DEF SchedulerHasRoom, CanCreate
<1> QED BY <1>1, InvCorrect, PTL

-----------------------------------------------------------------------------
(* Exits are recorded.                                                     *)

\* A signal leaves a zombie what it is.
LEMMA ZombieUnmoved ==
  ASSUME NEW h \in Host, NEW targets, NEW sig, NEW s,
         kern[h].life = "zombie", Deliver(targets, sig, s)
  PROVE  kern'[h] = kern[h]
BY DEF Deliver, Signalled

\* Only embla_handle_child_event, for the record that owns it, collects a
\* zombie.
LEMMA OnlyPollCollects ==
  ASSUME IInv, Next, NEW h \in Host, kern[h].life = "zombie", kern'[h].life = "none"
  PROVE  \E p \in Pid : PollExit(h, p)
<1>0. kern'[h] # kern[h]
  OBVIOUS
<1>t. kern \in [Host -> ChildType]
  BY DEF IInv, TypeOK
<1>1. ~Client
  <2>1. ASSUME NEW k \in Host, NEW p, NEW g, NEW pgid, Spawned(p, g, k, pgid) PROVE FALSE
    BY <1>t, <2>1 DEF Spawned, Born
  <2>2. ASSUME NEW k \in Host, EmblaSpawn(k) PROVE FALSE
    BY <2>1, <2>2 DEF EmblaSpawn
  <2>3. ASSUME NEW q \in Pid, NEW k \in Host, EmblaSpawnChild(q, k) PROVE FALSE
    BY <2>1, <2>3 DEF EmblaSpawnChild
  <2>4. ASSUME NEW p \in Pid, NEW sig \in Signals, NEW s \in Status, EmblaSignal(p, sig, s)
        PROVE  FALSE
    BY <1>0, <2>4, ZombieUnmoved DEF EmblaSignal
  <2>5. ASSUME NEW g \in Gid, NEW sig \in Signals, NEW s \in Status, EmblaSignalGroup(g, sig, s)
        PROVE  FALSE
    BY <1>0, <2>5, ZombieUnmoved DEF EmblaSignalGroup
  <2>6. ~EmblaSpawnFails /\ \A q \in Pid : ~EmblaSpawnChildFails(q)
    BY <1>0, SpawnFailsKeeps
  <2>7. /\ \A g \in Gid, n \in Caps : ~SetMaxMembers(g, n)
        /\ \A q \in Pid \cup {Root}, p \in Pid : ~EmblaReapChild(q, p)
        /\ \A p \in Pid : ~EmblaReapProcess(p)
    BY <1>0 DEF SetMaxMembers, EmblaReapChild, EmblaReapProcess
  <2>8. ~RunEnter /\ ~RunEnterDispatch /\ ~RunEnterFails
    BY <1>0 DEF RunEnter, RunEnterDispatch, RunEnterFails
  <2> QED BY <2>2, <2>3, <2>4, <2>5, <2>6, <2>7, <2>8 DEF Client
<1>2. ~World
  <2>1. ASSUME NEW k \in Host, NEW s \in Status, HostExit(k, s) PROVE FALSE
    BY <1>t, <2>1 DEF HostExit, ChildType
  <2>2. ASSUME NEW k \in Host, NEW sig \in Signals, NEW s \in Status, HostSignal(k, sig, s)
        PROVE  FALSE
    BY <1>0, <2>2, ZombieUnmoved DEF HostSignal
  <2>3. ~EmblaStop
    BY <1>0 DEF EmblaStop
  <2> QED BY <2>1, <2>2, <2>3 DEF World
<1>3. CASE Loop
  <2>1. ASSUME NEW k \in Host, NEW p \in Pid, PollExit(k, p) PROVE k = h
    BY <1>0, <1>t, <2>1 DEF PollExit, Collect
  <2>2. ASSUME NEW k \in Host, NEW p \in Pid, PollJobControl(k, p) \/ PollJobControlFails(k, p)
        PROVE  FALSE
    <3>1. Report(k) \in {"stop", "cont"} /\ Collect(k)
      BY <2>2 DEF PollJobControl, PollJobControlFails
    <3>2. k # h
      BY <3>1 DEF Report
    <3> QED BY <1>0, <1>t, <3>1, <3>2 DEF Collect
  <2>3. ~PollStray /\ ~PollIdle /\ ~LoopNoDispatch
    BY <1>0 DEF PollStray, PollIdle, LoopNoDispatch
  <2>4. ~LoopDispatch /\ ~LoopDispatchFails /\ ~RunShutdown
    BY <1>0 DEF LoopDispatch, LoopDispatchFails, RunShutdown
  <2> QED BY <1>3, <2>1, <2>2, <2>3, <2>4 DEF Loop
<1> QED BY <1>1, <1>2, <1>3 DEF Next

\* The exit status of a terminated process stays in its record until the
\* record is reaped.
LEMMA StatusKept ==
  ASSUME IInv, [Next]_vars, NEW p \in Table, state[p] = "TERMINATED"
  PROVE  state'[p] = "FREE" \/ info'[p].status = info[p].status
<1> USE DEF records
<1>0. p \in Pid /\ info \in [Pid -> InfoType] /\ p # next_pid
  BY DEF IInv, TypeOK, Table, IdsFresh, Pid
<1>1. ASSUME NEW R, Reap(R) PROVE state'[p] = "FREE" \/ info'[p] = info[p]
  BY <1>0, <1>1 DEF Reap
<1>2. CASE Client
  <2>1. ASSUME NEW k, NEW q, NEW g, NEW pgid, Spawned(q, g, k, pgid)
        PROVE  info'[p] = info[p]
    BY <1>0, <2>1 DEF Spawned
  <2>2. ASSUME NEW k \in Host, EmblaSpawn(k) PROVE info'[p] = info[p]
    BY <2>1, <2>2 DEF EmblaSpawn
  <2>3. ASSUME NEW q \in Pid, NEW k \in Host, EmblaSpawnChild(q, k) PROVE info'[p] = info[p]
    BY <2>1, <2>3 DEF EmblaSpawnChild
  <2>4. ASSUME \/ EmblaSpawnFails
               \/ \E q \in Pid : EmblaSpawnChildFails(q)
               \/ \E g \in Gid, n \in Caps : SetMaxMembers(g, n)
        PROVE  info'[p] = info[p]
    BY <2>4, SpawnFailsKeeps DEF SetMaxMembers
  <2>5. ASSUME \/ \E q \in Pid, sig \in Signals, s \in Status : EmblaSignal(q, sig, s)
               \/ \E g \in Gid, sig \in Signals, s \in Status : EmblaSignalGroup(g, sig, s)
        PROVE  info' = info
    BY <2>5 DEF EmblaSignal, EmblaSignalGroup
  <2>6. ASSUME RunEnter \/ RunEnterDispatch \/ RunEnterFails PROVE info' = info
    BY <2>6 DEF RunEnter, RunEnterDispatch, RunEnterFails
  <2>7. ASSUME \/ \E q \in Pid \cup {Root}, r \in Pid : EmblaReapChild(q, r)
               \/ \E r \in Pid : EmblaReapProcess(r)
        PROVE  state'[p] = "FREE" \/ info'[p] = info[p]
    BY <1>1, <2>7 DEF EmblaReapChild, EmblaReapProcess
  <2> QED BY <1>2, <2>2, <2>3, <2>4, <2>5, <2>6, <2>7 DEF Client
<1>3. CASE Loop
  <2>1. ASSUME NEW k \in Host, NEW q \in Pid, PollExit(k, q)
        PROVE  info'[p].status = info[p].status
    <3>1. q # p
      BY <2>1 DEF PollExit, CanTransition, Transitions
    <3>2. info' = Ended(q, kern[k].status) /\ info[p] \in InfoType
      BY <1>0, <2>1 DEF PollExit
    <3> QED BY <1>0, <3>1, <3>2 DEF Ended, InfoType
  <2>2. ASSUME \/ \E k \in Host, q \in Pid : PollJobControl(k, q) \/ PollJobControlFails(k, q)
               \/ PollStray \/ PollIdle
        PROVE  info' = info
    BY <2>2 DEF PollJobControl, PollJobControlFails, PollStray, PollIdle
  <2>3. ASSUME LoopNoDispatch \/ LoopDispatch \/ LoopDispatchFails PROVE info' = info
    BY <2>3 DEF LoopNoDispatch, LoopDispatch, LoopDispatchFails
  <2>4. ASSUME RunShutdown PROVE state'[p] = "FREE" \/ info'[p] = info[p]
    BY <1>1, <2>4 DEF RunShutdown
  <2> QED BY <1>3, <2>1, <2>2, <2>3, <2>4 DEF Loop
<1>4. CASE World
  BY <1>4 DEF World, HostExit, HostSignal, EmblaStop
<1>5. CASE UNCHANGED vars
  BY <1>5 DEF vars
<1> QED BY <1>2, <1>3, <1>4, <1>5 DEF Next

\* No exit is lost or credited to the wrong record, and the recorded status
\* lasts until the record is reaped.
THEOREM ExitsCorrect == Spec => ExitsRecorded
<1> DEFINE Recorded ==
      /\ \A h \in Host : kern[h].life = "zombie" /\ kern'[h].life = "none" =>
           \E p \in Table : /\ info[p].host = h
                            /\ state'[p] = "TERMINATED"
                            /\ info'[p].status = kern[h].status
      /\ \A p \in Table : state[p] = "TERMINATED" =>
           state'[p] = "FREE" \/ info'[p].status = info[p].status
<1>1. ASSUME IInv, Next PROVE Recorded
  <2>1. ASSUME NEW h \in Host, kern[h].life = "zombie", kern'[h].life = "none"
        PROVE  \E p \in Table : /\ info[p].host = h
                                /\ state'[p] = "TERMINATED"
                                /\ info'[p].status = kern[h].status
    <3>1. PICK p \in Pid : PollExit(h, p)
      BY <1>1, <2>1, OnlyPollCollects
    <3>2. /\ p \in Table /\ info[p].host = h
          /\ state' = [state EXCEPT ![p] = "TERMINATED"]
          /\ info' = Ended(p, kern[h].status)
      BY <3>1 DEF PollExit, Owner
    <3>3. info[p] \in InfoType /\ state \in [Pid -> States \cup {"FREE"}]
      BY <1>1 DEF IInv, TypeOK
    <3> QED BY <3>2, <3>3 DEF Ended, InfoType
  <2> QED BY <1>1, <2>1, StatusKept
<1>2. IInv /\ [Next]_vars => [Recorded]_vars
  BY <1>1
<1> HIDE DEF Recorded
<1>3. Spec => [][Recorded]_vars
  BY <1>2, InvCorrect, PTL DEF Spec
<1> QED BY <1>3 DEF ExitsRecorded, Recorded

-----------------------------------------------------------------------------
(* embla_run does not fail.                                                *)

\* Without job control and without embla_stop from a handler: no child has a
\* stop or continue to report, whatever waits in the scheduler is READY, and
\* embla_run leaves its loop only when nothing is live, hence nothing current.
QuietInv ==
    /\ \A h \in Host : kern[h].event = "none"
    /\ \A p \in Live : p # current => state[p] = "READY"
    /\ pc = "out" => current = None /\ estate = "STOPPED"
    /\ pc = "dispatch" => estate = "RUNNING"
    /\ pc = "poll" /\ estate = "STOPPING" => Live = {}
    /\ outcome # "error"

\* A signal that is not a job control signal gives a child nothing to report.
LEMMA DeliverQuiet ==
  ASSUME ~JobControl, IInv, QuietInv, NEW targets, NEW sig \in Signals, NEW s,
         Deliver(targets, sig, s)
  PROVE  \A h \in Host : kern'[h].event = "none"
<1> SUFFICES ASSUME NEW h \in Host PROVE kern'[h].event = "none"
  OBVIOUS
<1>1. kern[h] \in ChildType /\ kern[h].event = "none"
  BY DEF IInv, TypeOK, QuietInv
<1>2. sig \in {"TERM", "KILL"}
  BY DEF Signals
<1>3. Signalled(kern[h], sig, s).event = "none"
  BY <1>1, <1>2 DEF Signalled, ChildType
<1> QED BY <1>1, <1>3 DEF Deliver

\* A queued process can be dispatched.
LEMMA HeadIsReady ==
  ASSUME IInv, QuietInv, queue # <<>>, current = None
  PROVE  state[Head(queue)] = "READY" /\ ~Sched!DispatchFails
<1>1. queue \in Seq(Pid) /\ Len(queue) > 0 /\ Head(queue) = queue[1]
  BY DEF IInv, TypeOK
<1>2. Head(queue) \in Live /\ Head(queue) # current
  BY <1>1 DEF IInv, SchedulerTracksLive
<1>3. state[Head(queue)] = "READY"
  BY <1>2 DEF QuietInv
<1> QED BY <1>3 DEF Sched!DispatchFails, Sched!CanTransition, Sched!Transitions

\* After a dispatch, too, everything but the current process is READY.
LEMMA DispatchQuiet ==
  ASSUME IInv, QuietInv, Sched!DispatchOK
  PROVE  Live' = Live /\ \A p \in Live' : p # current' => state'[p] = "READY"
<1>1. /\ queue \in Seq(Pid) /\ queue # <<>> /\ current = None
      /\ state \in [Pid -> States \cup {"FREE"}]
      /\ current' = Head(queue) /\ state' = [state EXCEPT ![Head(queue)] = "RUNNING"]
  BY DEF IInv, TypeOK, Sched!DispatchOK
<1>2. Head(queue) \in Pid /\ state[Head(queue)] = "READY"
  BY <1>1, HeadIsReady
<1>3. Live' = Live
  BY <1>1, <1>2 DEF Live, Table
<1>4. \A p \in Live : p # current
  BY <1>1 DEF Live, Table, Pid
<1> QED BY <1>1, <1>2, <1>3, <1>4 DEF QuietInv, Live, Table

\* Calls of clients, outside embla_run.
LEMMA QuietClient ==
  ASSUME ~JobControl, IInv, QuietInv, Client PROVE QuietInv'
<1>t. state \in [Pid -> States \cup {"FREE"}] /\ kern \in [Host -> ChildType]
  BY DEF IInv, TypeOK
<1> USE DEF records, schedvars, runvars
<1>1. ASSUME pc = "out", UNCHANGED <<state, queue, current, estate, pc, outcome>>,
             \A h \in Host : kern'[h].event = "none"
      PROVE  QuietInv'
  BY <1>1, SameTable DEF QuietInv
<1>2. ASSUME NEW k \in Host, NEW q, NEW g, NEW pgid, Spawned(q, g, k, pgid), CanCreate,
             pc = "out"
      PROVE  QuietInv'
  <2>1. /\ next_pid \in Pid /\ state' = [state EXCEPT ![next_pid] = "READY"]
        /\ kern' = [kern EXCEPT ![k] = Born(pgid)]
        /\ UNCHANGED <<current, estate, pc, outcome>>
    BY <1>2 DEF Spawned, CanCreate, IInv, TypeOK, Pid
  <2>2. \A h \in Host : kern'[h].event = "none"
    BY <1>t, <2>1 DEF Born, QuietInv
  <2>3. Live' \subseteq Live \cup {next_pid}
    BY <1>t, <2>1 DEF Live, Table
  <2>4. \A p \in Live' : p # current => state'[p] = "READY"
    BY <1>t, <2>1, <2>3 DEF QuietInv
  <2> QED BY <1>2, <2>1, <2>2, <2>4 DEF QuietInv
<1>3. ASSUME NEW R, Reap(R), pc = "out", UNCHANGED <<queue, current, estate, pc, outcome, kern>>
      PROVE  QuietInv'
  <2>1. Live' \subseteq Live /\ \A p \in Live' : state'[p] = state[p]
    BY <1>3 DEF Reap, Live, Table
  <2> QED BY <1>3, <2>1 DEF QuietInv
<1>4. ASSUME NEW h \in Host, EmblaSpawn(h) PROVE QuietInv'
  BY <1>2, <1>4 DEF EmblaSpawn
<1>5. ASSUME NEW q \in Pid, NEW h \in Host, EmblaSpawnChild(q, h) PROVE QuietInv'
  BY <1>2, <1>5 DEF EmblaSpawnChild
<1>6. ASSUME \/ EmblaSpawnFails
             \/ \E q \in Pid : EmblaSpawnChildFails(q)
             \/ \E g \in Gid, n \in Caps : SetMaxMembers(g, n)
      PROVE  QuietInv'
  <2>1. pc = "out"
    BY <1>6 DEF EmblaSpawnFails, EmblaSpawnChildFails, SetMaxMembers
  <2>2. UNCHANGED <<state, queue, current, estate, pc, outcome, kern>>
    BY <1>6, SpawnFailsKeeps DEF SetMaxMembers
  <2> QED BY <1>1, <2>1, <2>2 DEF QuietInv
<1>7. ASSUME NEW p \in Pid, NEW sig \in Signals, NEW s \in Status, EmblaSignal(p, sig, s)
      PROVE  QuietInv'
  <2>1. pc = "out" /\ UNCHANGED <<state, queue, current, estate, pc, outcome>>
    BY <1>7 DEF EmblaSignal
  <2>2. \A h \in Host : kern'[h].event = "none"
    BY <1>7, DeliverQuiet DEF EmblaSignal
  <2> QED BY <1>1, <2>1, <2>2
<1>8. ASSUME NEW g \in Gid, NEW sig \in Signals, NEW s \in Status, EmblaSignalGroup(g, sig, s)
      PROVE  QuietInv'
  <2>1. pc = "out" /\ UNCHANGED <<state, queue, current, estate, pc, outcome>>
    BY <1>8 DEF EmblaSignalGroup
  <2>2. \A h \in Host : kern'[h].event = "none"
    BY <1>8, DeliverQuiet DEF EmblaSignalGroup
  <2> QED BY <1>1, <2>1, <2>2
<1>9. ASSUME \/ \E q \in Pid \cup {Root}, p \in Pid : EmblaReapChild(q, p)
             \/ \E p \in Pid : EmblaReapProcess(p)
      PROVE  QuietInv'
  BY <1>3, <1>9 DEF EmblaReapChild, EmblaReapProcess
<1>10. CASE RunEnter
  <2>1. /\ pc' = "poll" /\ estate' = "RUNNING"
        /\ UNCHANGED <<state, queue, current, outcome, kern>>
    BY <1>10 DEF RunEnter
  <2> QED BY <2>1, SameTable DEF QuietInv
<1>11. CASE RunEnterDispatch
  <2>1. /\ pc' = "poll" /\ estate' = "RUNNING" /\ Sched!DispatchOK
        /\ UNCHANGED <<outcome, kern>>
    BY <1>11 DEF RunEnterDispatch
  <2> QED BY <2>1, DispatchQuiet DEF QuietInv
<1>12. CASE RunEnterFails
  <2>1. queue # <<>> /\ current = None
    BY <1>12 DEF RunEnterFails, QuietInv
  <2> QED BY <1>12, <2>1, HeadIsReady DEF RunEnterFails
<1> QED BY <1>4, <1>5, <1>6, <1>7, <1>8, <1>9, <1>10, <1>11, <1>12 DEF Client

\* Steps of the loop of embla_run.
LEMMA QuietLoop ==
  ASSUME IInv, QuietInv, Loop PROVE QuietInv'
<1>t. state \in [Pid -> States \cup {"FREE"}] /\ kern \in [Host -> ChildType]
  BY DEF IInv, TypeOK
<1> USE DEF records, schedvars, runvars
<1>1. ASSUME NEW h \in Host, NEW p \in Pid, PollExit(h, p) PROVE QuietInv'
  <2>1. /\ state' = [state EXCEPT ![p] = "TERMINATED"] /\ Collect(h)
        /\ SchedulerRemove(p) /\ pc' = "dispatch" /\ estate' = "RUNNING"
        /\ UNCHANGED outcome
    BY <1>1 DEF PollExit, Polling
  <2>2. \A k \in Host : kern'[k].event = "none"
    BY <1>t, <2>1 DEF Collect, NoChild, QuietInv, ChildType
  <2>3. Live' \subseteq Live \ {p} /\ \A q \in Live' : state'[q] = state[q]
    BY <1>t, <2>1 DEF Live, Table
  <2>4. \A q \in Live' : q # current' => q # current
    BY <2>1, <2>3 DEF SchedulerRemove
  <2> QED BY <2>1, <2>2, <2>3, <2>4 DEF QuietInv
<1>2. ASSUME NEW h \in Host, NEW p \in Pid, PollJobControl(h, p) \/ PollJobControlFails(h, p)
      PROVE  FALSE
  BY <1>2 DEF PollJobControl, PollJobControlFails, Report, QuietInv
<1>3. CASE PollStray
  <2>1. /\ pc' = "dispatch" /\ estate' = "RUNNING"
        /\ UNCHANGED <<state, current, outcome, kern>>
    BY <1>3 DEF PollStray, Polling
  <2> QED BY <2>1, SameTable DEF QuietInv
<1>4. CASE PollIdle
  <2>1. /\ pc' = "poll" /\ Live = {} /\ UNCHANGED <<state, current, outcome, kern>>
    BY <1>4 DEF PollIdle, Polling
  <2> QED BY <2>1, SameTable DEF QuietInv
<1>5. CASE LoopNoDispatch
  <2>1. /\ pc' = "poll" /\ estate' = (IF Live = {} THEN "STOPPING" ELSE "RUNNING")
        /\ UNCHANGED <<state, current, outcome, kern>>
    BY <1>5 DEF LoopNoDispatch, EndIteration, QuietInv
  <2> QED BY <2>1, SameTable DEF QuietInv
<1>6. CASE LoopDispatch
  <2>1. /\ pc' = "poll" /\ estate' = (IF Live = {} THEN "STOPPING" ELSE "RUNNING")
        /\ Sched!DispatchOK /\ UNCHANGED <<outcome, kern>>
    BY <1>6 DEF LoopDispatch, EndIteration, QuietInv
  <2> QED BY <2>1, DispatchQuiet DEF QuietInv
<1>7. CASE LoopDispatchFails
  BY <1>7, HeadIsReady DEF LoopDispatchFails, Sched!DispatchFails
<1>8. CASE RunShutdown
  <2>1. /\ pc' = "out" /\ estate' = "STOPPED" /\ outcome' = "ok" /\ Live = {}
        /\ UNCHANGED <<current, kern>> /\ \E R : Reap(R)
    BY <1>8 DEF RunShutdown, QuietInv
  <2>2. current = None
    BY <2>1 DEF IInv, SchedulerTracksLive
  <2>3. Live' = {}
    BY <2>1 DEF Reap, Live, Table
  <2> QED BY <2>1, <2>2, <2>3 DEF QuietInv
<1> QED BY <1>1, <1>2, <1>3, <1>4, <1>5, <1>6, <1>7, <1>8 DEF Loop

\* What host programs and senders of SIGTERM and SIGKILL do.
LEMMA QuietWorld ==
  ASSUME ~JobControl, ~EarlyStop, IInv, QuietInv, World PROVE QuietInv'
<1> USE DEF records, schedvars, runvars
<1>1. ASSUME UNCHANGED <<state, current, estate, pc, outcome>>,
             \A h \in Host : kern'[h].event = "none"
      PROVE  QuietInv'
  BY <1>1, SameTable DEF QuietInv
<1>2. ASSUME NEW h \in Host, NEW s \in Status, HostExit(h, s) PROVE QuietInv'
  <2>1. UNCHANGED <<state, current, estate, pc, outcome>>
    BY <1>2 DEF HostExit
  <2>2. \A k \in Host : kern'[k].event = "none"
    BY <1>2 DEF HostExit, QuietInv, IInv, TypeOK, ChildType
  <2> QED BY <1>1, <2>1, <2>2
<1>3. ASSUME NEW h \in Host, NEW sig \in Signals, NEW s \in Status, HostSignal(h, sig, s)
      PROVE  QuietInv'
  <2>1. UNCHANGED <<state, current, estate, pc, outcome>>
    BY <1>3 DEF HostSignal
  <2>2. \A k \in Host : kern'[k].event = "none"
    BY <1>3, DeliverQuiet DEF HostSignal
  <2> QED BY <1>1, <2>1, <2>2
<1>4. ~EmblaStop
  BY DEF EmblaStop
<1> QED BY <1>2, <1>3, <1>4 DEF World

\* embla_run never returns -1 as long as nobody sends SIGSTOP or SIGCONT and no
\* handler calls embla_stop.
THEOREM RunCorrect == ~JobControl /\ ~EarlyStop => (Spec => []RunNeverFails)
<1> SUFFICES ASSUME ~JobControl, ~EarlyStop PROVE Spec => []RunNeverFails
  OBVIOUS
<1>1. Init => QuietInv
  BY DEF Init, QuietInv, NoChild, Live, Table
<1>2. IInv /\ QuietInv /\ [Next]_vars => QuietInv'
  <2>1. UNCHANGED vars /\ QuietInv => QuietInv'
    BY SameTable DEF vars, QuietInv
  <2> QED BY <2>1, QuietClient, QuietLoop, QuietWorld DEF Next
<1>3. QuietInv => RunNeverFails
  BY DEF QuietInv, RunNeverFails
<1> QED BY <1>1, <1>2, <1>3, InvCorrect, PTL DEF Spec
=============================================================================
