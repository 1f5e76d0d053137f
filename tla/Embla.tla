------------------------------- MODULE Embla --------------------------------
(***************************************************************************)
(* The runtime of embla.c: the process table, the process groups, the      *)
(* scheduler, the executor's host processes, embla_run and the calls a     *)
(* client makes when it is not inside embla_run.                           *)
(*                                                                         *)
(* The library is single threaded: a call is one step, and so is each of   *)
(* the two halves of an iteration of embla_run (poll and handle one event; *)
(* dispatch and look for live processes).  Host processes run, stop,       *)
(* continue and die between any two steps, and embla_stop may come from a  *)
(* signal handler at any moment of embla_run.                              *)
(*                                                                         *)
(* Assumptions.  malloc does not fail.  NoPidReuse: the kernel does not    *)
(* hand out a process id that a record or a group of Embla still holds.    *)
(* Host programs do not leave the process group they are put in.           *)
(***************************************************************************)
EXTENDS Naturals, Sequences, FiniteSets, ProcessState

CONSTANTS MaxPid, MaxGid,     \* ids are 1 .. Max; beyond them the space is exhausted
          ProcessCapacity,    \* PROCESS_MANAGER_INITIAL_CAPACITY
          GroupCapacity,      \* PROCESS_GROUP_MANAGER_INITIAL_CAPACITY
          MemberCapacity,     \* PROCESS_GROUP_INITIAL_CAPACITY
          QueueCapacity,      \* SCHEDULER_INITIAL_CAPACITY
          Host,               \* host process ids
          None,               \* EMBLA_INVALID_HOST_PID, no status, no current process
          Status,             \* what a host process may report when it ends
          Caps,               \* the limits clients give process_group_set_max_members
          MaxStrays,          \* bound on children of the host program that Embla did not spawn
          JobControl,         \* whether anyone sends SIGSTOP and SIGCONT
          EarlyStop,          \* whether a signal handler calls embla_stop
          DeadParents         \* whether clients call embla_spawn_child on a TERMINATED record

ASSUME BoundsAssumption ==
    /\ MaxPid \in Nat /\ MaxGid \in Nat /\ MaxStrays \in Nat
    /\ ProcessCapacity \in Nat \ {0}
    /\ GroupCapacity \in Nat \ {0}
    /\ MemberCapacity \in Nat \ {0}
    /\ QueueCapacity \in Nat /\ ProcessCapacity <= QueueCapacity
    /\ Caps \subseteq Nat
    /\ JobControl \in BOOLEAN /\ EarlyStop \in BOOLEAN /\ DeadParents \in BOOLEAN
ASSUME NoneAssumption == None \notin Host \cup Status \cup Nat

Pid == 1 .. MaxPid
Gid == 1 .. MaxGid
Root == 0                     \* EMBLA_ROOT_PID

VARIABLES
    state,      \* Pid -> state of the record, "FREE" when the table has none
    info,       \* Pid -> the record's parent, group, host id and exit status
    next_pid,   \* process manager: next id to allocate
    grp,        \* Gid -> members, host id and member limit of the group
    gids,       \* the groups in the group table
    next_gid,   \* group manager: next id to allocate
    queue,      \* scheduler: the ready queue
    current,    \* scheduler: the dispatched process, or None
    estate,     \* enum EmblaState
    pc,         \* where embla_run is: "out", "poll" or "dispatch"
    outcome,    \* what the last embla_run returned
    kern,       \* Host -> the kernel's view of the child
    strays      \* children of the host program unknown to Embla

records == <<state, info, next_pid>>
groupvars == <<grp, gids, next_gid>>
schedvars == <<queue, current>>
runvars == <<estate, pc, outcome>>
vars == <<state, info, next_pid, grp, gids, next_gid, queue, current,
          estate, pc, outcome, kern, strays>>

\* The scheduler, used through the operations it promises.
Sched == INSTANCE ReadyQueue WITH
            Process <- Pid, NULL <- None, Capacity <- QueueCapacity

NoInfo == [parent |-> Root, group |-> 0, host |-> None, status |-> None]
NoGroup == [members |-> {}, host |-> None, cap |-> None]
NoChild == [life |-> "none", pgid |-> None, event |-> "none", status |-> None]

Table == {p \in Pid : state[p] # "FREE"}
\* Mutant: terminated records count as live.
LiveCountsAll == Table

Live == {p \in Table : state[p] # "TERMINATED"}     \* process_manager_live_count
Children(q) == {p \in Table : info[p].parent = q}
InGroup(g) == grp[g].members

Init ==
    /\ state = [p \in Pid |-> "FREE"]
    /\ info = [p \in Pid |-> NoInfo]
    /\ next_pid = 1
    /\ grp = [g \in Gid |-> NoGroup]
    /\ gids = {}
    /\ next_gid = 1
    /\ queue = <<>>
    /\ current = None
    /\ estate = "STOPPED"
    /\ pc = "out"
    /\ outcome = "none"
    /\ kern = [h \in Host |-> NoChild]
    /\ strays \in 0 .. MaxStrays

-----------------------------------------------------------------------------
(* The kernel, as executor.c uses it.                                      *)

\* An id fork may return: not a process or a process group of the kernel and,
\* by NoPidReuse, not held by a record or a group of Embla.
Forkable(h) ==
    /\ kern[h].life = "none"
    /\ \A k \in Host : kern[k].life # "none" => kern[k].pgid # h
    /\ \A p \in Table : info[p].host # h
    /\ \A g \in gids : grp[g].host # h

Born(pgid) == [life |-> "run", pgid |-> pgid, event |-> "none", status |-> None]

\* A process group exists as long as one of its processes is not reaped.
GroupExists(pgid) == \E k \in Host : kern[k].life # "none" /\ kern[k].pgid = pgid

\* Stop and continue reports are not queued: the later replaces the earlier.
\* A stopped process keeps SIGTERM pending; one that survives SIGTERM is as if
\* it had not been sent, and may end later (HostExit).
Signalled(child, sig, s) ==
    CASE sig = "STOP" /\ child.life = "run" ->
           [child EXCEPT !.life = "stopped", !.event = "stop"]
      [] sig = "CONT" /\ child.life = "stopped" ->
           [child EXCEPT !.life = "run", !.event = "cont"]
      [] sig = "KILL" /\ child.life \in {"run", "stopped"} ->
           [child EXCEPT !.life = "zombie", !.event = "none", !.status = s]
      [] sig = "TERM" /\ child.life = "run" ->
           [child EXCEPT !.life = "zombie", !.event = "none", !.status = s]
      [] OTHER -> child

Signals == IF JobControl THEN {"STOP", "CONT", "TERM", "KILL"} ELSE {"TERM", "KILL"}

Deliver(targets, sig, s) ==
    kern' = [h \in Host |-> IF h \in targets THEN Signalled(kern[h], sig, s) ELSE kern[h]]

\* A program ends by itself, or is killed, with a status.
HostExit(h, s) ==
    /\ kern[h].life = "run"
    /\ kern' = [kern EXCEPT ![h] = [@ EXCEPT !.life = "zombie", !.event = "none", !.status = s]]
    /\ UNCHANGED <<records, groupvars, schedvars, runvars, strays>>

\* A signal from outside Embla.
HostSignal(h, sig, s) ==
    /\ sig \in Signals
    /\ kern[h] # Signalled(kern[h], sig, s)
    /\ Deliver({h}, sig, s)
    /\ UNCHANGED <<records, groupvars, schedvars, runvars, strays>>

-----------------------------------------------------------------------------
(* Spawning.                                                               *)

\* Mutant: the id space is never exhausted.
CanCreateAnyId == Cardinality(Table) < ProcessCapacity

\* Mutant: the process table takes more records than it has slots.
CanCreateAnySlot == next_pid <= MaxPid

\* process_manager_create_process finds a free slot and an id.
CanCreate == Cardinality(Table) < ProcessCapacity /\ next_pid <= MaxPid

\* process_group_manager_create_group finds a free slot and an id.
CanCreateGroup == Cardinality(gids) < GroupCapacity /\ next_gid <= MaxGid

\* The limit embla_spawn_internal checks before it creates a record.
Admits(g) == grp[g].cap # None => Cardinality(InGroup(g)) < grp[g].cap

\* Mutant: a child leads a host group of its own.
SpawnedOwnGroup(parent, g, h, pgid) ==
    /\ Len(queue) < QueueCapacity
    /\ state' = [state EXCEPT ![next_pid] = "READY"]
    /\ info' = [info EXCEPT ![next_pid] =
                  [parent |-> parent, group |-> g, host |-> h, status |-> None]]
    /\ next_pid' = next_pid + 1
    /\ queue' = Append(queue, next_pid)
    /\ kern' = [kern EXCEPT ![h] = Born(h)]
    /\ UNCHANGED <<current, runvars, strays>>

\* What embla_spawn_internal leaves when all of it succeeds: record next_pid,
\* READY and queued, over host process h in the host group pgid.
Spawned(parent, g, h, pgid) ==
    /\ Len(queue) < QueueCapacity
    /\ state' = [state EXCEPT ![next_pid] = "READY"]
    /\ info' = [info EXCEPT ![next_pid] =
                  [parent |-> parent, group |-> g, host |-> h, status |-> None]]
    /\ next_pid' = next_pid + 1
    /\ queue' = Append(queue, next_pid)
    /\ kern' = [kern EXCEPT ![h] = Born(pgid)]
    /\ UNCHANGED <<current, runvars, strays>>

\* embla_spawn: a process of its own group, led on the host by the process.
EmblaSpawn(h) ==
    /\ pc = "out"
    /\ CanCreateGroup /\ CanCreate
    /\ Forkable(h)
    /\ grp' = [grp EXCEPT ![next_gid] = [members |-> {next_pid}, host |-> h, cap |-> None]]
    /\ gids' = gids \cup {next_gid}
    /\ next_gid' = next_gid + 1
    /\ Spawned(Root, next_gid, h, h)

\* The steps of embla_spawn_internal that may fail once there is a record:
\* process_group_add, executor_spawn, process_group_set_host_id,
\* process_transition and scheduler_add.  Whether one can is left open: the
\* rollback is there for each.
SpawnSteps == {"add", "spawn", "set_host", "transition", "schedule"}

\* executor_spawn was successful before the step.  (It kills and reaps what it
\* forked before it fails itself.)
ForkedBefore(step) == step \in {"set_host", "transition", "schedule"}

\* What embla_spawn_internal has done, with h as the host process, when it comes
\* to the step; groups is the group table it found.
MadeBefore(step, parent, groups, g, h) ==
    [state |-> [state EXCEPT ![next_pid] = IF step = "schedule" THEN "READY" ELSE "CREATED"],
     info |-> [info EXCEPT ![next_pid] =
                 [parent |-> parent, group |-> g, status |-> None,
                  host |-> IF ForkedBefore(step) THEN h ELSE None]],
     grp |-> [groups EXCEPT ![g] =
                [members |-> IF step = "add" THEN @.members ELSE @.members \cup {next_pid},
                 host |-> IF step \in {"transition", "schedule"} /\ @.host = None
                          THEN h ELSE @.host,
                 cap |-> @.cap]],
     kern |-> IF ForkedBefore(step)
              THEN [kern EXCEPT ![h] = Born(IF groups[g].host = None THEN h ELSE groups[g].host)]
              ELSE kern]

\* Mutant: the host process is left running.
RolledBackNoKill(made, g, spawned) ==
    [state |-> [made.state EXCEPT ![next_pid] = "FREE"],
     info |-> [made.info EXCEPT ![next_pid] = NoInfo],
     grp |-> [made.grp EXCEPT ![g].members = @ \ {next_pid}],
     kern |-> made.kern]

\* embla_spawn_rollback: the host process that the record names is killed and
\* reaped, and the record leaves the group and the table.
RolledBack(made, g, spawned) ==
    [state |-> [made.state EXCEPT ![next_pid] = "FREE"],
     info |-> [made.info EXCEPT ![next_pid] = NoInfo],
     grp |-> [made.grp EXCEPT ![g].members = @ \ {next_pid}],
     kern |-> IF spawned THEN [made.kern EXCEPT ![made.info[next_pid].host] = NoChild]
                         ELSE made.kern]

\* embla_spawn_internal fails at the step.
FailedSpawn(step, parent, groups, g, h) ==
    RolledBack(MadeBefore(step, parent, groups, g, h), g, ForkedBefore(step))

\* embla_spawn fails after it created its group: there is no record to be had,
\* or a later step fails and is rolled back; then the group is destroyed, if it
\* is empty.
EmblaSpawnFails ==
    /\ pc = "out"
    /\ CanCreateGroup
    /\ next_gid' = next_gid + 1
    /\ \/ ~CanCreate /\ UNCHANGED <<records, grp, gids, kern>>
       \/ /\ CanCreate /\ next_pid' = next_pid + 1
          /\ \E step \in SpawnSteps, h \in Host :
               LET groups == [grp EXCEPT ![next_gid] = NoGroup]
                   left == FailedSpawn(step, Root, groups, next_gid, h)
                   empty == left.grp[next_gid].members = {}
               IN  /\ ForkedBefore(step) => Forkable(h)
                   /\ state' = left.state /\ info' = left.info /\ kern' = left.kern
                   /\ grp' = IF empty THEN [left.grp EXCEPT ![next_gid] = NoGroup] ELSE left.grp
                   /\ gids' = IF empty THEN gids ELSE gids \cup {next_gid}
    /\ UNCHANGED <<schedvars, runvars, strays>>

\* The parents clients pass to embla_spawn_child; the code takes any record.
Parents == IF DeadParents THEN Table ELSE Live

\* embla_spawn_child: a process in the group of its parent.  The kernel
\* refuses setpgid when the last host process of the group is reaped.
EmblaSpawnChild(q, h) ==
    /\ pc = "out"
    /\ q \in Parents
    /\ LET g == info[q].group IN
         /\ g \in gids /\ Admits(g) /\ CanCreate
         /\ Cardinality(InGroup(g)) < MemberCapacity
         /\ Forkable(h)
         /\ GroupExists(grp[g].host)
         /\ grp' = [grp EXCEPT ![g].members = @ \cup {next_pid}]
         /\ Spawned(q, g, h, grp[g].host)
    /\ UNCHANGED <<gids, next_gid>>

\* embla_spawn_child fails after it created the record.
EmblaSpawnChildFails(q) ==
    /\ pc = "out"
    /\ q \in Parents
    /\ info[q].group \in gids /\ Admits(info[q].group) /\ CanCreate
    /\ next_pid' = next_pid + 1
    /\ \E step \in SpawnSteps, h \in Host :
         LET left == FailedSpawn(step, q, grp, info[q].group, h) IN
         /\ ForkedBefore(step) => Forkable(h)
         /\ state' = left.state /\ info' = left.info /\ grp' = left.grp /\ kern' = left.kern
    /\ UNCHANGED <<gids, next_gid, schedvars, runvars, strays>>

\* process_group_set_max_members.
SetMaxMembers(g, n) ==
    /\ pc = "out"
    /\ g \in gids
    /\ grp' = [grp EXCEPT ![g].cap = n]
    /\ UNCHANGED <<records, gids, next_gid, schedvars, runvars, kern, strays>>

-----------------------------------------------------------------------------
(* Signals sent through the API.                                           *)

\* The records each call accepts.
Accepts(p, sig) ==
    CASE sig = "STOP" -> state[p] \notin {"TERMINATED", "STOPPED"}  \* embla_stop_process
      [] sig = "CONT" -> state[p] = "STOPPED"                       \* embla_continue_process
      [] sig \in {"TERM", "KILL"} -> state[p] # "TERMINATED"        \* embla_terminate, embla_kill

\* embla_stop_process, embla_continue_process, embla_terminate, embla_kill.
EmblaSignal(p, sig, s) ==
    /\ pc = "out"
    /\ p \in Table /\ sig \in Signals
    /\ Accepts(p, sig)
    /\ Deliver({info[p].host}, sig, s)
    /\ UNCHANGED <<records, groupvars, schedvars, runvars, strays>>

\* embla_signal_group and the four calls that fix its signal.
EmblaSignalGroup(g, sig, s) ==
    /\ pc = "out"
    /\ g \in gids /\ sig \in Signals
    /\ GroupExists(grp[g].host)
    /\ Deliver({h \in Host : kern[h].pgid = grp[g].host}, sig, s)
    /\ UNCHANGED <<records, groupvars, schedvars, runvars, strays>>

-----------------------------------------------------------------------------
(* Reaping.                                                                *)

\* embla_reap_found_process succeeds: the group exists and lists the process.
Reapable(p) == info[p].group \in gids /\ p \in InGroup(info[p].group)

\* Mutant: a group that becomes empty stays in the table.
ReapKeepsGroups(R) ==
    /\ state' = [p \in Pid |-> IF p \in R THEN "FREE" ELSE state[p]]
    /\ info' = [p \in Pid |-> IF p \in R THEN NoInfo ELSE info[p]]
    /\ grp' = [g \in Gid |-> [grp[g] EXCEPT !.members = @ \ R]]
    /\ UNCHANGED <<gids, next_pid, next_gid>>

\* embla_reap_found_process for each record of R: the records leave their
\* groups and the table, and a group that becomes empty is destroyed.
Reap(R) ==
    LET emptied == {g \in gids : InGroup(g) # {} /\ InGroup(g) \subseteq R} IN
    /\ state' = [p \in Pid |-> IF p \in R THEN "FREE" ELSE state[p]]
    /\ info' = [p \in Pid |-> IF p \in R THEN NoInfo ELSE info[p]]
    /\ grp' = [g \in Gid |-> IF g \in emptied THEN NoGroup
                             ELSE [grp[g] EXCEPT !.members = @ \ R]]
    /\ gids' = gids \ emptied
    /\ UNCHANGED <<next_pid, next_gid>>

\* embla_reap_child: one terminated child of q, which may be Root.
EmblaReapChild(q, p) ==
    /\ pc = "out"
    /\ p \in Children(q) /\ state[p] = "TERMINATED"
    /\ Reapable(p)
    /\ Reap({p})
    /\ UNCHANGED <<schedvars, runvars, kern, strays>>

\* embla_reap_process: a given terminated process.
EmblaReapProcess(p) ==
    /\ pc = "out"
    /\ p \in Table /\ state[p] = "TERMINATED"
    /\ Reapable(p)
    /\ Reap({p})
    /\ UNCHANGED <<schedvars, runvars, kern, strays>>

-----------------------------------------------------------------------------
(* embla_run.                                                              *)

\* embla_run returns -1.
Abort == estate' = "STOPPED" /\ pc' = "out" /\ outcome' = "error"

\* embla_run enters its loop, nothing to dispatch first.
RunEnter ==
    /\ pc = "out" /\ estate = "STOPPED"
    /\ queue = <<>>
    /\ estate' = "RUNNING" /\ pc' = "poll"
    /\ UNCHANGED <<records, groupvars, schedvars, outcome, kern, strays>>

\* embla_run dispatches the head of the queue and enters its loop.
RunEnterDispatch ==
    /\ pc = "out" /\ estate = "STOPPED"
    /\ Sched!DispatchOK
    /\ estate' = "RUNNING" /\ pc' = "poll"
    /\ UNCHANGED <<info, next_pid, groupvars, outcome, kern, strays>>

\* The initial dispatch fails: a process is still current from an earlier
\* run, or the head of the queue cannot become RUNNING.
RunEnterFails ==
    /\ pc = "out" /\ estate = "STOPPED"
    /\ queue # <<>>
    /\ \/ current # None /\ UNCHANGED <<state, schedvars>>
       \/ Sched!DispatchFails
    /\ Abort
    /\ UNCHANGED <<info, next_pid, groupvars, kern, strays>>

Polling == pc = "poll" /\ estate = "RUNNING"

\* What executor_poll_any may report of child h.
Report(h) == IF kern[h].life = "zombie" THEN "exit" ELSE kern[h].event

\* process_manager_get_by_host_id.
Owner(h, p) == p \in Table /\ info[p].host = h

\* executor_poll_any collects the report of child h: a zombie is gone.
Collect(h) ==
    kern' = [kern EXCEPT ![h] = IF @.life = "zombie" THEN NoChild
                                ELSE [@ EXCEPT !.event = "none"]]

\* Mutant: children keep the process that ended as their parent.
EndedNoReparent(p, s) == [info EXCEPT ![p].status = s]

\* Mutant: the exit status is not stored.
EndedNoStatus(p, s) ==
    [q \in Pid |-> IF q \in Children(p) THEN [info[q] EXCEPT !.parent = Root] ELSE info[q]]

\* Every child of p is given to Root (process_manager_reparent_children) and
\* p has its exit status.
Ended(p, s) ==
    [q \in Pid |-> [info[q] EXCEPT !.parent = IF q \in Children(p) THEN Root ELSE @,
                                   !.status = IF q = p THEN s ELSE @]]

\* Mutant: the process stays in the scheduler.
SchedulerRemoveNothing(p) == UNCHANGED <<queue, current>>

\* Mutant: a queued process stays in the queue.
SchedulerRemoveOnlyCurrent(p) ==
    /\ current' = IF current = p THEN None ELSE current
    /\ UNCHANGED queue

\* scheduler_remove.
SchedulerRemove(p) ==
    \/ current = p /\ current' = None /\ UNCHANGED queue
    \/ /\ current # p /\ Sched!Occurs(queue, p)
       /\ queue' = Sched!Without(queue, Sched!First(queue, p))
       /\ UNCHANGED current

\* embla_handle_child_event for a child that ended.
PollExit(h, p) ==
    /\ Polling
    /\ Report(h) = "exit" /\ Owner(h, p)
    /\ CanTransition(state[p], "TERMINATED")
    /\ Collect(h)
    /\ state' = [state EXCEPT ![p] = "TERMINATED"]
    /\ info' = Ended(p, kern[h].status)
    /\ SchedulerRemove(p)
    /\ pc' = "dispatch"
    /\ UNCHANGED <<next_pid, groupvars, estate, outcome, strays>>

\* The state a stop or continue report asks for.
Asked(event) == IF event = "stop" THEN "STOPPED" ELSE "RUNNING"

\* embla_handle_child_event for a child that stopped or continued.
PollJobControl(h, p) ==
    /\ Polling
    /\ Report(h) \in {"stop", "cont"} /\ Owner(h, p)
    /\ CanTransition(state[p], Asked(Report(h)))
    /\ Collect(h)
    /\ state' = [state EXCEPT ![p] = Asked(Report(h))]
    /\ pc' = "dispatch"
    /\ UNCHANGED <<info, next_pid, groupvars, schedvars, estate, outcome, strays>>

\* The record cannot take the state the report asks for: embla_run gives up.
PollJobControlFails(h, p) ==
    /\ Polling
    /\ Report(h) \in {"stop", "cont"} /\ Owner(h, p)
    /\ ~CanTransition(state[p], Asked(Report(h)))
    /\ Collect(h)
    /\ Abort
    /\ UNCHANGED <<records, groupvars, schedvars, strays>>

\* A child that no record names: collected and ignored.
PollStray ==
    /\ Polling
    /\ strays > 0
    /\ strays' = strays - 1
    /\ pc' = "dispatch"
    /\ UNCHANGED <<records, groupvars, schedvars, estate, outcome, kern>>

\* Nothing to report yet, and no live process: embla_stop.
PollIdle ==
    /\ Polling
    /\ \A h \in Host : Report(h) = "none"
    /\ Live = {}
    /\ estate' = "STOPPING"
    /\ UNCHANGED <<records, groupvars, schedvars, pc, outcome, kern, strays>>

\* The end of an iteration: embla_stop when no process is live.
EndIteration ==
    /\ pc' = "poll"
    /\ estate' = IF Live = {} THEN "STOPPING" ELSE estate
    /\ UNCHANGED outcome

\* After an event: nothing to dispatch.
LoopNoDispatch ==
    /\ pc = "dispatch"
    /\ current # None \/ queue = <<>>
    /\ EndIteration
    /\ UNCHANGED <<records, groupvars, schedvars, kern, strays>>

\* After an event: the head of the queue becomes current.
LoopDispatch ==
    /\ pc = "dispatch"
    /\ Sched!DispatchOK
    /\ EndIteration
    /\ UNCHANGED <<info, next_pid, groupvars, kern, strays>>

\* After an event: the head of the queue cannot become RUNNING.
LoopDispatchFails ==
    /\ pc = "dispatch"
    /\ Sched!DispatchFails
    /\ Abort
    /\ UNCHANGED <<info, next_pid, groupvars, kern, strays>>

\* embla_stop, from a signal handler.
EmblaStop ==
    /\ EarlyStop
    /\ pc # "out" /\ estate = "RUNNING"
    /\ estate' = "STOPPING"
    /\ UNCHANGED <<records, groupvars, schedvars, pc, outcome, kern, strays>>

\* embla_shutdown reaps the terminated children of Root.  Were one of them not
\* Reapable it would return -1 and leave the runtime STOPPING for good.
RunShutdown ==
    LET R == {p \in Children(Root) : state[p] = "TERMINATED"} IN
    /\ pc = "poll" /\ estate = "STOPPING"
    /\ \A p \in R : Reapable(p)
    /\ Reap(R)
    /\ estate' = "STOPPED" /\ pc' = "out" /\ outcome' = "ok"
    /\ UNCHANGED <<schedvars, kern, strays>>

-----------------------------------------------------------------------------
Client ==
    \/ \E h \in Host : EmblaSpawn(h)
    \/ EmblaSpawnFails
    \/ \E q \in Pid, h \in Host : EmblaSpawnChild(q, h)
    \/ \E q \in Pid : EmblaSpawnChildFails(q)
    \/ \E g \in Gid, n \in Caps : SetMaxMembers(g, n)
    \/ \E p \in Pid, sig \in Signals, s \in Status : EmblaSignal(p, sig, s)
    \/ \E g \in Gid, sig \in Signals, s \in Status : EmblaSignalGroup(g, sig, s)
    \/ \E q \in Pid \cup {Root}, p \in Pid : EmblaReapChild(q, p)
    \/ \E p \in Pid : EmblaReapProcess(p)
    \/ RunEnter \/ RunEnterDispatch \/ RunEnterFails

Loop ==
    \/ \E h \in Host, p \in Pid :
         PollExit(h, p) \/ PollJobControl(h, p) \/ PollJobControlFails(h, p)
    \/ PollStray \/ PollIdle
    \/ LoopNoDispatch \/ LoopDispatch \/ LoopDispatchFails
    \/ RunShutdown

World ==
    \/ \E h \in Host, s \in Status : HostExit(h, s)
    \/ \E h \in Host, sig \in Signals, s \in Status : HostSignal(h, sig, s)
    \/ EmblaStop

Next == Client \/ Loop \/ World

Spec == Init /\ [][Next]_vars

\* embla_run keeps iterating: a thread inside the loop is not suspended for ever.
FairSpec == Spec /\ WF_vars(Loop)

-----------------------------------------------------------------------------
(* Properties.                                                             *)

InfoType == [parent : {Root} \cup Pid, group : {0} \cup Gid,
             host : Host \cup {None}, status : Status \cup {None}]
GroupType == [members : SUBSET Pid, host : Host \cup {None}, cap : Nat \cup {None}]
ChildType == [life : {"none", "run", "stopped", "zombie"}, pgid : Host \cup {None},
              event : {"none", "stop", "cont"}, status : Status \cup {None}]

\* Type invariant of the runtime's state.
TypeOK ==
    /\ state \in [Pid -> States \cup {"FREE"}]
    /\ info \in [Pid -> InfoType]
    /\ next_pid \in 1 .. MaxPid + 1
    /\ grp \in [Gid -> GroupType]
    /\ gids \subseteq Gid
    /\ next_gid \in 1 .. MaxGid + 1
    /\ queue \in Seq(Pid)
    /\ current \in Pid \cup {None}
    /\ estate \in {"STOPPED", "RUNNING", "STOPPING"}
    /\ pc \in {"out", "poll", "dispatch"}
    /\ outcome \in {"none", "ok", "error"}
    /\ kern \in [Host -> ChildType]
    /\ strays \in 0 .. MaxStrays

\* The scheduler holds each live process exactly once, queued or current, and
\* holds nothing else: a record is never freed while the scheduler points to
\* it, and embla_handle_child_event always finds the process it removes.
SchedulerTracksLive ==
    /\ \A p \in Live : p = current \/ Sched!Occurs(queue, p)
    /\ \A i \in 1 .. Len(queue) : queue[i] \in Live /\ queue[i] # current
    /\ current # None => current \in Live
    /\ \A i, j \in 1 .. Len(queue) : queue[i] = queue[j] => i = j

\* Embla and the kernel agree on who is alive: every unreaped host process has
\* one record and it is not TERMINATED, so its exit will be accounted for; and
\* the host id of a record that is not TERMINATED is that of its own unreaped
\* process, so embla_kill cannot reach a recycled id.
HostsTracked ==
    /\ \A h \in Host : kern[h].life # "none" => \E p \in Live : info[p].host = h
    /\ \A p \in Live : info[p].host \in Host /\ kern[info[p].host].life # "none"
    /\ \A p, q \in Table : info[p].host = info[q].host => p = q

\* The two sides of group membership agree and no group is empty, so reaping a
\* process never fails and never leaves a group behind.
GroupsConsistent ==
    /\ \A g \in gids : InGroup(g) # {} /\ InGroup(g) = {p \in Table : info[p].group = g}
    /\ \A p \in Table : info[p].group \in gids

\* Ids are handed out once: what lies beyond the counters is unused.
IdsFresh ==
    /\ \A p \in Pid : p >= next_pid => state[p] = "FREE"
    /\ \A g \in gids : g < next_gid
    /\ \A p \in Pid : state[p] # "CREATED"

\* Each group has a host group of its own, which its live members are in, and
\* the kernel holds nothing of a process that was collected.
HostGroupsMatch ==
    /\ \A g \in gids : grp[g].host \in Host
    /\ \A g, k \in gids : grp[g].host = grp[k].host => g = k
    /\ \A p \in Live : kern[info[p].host].pgid = grp[info[p].group].host
    /\ \A h \in Host : kern[h].life = "none" => kern[h] = NoChild

\* kill(-pgid) of embla_signal_group reaches exactly the unreaped processes of
\* the group's members: host process groups mirror Embla's groups.
GroupSignalExact ==
    \A g \in gids : {h \in Host : kern[h].pgid = grp[g].host}
                      = {info[p].host : p \in InGroup(g) \cap Live}

\* The parent of a record is Root or a process that has not terminated: a
\* terminated process has no children, so whatever it left is Root's to reap.
ParentsAlive == \A p \in Table : info[p].parent \in {Root} \cup Live

\* embla_spawn_internal never fails at its last step, scheduler_add: the table
\* is full before the ready queue is.
SchedulerHasRoom == CanCreate => Len(queue) < QueueCapacity

\* A zombie is collected only into the record of its own process, which then
\* is TERMINATED with the status the kernel reported and keeps it until the
\* record is reaped.
ExitsRecorded ==
    [][/\ \A h \in Host : kern[h].life = "zombie" /\ kern'[h].life = "none" =>
            \E p \in Table : /\ info[p].host = h
                             /\ state'[p] = "TERMINATED"
                             /\ info'[p].status = kern[h].status
       /\ \A p \in Table : state[p] = "TERMINATED" =>
            state'[p] = "FREE" \/ info'[p].status = info[p].status]_vars

\* embla_run that returns 0 because no process is live leaves nothing behind:
\* no record, no group, no host process.
DrainedRunLeavesNothing ==
    [][(outcome' = "ok" /\ pc = "poll" /\ pc' = "out" /\ Live = {}) =>
         Table' = {} /\ gids' = {} /\ \A h \in Host : kern'[h].life = "none"]_vars

\* embla_run never returns -1.  It holds as long as nobody uses job control and
\* nobody leaves embla_run early through embla_stop.
RunNeverFails == outcome # "error"

\* The inductive invariant behind the properties above.
IInv ==
    /\ TypeOK
    /\ SchedulerTracksLive
    /\ HostsTracked
    /\ GroupsConsistent
    /\ IdsFresh
    /\ HostGroupsMatch
    /\ ~DeadParents => ParentsAlive

\* If the host programs all end, embla_run returns.
RunReturns ==
    (<>[](\A h \in Host : kern[h].life \in {"none", "zombie"})) => ((pc # "out") ~> (pc = "out"))
=============================================================================
