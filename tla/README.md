# A TLA+ model of Embla

Embla is a C library that runs host processes under records of its own (pid, parent, group, state), with a
scheduler that keeps one of them "current", and a service layer on top that restarts, orders and shuts down
services. This directory holds TLA+ modules translated from the C source, TLC configurations that check them
on small instances, and TLAPS proofs for every value of the constants.

Paths below are relative to the repository: `src/*.c`, `include/embla/*.h`, `tests/*.c`.

## The system

The library is single threaded and has no locks. Its concurrency is with the host: programs run, stop,
continue and die between any two steps of Embla; their reports come out of one `wait4` queue, also for
children Embla did not spawn; signal handlers may call `embla_stop` or `embla_request_shutdown`.

| Component | State | Operations | Used by |
|---|---|---|---|
| process record (`process.c`) | state, ids, host id, exit status | `process_transition` with its table of allowed transitions | all |
| scheduler (`scheduler.c`) | ring of pointers, head, tail, count, current | add, remove, next, dispatch, yield | runtime |
| process table (`process_manager.c`) | slots, next pid, a cursor | create, destroy, lookups, live count, wait for a child, reparent, two iterators | runtime, orchestrator |
| groups (`process_group*.c`) | members, host group id, member limit; slots, next gid | add, remove, limit; create, destroy | runtime |
| executor (`executor.c`) | none of its own | spawn, signal, poll; the child side of a spawn | runtime, orchestrator |
| runtime (`embla.c`) | lifecycle state | spawn with rollback, spawn child, signals, reap, run, stop, shutdown request | clients, services |
| service lifecycle (`service.c`, `service_lifecycle.c`) | STOPPED/RUNNING, its process, stop request | start, stop, kill, reap | clients, restart, orchestrator |
| restart policy (`service_restart.c`) | pending restart, its time, consecutive count, given up | tick | clients, orchestrator |
| registry (`service_registry.c`) | slots of services | register, unregister, get | clients, orchestrator |
| orchestrator (`service_orchestrator.c`) | none between calls | start order, start all, drain one event, stop all, supervise | clients, `main.c` |
| configuration (`process_config.c`), limits (`platform/`) | what a spawned program is to start with | setters; applied by the child side of a spawn | executor |
| pipes, socket pairs (`pipe.c`, `socket_pair.c`) | two descriptors each | create, clear close-on-exec, close an end, destroy | clients |
| unix sockets (`unix_socket.c`) | a descriptor and a path | create, destroy, accept, connect, send | clients, notification |
| notification (`service_notify.c`) | none | three sends, a parser | clients |
| log, strings | none | see "Not modelled" | all |

Components interact by direct calls. Two couplings are worth knowing. A record is pointed to by the table, by
its group, by the scheduler and by a service at once, and each of them has to let go before it is freed. And
there are two readers of the `wait4` queue: `embla_run`, which takes an ended process out of the scheduler,
and `service_registry_drain_one_event`, which does not.

What is hard here: a spawn that fails half way; exits of parents and children in any order; stop and continue
reports that are late or that replace each other; a deadline that passes while an exit is being collected; an
exit collected by the wait for another service; a stop request that outlives the process it was meant for; a
ring buffer that loses an element from its middle; records that move under an open iterator; descriptor
numbers that come back as something else; children that hold everybody's pipes between fork and execve; sockets
whose name and descriptor live and die apart. `PROJECT.json` lists each with its line.

What makes each part correct:

- scheduler: it is a FIFO; nothing is lost or doubled by dispatch and yield.
- runtime: table, groups, scheduler and kernel agree on which processes exist; a signal to a group reaches its
  members; exits are recorded for the right record; a run that drains leaves nothing; the run returns.
- services: one process for each running service and no other; the restart policy is kept, spaced and bounded; a
  stop that was accepted holds; shutdown is in reverse dependency order, leaves nothing running and ends.
- registry: a start order exists exactly when dependencies are registered and acyclic, and is topological.
- process table: the array with its moves is a set of records; loops over it see each record once.
- child set-up: a program starts with what it was configured with and nothing else, or does not start.
- sockets: a live socket keeps its name and a dead one loses it, unless its process crashed.

## Modules

| Module | Models | Relation |
|---|---|---|
| `ProcessState` | states and allowed transitions of a record | used by all below |
| `ReadyQueue` | what the scheduler promises: a bounded FIFO and a current process | abstract |
| `Scheduler` | the ring buffer of `scheduler.c` | implements `ReadyQueue` |
| `Embla` | the runtime, table, groups, executor and kernel | uses `ReadyQueue` |
| `Supervisor` | service lifecycle, restart policy, orchestrator | over the calls of `embla.c` it makes |
| `TimedSupervisor` | the restart policy with its clock and delays | extends `Supervisor` |
| `ServiceRegistry` | registration and the start order | computes one of the `StartOrders` of `Supervisor` |
| `RecordSet` | what the process table promises: a set of records | abstract; the table as `Embla` has it |
| `ProcessTable` | the slots, iterators and loops of `process_manager.c` | implements `RecordSet` |
| `Descriptors` | pipes, socket pairs, configuration, the child between fork and execve, limits | |
| `Notify` | unix sockets and notifications, among processes that crash | |
| `SchedulerProofs`, `EmblaProofs`, `ProcessTableProofs`, `SupervisorProofs`, `TimedSupervisorProofs`, `DescriptorsProofs`, `NotifyProofs`, `ServiceRegistryProofs` | theorems | each extends the module it is about |
| `MC...` | instances for TLC | |

### Scheduler, ReadyQueue

The variables are the fields of `struct Scheduler` and the state of each record. There is one action for each
way a call can change something; a call that returns -1 and changes nothing is a stuttering step. The loops of
`scheduler_remove` are one function: every element behind the first occurrence moves one slot. The refinement
mapping is `queue <- Window`, the slots from head on.

### Embla

`state` and `info` are the records, `grp` and `gids` the groups, `queue` and `current` the scheduler seen as
`ReadyQueue`, `estate`, `pc` and `outcome` the runtime, `kern` and `strays` the kernel. Each client call is an
action that is possible while `embla_run` is not running (`pc = "out"`). An iteration of `embla_run` is two
steps: poll and handle one event (`Poll...`), then dispatch and look for live processes (`Loop...`); between
them, as between any two steps, the host moves. `embla_spawn` is one step: the host sees the new child only
through events that Embla collects later. A spawn that fails is composed of what the code does: `SpawnSteps` are the
five steps that can fail, `MadeBefore` is what has been done when it comes to one of them, `RolledBack` is
`embla_spawn_rollback` on that. That only spent ids remain is a lemma of the proofs (`RollbackRestores`) and, through
`HostsTracked` and `GroupsConsistent`, checked by the run.

The kernel is external. A child is running, stopped or a zombie; it has a process group and at most one
unread stop or continue report, the later replacing the earlier; a group exists while one of its processes is
not reaped.

### Supervisor

One action per client call; `start_all`, `stop_all` and `supervise` take a step for each service or event, with
`pc` and `idx` as program counter and loop index. `stop_all` waits in `pc = "term"` and, after SIGKILL, in
`pc = "kill"`. Time is not a number: `due` says that a back-off has elapsed and `expired` that a deadline has
passed; whether a service has run for its stability threshold is a free choice when it is asked.
`drain_one_event` does not call `scheduler_remove`, so `queued` only grows. `asked` is a history variable.
`Calls` is the set of calls the client makes. Services may leave the registry and come back while they run:
`registry` is the sequence of slots, `dropped` the records of processes that no service owns any more, and
`order` the start order of the call in progress, any topological one. `policy` is chosen once, from `Settings`.

### TimedSupervisor

Every action is one of `Supervisor` with what it does to `now`, `last_start_time` and `restart_allowed_at` conjoined.
`due` of `Supervisor`, which there becomes true at any time, is here `now >= restart_allowed_at`, and whether a run
was stable is no longer a free choice. The client makes all calls on a single service: start, stop (refused ones too),
kill, reap, drain, tick. `ShiftLeft` is `1L << exponent` in a long of `LongBits` bits, where a shift too far gives a
negative or a small number; `MaxExponent` stands for the clamp at 30 that prevents it. `autos`, `refused` and `reaped` are
history variables. Delays and the threshold are taken to be natural numbers; the setters accept any number, negative
ones too.

`service_reap` neither clears `stop_requested` nor touches a pending restart. Of a service that the client reaped itself
`RestartPolicyKept`, `NotedStopHolds`, `RestartsSpaced` and `RestsForAReason` say nothing (`reaped`; see "Known
disagreements"); `CrashLoopEnds` holds for all.

### ServiceRegistry

Slots are kept in their order, as the order of the result depends on it. The recursion of
`service_orchestrator_visit` is an explicit stack: `path` has the services whose visit has not returned, and
`followed` the loop variable of each visit (one per service, since a service is visited once). A step is one turn of
a loop, a call or a return; a return of -1 unwinds all visits at once, as nothing happens on the way. Clients change
the registry between searches only, and a change drops the result of the last one, as every caller computes its
own. `Startable` says by definition what the search has to find out: every dependency is registered, and every set
of services has a member that depends on none of the set, which for finitely many services means no cycle.

### ProcessTable, RecordSet

`slots` is the array. `process_manager_destroy_process` moves the last record into the hole; `cursor` is the index
shared by all walks with `first` and `next`; `iter` is one child iterator of a client, open across any other calls;
`loop` is `reparent_children` in progress, a step per child. `RecordSet` has only who is whose child, who is
TERMINATED and the next id. In the refinement mapping a reparent in progress counts as done, since nothing runs
in between. `given`, `owed` and `walked` are history. A child iterator that has passed the slot of a destroyed
record never returns the one that was moved there: `IteratorMissesOnlyMoved` states that nothing else is missed.

### Descriptors

`fds` is the descriptor table of the host program, each entry with the object it is on and its close-on-exec flag;
`ends` is what each `Pipe` or `SocketPair` believes its numbers are. `pipe` and `dup2` hand out and overwrite
numbers as the kernel does, the lowest first, so that a number comes back as something else. A child has a copy
of the table from the fork on; its set-up touches only the copy and is one step, which either comes to `execve` or
ends with the code of the first step that fails. `Steps` has the codes in the order of the code; `MustFail` says which
are certain to fail, `MayFail` which fail for reasons of the kernel's (`setpgid`, `chdir`, `getrlimit`, `setrlimit`,
`execve`). Ids may be set to the program's own, which always succeeds, or to others. `Environments`
says which standard descriptors the host program has, the hard limit, whether memory limits are supported (Linux
or Darwin) and whether the program is root. The client's setters are summed up in the `ProcessConfig` they lead to.

`RedirectionsExact` says what every descriptor of the started program is, without exception. In two cases that is not
what was configured, and the property says what comes instead: a source that is a standard descriptor which an
earlier redirection has replaced gives the replacement, and a source equal to its target keeps its close-on-exec flag,
so that `execve` may close it ("Known disagreements").

### Notify

A socket is a descriptor (`phase`) and a name (`dir`). Create is bind, listen, allocate; destroy, and every rollback
of create, is close and then unlink by path; each is a step of its own, and other processes act in between. Owners
may crash at any step: descriptors go, names stay. A client that connects or sends finds the socket by its path
and, when there is no room, waits for that socket, not for the path. `CleanUp` is another program that removes a name
nobody listens to; the history variable `intruded` has the paths where it did so between a close and its unlink. Messages are sequences of key-value lines;
a status text is a sequence of lines too, so that a newline in it shows.

## Assumptions and abstractions

- `malloc` does not fail, except where `Notify` and `Embla` have rollbacks for it.
- NoPidReuse: the kernel does not give out an id that a record or a group still holds. The code has this window
  too (a TERMINATED record keeps its host id until it is reaped).
- Host programs do not leave the process group they are put in.
- In `Embla` the slots of the process and group tables are sets, which `ProcessTable` justifies for the former.
  `embla_reap_child`, which takes the first terminated child in slot order, takes any; what holds for any choice
  holds for the code's.
- In `Notify` outside programs remove no name of a socket that is open.
- Resource usage numbers and the copies of the last exit kept for clients are left out: nothing reads them back.
- `Supervisor` keeps `consecutive_restart_count` up to `MaxRestarts + 1`; the code only compares it with the
  limit and feeds it to the delay. A service's process is alone in its group, and the ready queue is its length.
- Clients in `Embla` do not call the library while inside `embla_run`, which does not call back.

## Runs

| Run | Instance | Shows |
|---|---|---|
| `scheduler` | 3 processes, 3 slots | ring well formed, refinement of the FIFO |
| `runtime` | 3 records of 4 pids, 2 groups, 3 host ids, job control, early stops, spawns that fail at every step | agreement of table, groups, scheduler and kernel; group signals; drained runs |
| `quiet_run` | 2 exit statuses, member limit 1, an untracked child, children of terminated parents; no job control, no early stop | `embla_run` never fails, records exits exactly, and returns once the host programs end |
| `supervisor` | 2 services, one depending on the other, all calls, unregistering and registering, spawn failures, deadlines, a stray report | one owner and one process for every record, but for services unregistered while they ran; stop order; nothing left running |
| `supervise_live` | supervise, 3 places in the ready queue | recovery while the queue has room, of services without a stop request left from before; shutdown completes, also of a second supervise |
| `restart` | one service under each policy, a clock, a long of 3 bits; start, stop, kill, reap, tick, drain | at most as many restarts as allowed; and, if only `service_tick` reaps, exactly as the policy says, spaced by the delay, none against an accepted stop, and a service at rest has a reason |
| `stop_in_backoff` | start, stop, tick, drain | violation: a stop during the back-off is lost |
| `queue_leak` | supervise, 3 places in the ready queue | violation: a full queue ends restarts for good |
| `start_order` | 4 names, at most 2 dependencies each | the search is right for every such graph; the theorems have no bound |
| `process_table` | 4 ids, 3 slots, one client iterator | slots exact, iterators neither repeat nor skip, walks complete, refinement of `RecordSet` |
| `descriptors` | 2 pairs, 5 descriptors, a child, 2 settings, 2 environments | ownership of numbers, redirections, limits and credentials, end-of-file |
| `notify` | 2 owners, 2 clients, one path, queues of 1, a crash | names and sockets match and nothing of others is unlinked, but where a name was removed between close and unlink; messages are understood; who does not return waits for a full socket somebody holds |

Bounds. Three slots let the ring wrap with every split of occupied and free slots, and a removal from its middle
with elements on both sides. Three records are a grandparent, a parent and a child, or two groups of which one
has two members; a fourth pid and group ids beyond the capacity let ids be used up after slots were freed; three
host ids let a freed id be used again. Queue and table have the same capacity in the code (16), and in the
runs. Two services give one of each policy that restarts, a dependency, and a process that ends while another
is waited for; in `restart` three restarts are as many as shift the 1 into the sign bit of a long of 3 bits, so that the
clamp is needed; elsewhere with `MaxRestarts = 1` a service is restarted, becomes stable again and is given up on; the queue of
three takes two starts and a restart, and can be filled. Four names give cycles of length two, three and four
with and without a tail, diamonds, and dependencies listed twice. In `process_table` a destroy can move a record
across an open iterator, and a fourth id refills the hole. In `descriptors` five numbers are the three standard ones
and one pair, or two pairs if the host program runs without some; children share nothing, so that one is enough, and
two settings let one redirection disturb another. In `notify` paths share nothing in the library, so that one is
enough; two owners compete for it, two clients compete for the room in a queue, and a queue can be full while its
reader destroys it.

Symmetry over records, host ids and names is used in safety runs only; no action orders them. `CHECK_DEADLOCK` is on
except in `descriptors`, where the host program may have made all its pairs and children.

### Fairness

`RunReturns` assumes `WF(Loop)`: a thread inside `embla_run` polls every millisecond. That host programs end is
in the property's premise, not in the fairness. The supervisor's liveness assumes `WF(Orchestrator)`, a call in
progress goes on, and `WF` of `BackoffElapses` and `DeadlinePasses`, the monotonic clock goes on. Programs may
ignore SIGTERM for ever; SIGKILL ends them by what the kernel guarantees. Client calls are never fair.
`EndOfFileArrives` assumes that a forked child gets to its `execve` or fails: it waits for nobody. `CallsReturn` assumes
that a library call goes on, and nothing of the readers: the library has none of its own. A sender may then block for
ever, on a socket that is full again and again and that somebody holds; the property is that this is the only way.

### Findings

Each is a violation that TLC finds, against a sentence of the tests; `PROJECT.json` quotes them.

1. `service_lifecycle.c:57`: `service_stop` during the back-off is refused and the restart takes place.
2. `service_orchestrator.c:305`: ended services stay in the ready queue; when it is full no restart succeeds.

### Known disagreements

Found in the same way and kept out of the configurations; a constant or a property brings each back.

1. `embla.c:203`: a child stopped and continued between two polls makes `embla_run` return -1 while it lives, though
   `tests/test_group_admission_cap.c:77-80` expects a run to drain (`MCEmblaQuiet.cfg` with `JobControl = TRUE`).
2. `service_orchestrator.c:318`: `stop_all`, and a client that calls `service_reap` after `service_stop`, leave
   `stop_requested` set; started again, also by a second `supervise` after `embla_clear_shutdown_request`, the service's
   next exit is taken for a requested one, though
   `tests/test_service_restart.c:219-222` expects a restart (`RestartPolicyKept` without `~reaped[s]`). In the same way
   `service_reap` leaves a restart pending from before a start by the client; the next tick then starts the service
   sooner than the delay, or against a stop (`RestartsSpaced`, `NotedStopHolds` without `~reaped[s]`).
3. `service_orchestrator.c:397`: `stop_all` leaves a service RUNNING whose process ended during another's wait, though
   `tests/test_service_orchestrator.c:345-349` expects both to be stopped (an invariant that all services are STOPPED
   when `stop_all` has returned, with `"supervise"` in `Calls`).
4. `unix_socket.c:157` and the rollbacks of create: the socket is closed before its name is unlinked. In between the
   name cannot be told from one that a crash left. If a program removes it and binds anew, the unlink removes the
   new socket's name, though `tests/test_unix_socket.c:100-102` says that the module "never unlinks anything it
   didn't itself create" (`UnlinksOnlyItsOwn` and `NamesMatchSockets` without `intruded`).
5. `executor.c:203`: the redirections are made one after the other, so that stdout redirected to descriptor 0 of a
   program whose stdin is redirected too gets the new stdin, and `dup2` of a descriptor to itself leaves it
   close-on-exec, so that the program starts without it. No text of the repository speaks of either case.

## Proofs

`tlapm` checks every step. No theorem assumes more than the named assumptions of its module and what it states.
The assumptions say that bounds are natural numbers (positive where the code's constants are), that `None`, `NULL` and
the like are none of the values they are told apart from, and otherwise only these: the ready queue has room for
as many processes as the table (`Embla`; both are 16), `MaxExponent` is at most 30 and less than the bits of a long
before its sign (`TimedSupervisor`; the clamp in `service_restart_compute_delay`), a notification is a sequence of lines of two strings (`Notify`), the services of
`Supervisor` are registered once each at first. Every safety property of the passing runs is stated by a theorem.

`SchedulerProofs`, from `CapacityAssumption` and `NullAssumption`:

- `RingCorrect`: `Spec => []RingInv`. `RingInv` is inductive: types, `tail = (head + count) % Capacity`, and a slot
  is filled exactly when it lies in the window. The arithmetic of `% Capacity` is in lemmas stated once.
- `RefinesReadyQueue`: `Spec => RQ!Spec`. Each action is mapped to the abstract action of its name; `RingInv` is
  needed because only in a well-formed ring `Window` is a sequence of processes and grows at its end.

`EmblaProofs`, from `BoundsAssumption` and `NoneAssumption`, for all capacities, ids and hosts:

- `InvCorrect`: `Spec => []IInv`, with `IInv` the conjunction of `TypeOK`, `SchedulerTracksLive`, `HostsTracked`,
  `GroupsConsistent`, `IdsFresh`, `HostGroupsMatch` and, when clients spawn no children of terminated parents,
  `ParentsAlive`. None of them is inductive alone. A new record must not be known to scheduler or groups, which is
  `IdsFresh`; a new host id must not be known to a record, which is `Forkable` and `HostsTracked`;
  `GroupSignalExact` follows only with `HostGroupsMatch`, which says what the kernel holds of collected processes.
- `RollbackRestores`, a lemma: whatever the step that fails, the rollback leaves states, children and group members as
  they were before the spawn.
- `TypeCorrect`, `SchedulerCorrect`, `HostsCorrect`, `GroupsCorrect`, `GroupSignalCorrect`, `ParentsCorrect`:
  the parts a reader cares about.
- `DrainCorrect`: an action property; when no process is live every record is TERMINATED and, by `ParentsAlive`, a
  child of Root, so the shutdown reaps all; each group is emptied, and by `HostsTracked` no host process is left.
- `RoomCorrect`: the ready queue is an injection into the table, so it is no longer than the table is large; where
  a record can be created, `scheduler_add` has room.
- `ExitsCorrect`: an action property. `PollExit` is the only step that collects a zombie; the record it credits is the
  owner, and a TERMINATED record can neither be credited again nor be written by a spawn (`IdsFresh`).
- `RunCorrect`: without job control and without `embla_stop` from a handler, `embla_run` never returns -1. `QuietInv`
  is inductive under `IInv`: children have nothing but exits to report, all that waits in the scheduler is READY, and
  the loop is left only with no process live, so that no process is current when `embla_run` is entered again. The
  two hypotheses are needed: with either constant TRUE, TLC finds a run that fails.

`ProcessTableProofs`, from `TableAssumption`:

- `TableCorrect`: `TableInv` is `SlotsExact` and, for each loop over the array, where it has been: what the child
  iterator has returned lies before its index and what it still owes at or after it (`IteratorInv`), a walk has
  returned the slots up to the cursor (`WalkInv`), `reparent_children` has left no child behind (`ReparentInv`). The
  swap of `process_manager_destroy_process` is in one lemma about the array.
- `SlotsCorrect`, `IteratorComplete`, `IteratorDistinct`, `WalkReturnsAll` follow.
- `RefinesRecordSet`: the array implements the set of records; a step of `reparent_children` is a stutter, because its
  first step is mapped to the whole, and `ReparentInv` says that at the end nothing is left to do.

`SupervisorProofs`, from `LimitsAssumption` and, for the first state, `ServicesAssumption`:

- `SupervisorCorrect`: `SupInv` has what services and records have to do with each other (`LifeInv`), the registry
  (`RegistryInv`), that the call in progress works on a start order of the registry as it is (`CallInv`), and that
  `stop_all` leaves no process running at the positions it has passed (`StopInv`).
- `ProcessesAccountedFor` is `LifeInv`. `ShutdownOrder` combines `StopInv` with the order: who depends on a service comes
  after it, has been passed, and runs no more. `ShutdownComplete` is `StopInv` at index 0.

`TimedSupervisorProofs`, from these and `TimesAssumption`:

- `TimedCorrect`: `TimedInv` relates, for each service, the pending restart to the clock, the count to the restarts
  that were made, `stop_requested` to the stops that were noted, and a rest to its reason. Every timed step is a step of
  `Supervisor` or a stutter, so that `SupInv` is available.
- `CrashLoopBounded`, `RestExplained`, `RestartsApart`, `StopHolds`, `PolicyKept` follow; `RestartsApart` rests on lemmas that
  the clamp keeps the shift below the sign bit and that the delay grows with the count.

`DescriptorsProofs`, from `DescriptorsAssumption`:

- `DescriptorsCorrect`: `DescInv` is `DescriptorsOwned` and, of the history, that pairs not created yet have no ends
  and that a descriptor closes on exec exactly until the client clears the flag, in the host program and in every
  forked child.
- `NoneLeaked`, `NothingInherited` (the safety that `EndOfFileArrives` rests on).
- `StartsAsConfigured` (what each descriptor of a started program is) and `HonestSetUp` (a child is certain to fail
  exactly for the reasons listed, and ends with the code of a setting it has) are mostly lemmas about `dup2`, the three redirections in their order, the
  closing of sources and `execve` as functions on a descriptor table.

`NotifyProofs`, from `NotifyAssumption`:

- `NotifyCorrect`: `NotifyInv` follows a socket through its life: from bind to unlink its path names it and its owner's
  call says how far it has come, but for names on `intruded` paths; a name is that of a live socket, or was left by a
  crash, or is about to be unlinked; what is not live is nobody's.
- `NamesCorrect`, `UnlinksItsOwn` follow, for paths that are not `intruded`.
- `ParserCorrect`: `service_notification_parse`, a fold over the lines, computes `Meaning`, a closed form, for messages of
  any length. `FaithfulNotifications` follows with `NotifyInv`.

`ServiceRegistryProofs`, from `RegistryAssumption`:

- `RegistryCorrect`: while the search runs, GRAY is the stack and the stack is a path of the dependency graph
  (`ColorInv`, `PathInv`); BLACK is the order so far, in which dependencies come first (`OrderInv`); what a visit
  has followed is BLACK or is the visit it waits for (`FollowInv`); roots passed are not WHITE (`RootInv`).
- `RefusalCorrect`: a GRAY dependency closes a cycle, the stack from its visit on; conversely in an order with
  dependencies first the first member of any set depends on none of it.
- `OrderCorrect`: at the end nothing is WHITE or GRAY, and two injective sequences with the same elements are equally
  long.

Induction over data. The provers cannot instantiate the library's induction theorems. What induction is needed is
done with the least counterexample, from `WFMin` and `NatLessThanWellFounded`: the fold of the parser is shown to agree
with an explicit solution of its recursion, and the start order to have a first member of any set.

Only model checked: liveness and fairness (`RunReturns`, the supervisor's recovery and shutdown,
`EndOfFileArrives`, `CallsReturn`), which are outside the prover's reach.

## Not modelled

- `executor_wait` and `executor_poll`: no caller in the library.
- Resource usage (`executor_apply_rusage`, `platform_normalize_max_rss`): written to the record, never read back.
- path, argv, env and umask of a `ProcessConfig`: handed to the kernel as they are.
- Logging, strings: no state of their own.
- `embla_destroy` and the destructors: they only free.
- Allocation failures inside `embla_run` (the iterator of `reparent_children`) and host ids that the kernel reuses
  while a TERMINATED record holds them: listed as hazards without a property.
- Memory, VFS and syscall headers are empty.

## Plan

The modules are complete as far as the code has state to model, and the safety properties of the runs are proved.
What is left:

1. `ServiceRegistry`: a bound on the steps of a search as an action property, with a measure that every step decreases
   (roots, dependencies and services not yet visited); its termination follows, without fairness in the proof.
2. `Supervisor`: the start side, as `ShutdownOrder` is for the stop side: `start_all` starts a service only when all it
   depends on run.
3. `Embla`: member limits of groups as an invariant, for limits that are set before a group fills.
