----------------------------- MODULE Supervisor -----------------------------
(***************************************************************************)
(* The service layer: service_lifecycle.c, service_restart.c and           *)
(* service_orchestrator.c over the calls of embla.c they make.             *)
(*                                                                         *)
(* A client makes the calls named in Calls one after the other; the calls  *)
(* that loop (start_all, stop_all, supervise) take a step per service or   *)
(* event, and host processes end between any two steps.  Time is not a     *)
(* number: a back-off that has elapsed and a deadline that has passed are  *)
(* flags the clock raises, and whether a service has run for its stability *)
(* threshold is decided when it is asked.                                  *)
(*                                                                         *)
(* Assumptions.  malloc does not fail, the kernel does not hand out a      *)
(* process id that a record still holds.  No process here is dispatched,   *)
(* so of the ready queue only its length matters.  A service's process is  *)
(* alone in its group: the group table is full exactly when the process    *)
(* table is.  A service lives from Register to Unregister, and the client  *)
(* makes no call on a Service that was destroyed.                          *)
(***************************************************************************)
EXTENDS Naturals, Sequences, FiniteSets

CONSTANTS Service,          \* the services
          Registry,         \* the services in the order they are first registered
          Deps,             \* Service -> the services it depends on
          Settings,         \* the assignments of a RestartPolicy to each service
          MaxRestarts,      \* max_consecutive_restarts
          Record,           \* the slots of the process table
          QueueCapacity,    \* SCHEDULER_INITIAL_CAPACITY
          NULL,             \* no process, no exit
          SpawnMayFail,     \* whether fork and setpgid may fail
          Deadlines,        \* whether a deadline may pass before the process has ended
          MaxStrays,        \* bound on reports drain_one_event ignores
          Calls             \* the calls the client makes

Policies == {"NEVER", "ON_FAILURE", "ALWAYS"}

ASSUME ServicesAssumption ==
    /\ Registry \in Seq(Service)
    /\ \A s \in Service : \E i \in 1 .. Len(Registry) : Registry[i] = s
    /\ \A i, j \in 1 .. Len(Registry) : Registry[i] = Registry[j] => i = j
    /\ Deps \in [Service -> SUBSET Service]
    /\ Settings \subseteq [Service -> Policies]
ASSUME LimitsAssumption ==
    /\ MaxRestarts \in Nat /\ QueueCapacity \in Nat /\ MaxStrays \in Nat
    /\ SpawnMayFail \in BOOLEAN /\ Deadlines \in BOOLEAN
    /\ NULL \notin Record \cup {"clean", "failure"}

VARIABLES
    sstate,          \* Service -> SERVICE_STOPPED or SERVICE_RUNNING
    proc,            \* Service -> its process record
    stop_requested,  \* Service -> BOOLEAN
    pending,         \* Service -> restart_pending
    due,             \* Service -> restart_allowed_at has been reached
    count,           \* Service -> consecutive_restart_count, up to MaxRestarts + 1
    failed,          \* Service -> permanently_failed
    rec,             \* Record -> state of the process record
    exit,            \* Record -> how the process ended, once TERMINATED
    host,            \* Record -> its host process: none, run, or a zombie's exit
    queued,          \* length of the scheduler's ready queue
    strays,          \* reports of children no record names
    policy,          \* Service -> RestartPolicy, set once
    registry,        \* the registered services, in the order of the registry
    dropped,         \* records of services unregistered while they ran
    pc, idx,         \* the call in progress and its loop index
    order,           \* what service_registry_compute_start_order returned for it
    sup,             \* whether supervise made that call
    expired,         \* the deadline of wait_for_termination has passed
    shutdown,        \* embla_shutdown_was_requested
    asked            \* history: the service_stop calls since the last start: "no", "noted"
                     \* (stop_requested was set) or only "refused"

restartvars == <<pending, due, count>>
lifevars == <<sstate, proc, failed, rec, exit, host, queued>>
callvars == <<pc, idx, sup, order>>
regvars == <<registry, dropped, policy>>
vars == <<sstate, proc, stop_requested, pending, due, count, failed, rec, exit,
          host, queued, strays, policy, registry, dropped, pc, idx, sup, order,
          expired, shutdown, asked>>

Init ==
    /\ sstate = [s \in Service |-> "STOPPED"]
    /\ proc = [s \in Service |-> NULL]
    /\ stop_requested = [s \in Service |-> FALSE]
    /\ pending = [s \in Service |-> FALSE]
    /\ due = [s \in Service |-> FALSE]
    /\ count = [s \in Service |-> 0]
    /\ failed = [s \in Service |-> FALSE]
    /\ rec = [r \in Record |-> "FREE"]
    /\ exit = [r \in Record |-> NULL]
    /\ host = [r \in Record |-> "none"]
    /\ queued = 0
    /\ strays \in 0 .. MaxStrays
    /\ policy \in Settings
    /\ registry = Registry /\ dropped = {}
    /\ pc = "idle" /\ idx = 0 /\ order = <<>>
    /\ sup = FALSE /\ expired = FALSE /\ shutdown = FALSE
    /\ asked = [s \in Service |-> "no"]

\* A service's process is running on the host.
Running(s) == proc[s] # NULL /\ host[proc[s]] = "run"

\* The service is registered.
Registered(s) == \E i \in 1 .. Len(registry) : registry[i] = s

\* The orders service_registry_compute_start_order may return: all registered
\* services, each after its dependencies; none if a dependency is missing or
\* the dependencies are cyclic.  ServiceRegistry has the search itself.
StartOrders ==
    {o \in [1 .. Len(registry) -> Service] :
        /\ \A s \in Service : Registered(s) => \E i \in DOMAIN o : o[i] = s
        /\ \A i \in DOMAIN o :
             Registered(o[i]) /\ \A d \in Deps[o[i]] : \E j \in 1 .. i - 1 : o[j] = d}

-----------------------------------------------------------------------------
(* service_lifecycle.c.                                                    *)

\* service_start succeeds: embla_spawn takes a slot, a host process and a
\* place in the ready queue.
StartOK(s, r) ==
    /\ sstate[s] = "STOPPED"
    /\ rec[r] = "FREE" /\ queued < QueueCapacity
    /\ sstate' = [sstate EXCEPT ![s] = "RUNNING"]
    /\ proc' = [proc EXCEPT ![s] = r]
    /\ failed' = [failed EXCEPT ![s] = FALSE]
    /\ rec' = [rec EXCEPT ![r] = "READY"]
    /\ host' = [host EXCEPT ![r] = "run"]
    /\ queued' = queued + 1
    /\ asked' = [asked EXCEPT ![s] = "no"]
    /\ UNCHANGED exit

\* service_start returns -1; embla_spawn has rolled back what it did.
StartFails(s) ==
    /\ \/ sstate[s] # "STOPPED"
       \/ \A r \in Record : rec[r] # "FREE"
       \/ queued >= QueueCapacity
       \/ SpawnMayFail
    /\ UNCHANGED <<lifevars, asked>>

Start(s) == (\E r \in Record : StartOK(s, r)) \/ StartFails(s)

\* SIGTERM: the program ends, or catches it and goes on.
Term(r) ==
    \/ host' = [host EXCEPT ![r] = IF @ = "run" THEN "failure" ELSE @]
    \/ UNCHANGED host

\* service_stop returns 0.
StopOK(s) ==
    /\ sstate[s] = "RUNNING" /\ rec[proc[s]] # "TERMINATED"
    /\ stop_requested' = [stop_requested EXCEPT ![s] = TRUE]
    /\ asked' = [asked EXCEPT ![s] = "noted"]
    /\ Term(proc[s])

\* service_stop returns -1 after it took note of the request: the process is
\* TERMINATED, but nobody has reaped it for the service.
StopLate(s) ==
    /\ sstate[s] = "RUNNING" /\ rec[proc[s]] = "TERMINATED"
    /\ stop_requested' = [stop_requested EXCEPT ![s] = TRUE]
    /\ asked' = [asked EXCEPT ![s] = "noted"]
    /\ UNCHANGED host

\* service_kill returns 0.
KillOK(s) ==
    /\ sstate[s] = "RUNNING" /\ rec[proc[s]] # "TERMINATED"
    /\ host' = [host EXCEPT ![proc[s]] = IF @ = "run" THEN "failure" ELSE @]

\* service_reap has something to reap.
Reapable(s) == sstate[s] = "RUNNING" /\ rec[proc[s]] = "TERMINATED"

\* Mutant: the service is STOPPED, its record is not given back.
ReapKeepsRecord(s) ==
    /\ Reapable(s)
    /\ sstate' = [sstate EXCEPT ![s] = "STOPPED"]
    /\ proc' = [proc EXCEPT ![s] = NULL]
    /\ UNCHANGED <<rec, exit, host, queued>>

\* service_reap returns 1.
Reap(s) ==
    /\ Reapable(s)
    /\ rec' = [rec EXCEPT ![proc[s]] = "FREE"]
    /\ exit' = [exit EXCEPT ![proc[s]] = NULL]
    /\ sstate' = [sstate EXCEPT ![s] = "STOPPED"]
    /\ proc' = [proc EXCEPT ![s] = NULL]
    /\ UNCHANGED <<host, queued>>

-----------------------------------------------------------------------------
(* service_restart.c: service_tick.                                        *)

\* Mutant: any exit is a failure.
ShouldRestartAny(s) == policy[s] # "NEVER"

ShouldRestart(s) ==
    \/ policy[s] = "ALWAYS"
    \/ policy[s] = "ON_FAILURE" /\ exit[proc[s]] # "clean"

\* A restart is pending: wait for it, or try it once.
TickPending(s) ==
    /\ pending[s]
    /\ \/ ~due[s] /\ UNCHANGED <<lifevars, restartvars, asked>>
       \/ /\ due[s]
          /\ pending' = [pending EXCEPT ![s] = FALSE]
          /\ due' = [due EXCEPT ![s] = FALSE]
          /\ Start(s)
          /\ UNCHANGED count
    /\ UNCHANGED stop_requested

\* Nothing to reap.
TickNothing(s) ==
    /\ ~pending[s] /\ ~Reapable(s)
    /\ UNCHANGED <<lifevars, restartvars, stop_requested, asked>>

\* The process ended and is not to be restarted.
TickNoRestart(s) ==
    /\ ~pending[s] /\ Reap(s)
    /\ stop_requested[s] \/ ~ShouldRestart(s)
    /\ stop_requested' = [stop_requested EXCEPT ![s] = FALSE]
    /\ UNCHANGED <<restartvars, failed, asked>>

\* The count after one more restart; a stable service starts again from one.
NewCount(s, stable) ==
    IF stable THEN 1 ELSE IF count[s] > MaxRestarts THEN count[s] ELSE count[s] + 1

\* Mutant: a requested stop does not suppress the restart.
TickRestartUnasked(s) ==
    /\ ~pending[s] /\ Reap(s)
    /\ ShouldRestart(s)
    /\ pending' = [pending EXCEPT ![s] = TRUE]
    /\ UNCHANGED <<stop_requested, due, count, failed, asked>>

\* Mutant: off by one, the last restart is neither scheduled nor given up on.
TickRestartOneShort(s) ==
    /\ ~pending[s] /\ Reap(s)
    /\ ~stop_requested[s] /\ ShouldRestart(s)
    /\ \E stable \in BOOLEAN :
         LET n == NewCount(s, stable) IN
         /\ count' = [count EXCEPT ![s] = n]
         /\ failed' = [failed EXCEPT ![s] = IF n > MaxRestarts THEN TRUE ELSE @]
         /\ pending' = [pending EXCEPT ![s] = n < MaxRestarts]
    /\ \E d \in BOOLEAN : due' = [due EXCEPT ![s] = pending'[s] /\ d]
    /\ UNCHANGED <<stop_requested, asked>>

\* The process ended: schedule a restart, which a delay of zero makes due at
\* once, or give up.
TickRestart(s) ==
    /\ ~pending[s] /\ Reap(s)
    /\ ~stop_requested[s] /\ ShouldRestart(s)
    /\ \E stable \in BOOLEAN :
         LET n == NewCount(s, stable) IN
         /\ count' = [count EXCEPT ![s] = n]
         /\ failed' = [failed EXCEPT ![s] = IF n > MaxRestarts THEN TRUE ELSE @]
         /\ pending' = [pending EXCEPT ![s] = n <= MaxRestarts]
    /\ \E d \in BOOLEAN : due' = [due EXCEPT ![s] = pending'[s] /\ d]
    /\ UNCHANGED <<stop_requested, asked>>

Tick(s) == TickPending(s) \/ TickNothing(s) \/ TickNoRestart(s) \/ TickRestart(s)

-----------------------------------------------------------------------------
(* service_registry_drain_one_event.                                       *)

\* Mutant: the exit is collected, the record does not change.
DrainExitForgets(r) ==
    /\ host[r] \in {"clean", "failure"}
    /\ host' = [host EXCEPT ![r] = "none"]
    /\ UNCHANGED <<rec, exit, strays>>

\* A process ended.  Unlike embla_run, this does not take it out of the
\* scheduler.
DrainExit(r) ==
    /\ host[r] \in {"clean", "failure"}
    /\ host' = [host EXCEPT ![r] = "none"]
    /\ exit' = [exit EXCEPT ![r] = host[r]]
    /\ rec' = [rec EXCEPT ![r] = "TERMINATED"]
    /\ UNCHANGED strays

\* An untracked child, or a stop or continue report, which changes nothing.
DrainIgnored ==
    /\ strays > 0
    /\ strays' = strays - 1
    /\ UNCHANGED <<rec, exit, host>>

Drain == (\E r \in Record : DrainExit(r)) \/ DrainIgnored

NothingToDrain == \A r \in Record : host[r] \in {"none", "run"}

-----------------------------------------------------------------------------
(* service_registry.c: a service leaves the registry.                      *)

\* The last service takes the place of s.
Removed(q, s) ==
    LET n == Len(q) IN [i \in 1 .. n - 1 |-> IF q[i] = s THEN q[n] ELSE q[i]]

\* What a Service holds is gone; a later Service of the same name starts anew.
Forgotten(s) ==
    /\ sstate' = [sstate EXCEPT ![s] = "STOPPED"]
    /\ proc' = [proc EXCEPT ![s] = NULL]
    /\ stop_requested' = [stop_requested EXCEPT ![s] = FALSE]
    /\ pending' = [pending EXCEPT ![s] = FALSE]
    /\ due' = [due EXCEPT ![s] = FALSE]
    /\ count' = [count EXCEPT ![s] = 0]
    /\ failed' = [failed EXCEPT ![s] = FALSE]
    /\ asked' = [asked EXCEPT ![s] = "no"]

-----------------------------------------------------------------------------
(* One call of the client.                                                 *)

Idle(call) == pc = "idle" /\ call \in Calls

ServiceStart(s) ==
    /\ Idle("start") /\ Registered(s) /\ Start(s)
    /\ UNCHANGED <<stop_requested, restartvars, strays, callvars, expired, shutdown, regvars>>

ServiceStop(s) ==
    /\ Idle("stop") /\ Registered(s) /\ (StopOK(s) \/ StopLate(s))
    /\ UNCHANGED <<sstate, proc, restartvars, failed, rec, exit, queued, strays,
                   callvars, expired, shutdown, regvars>>

\* service_stop of a service that is not running: -1, and nothing changes.
ServiceStopRefused(s) ==
    /\ Idle("stop") /\ Registered(s) /\ sstate[s] # "RUNNING"
    /\ asked' = [asked EXCEPT ![s] = IF @ = "no" THEN "refused" ELSE @]
    /\ UNCHANGED <<lifevars, stop_requested, restartvars, strays, callvars, expired, shutdown, regvars>>

ServiceKill(s) ==
    /\ Idle("kill") /\ Registered(s) /\ KillOK(s)
    /\ UNCHANGED <<sstate, proc, stop_requested, restartvars, failed, rec, exit, queued,
                   strays, callvars, expired, shutdown, regvars, asked>>

ServiceReap(s) ==
    /\ Idle("reap") /\ Registered(s) /\ Reap(s)
    /\ UNCHANGED <<stop_requested, restartvars, failed, strays, callvars, expired,
                   shutdown, regvars, asked>>

ServiceTick(s) ==
    /\ Idle("tick") /\ Registered(s) /\ Tick(s)
    /\ UNCHANGED <<strays, callvars, expired, shutdown, regvars>>

DrainOneEvent ==
    /\ Idle("drain") /\ Drain
    /\ UNCHANGED <<sstate, proc, stop_requested, restartvars, failed, queued, callvars,
                   expired, shutdown, regvars, asked>>

\* service_registry_unregister destroys the Service; its process stays where it is.
ServiceUnregister(s) ==
    /\ Idle("unregister") /\ Registered(s)
    /\ registry' = Removed(registry, s)
    /\ dropped' = dropped \cup ({proc[s]} \ {NULL})
    /\ Forgotten(s)
    /\ UNCHANGED <<rec, exit, host, queued, strays, policy, callvars, expired, shutdown>>

\* service_create and service_registry_register.
ServiceRegister(s) ==
    /\ Idle("register") /\ ~Registered(s)
    /\ registry' = Append(registry, s)
    /\ UNCHANGED <<lifevars, stop_requested, restartvars, strays, dropped, policy, callvars,
                   expired, shutdown, asked>>

\* start_all, stop_all and supervise begin, unless there is no start order.
Begin ==
    /\ order' \in StartOrders
    /\ \/ Idle("start_all") /\ pc' = "start" /\ idx' = 1 /\ sup' = FALSE
       \/ Idle("stop_all") /\ pc' = "stop" /\ idx' = Len(registry) /\ sup' = FALSE
       \/ Idle("supervise") /\ pc' = "start" /\ idx' = 1 /\ sup' = TRUE
    /\ UNCHANGED <<lifevars, stop_requested, restartvars, strays, expired, shutdown, regvars, asked>>

-----------------------------------------------------------------------------
(* service_orchestrator.c.                                                 *)

\* service_registry_start_all, one service.
StartNext ==
    /\ pc = "start" /\ idx <= Len(order)
    /\ IF \A d \in Deps[order[idx]] : sstate[d] = "RUNNING"
         THEN Start(order[idx])
         ELSE UNCHANGED <<lifevars, asked>>
    /\ idx' = idx + 1
    /\ UNCHANGED <<stop_requested, restartvars, strays, pc, sup, order, expired, shutdown, regvars>>

StartDone ==
    /\ pc = "start" /\ idx > Len(order)
    /\ pc' = IF sup THEN "loop" ELSE "idle"
    /\ idx' = 0
    /\ order' = IF sup THEN order ELSE <<>>
    /\ UNCHANGED <<lifevars, stop_requested, restartvars, strays, sup, expired, shutdown, regvars, asked>>

\* The head of supervise's loop.
LoopHead ==
    /\ pc = "loop"
    /\ pc' = IF shutdown THEN "stop" ELSE "drain"
    /\ idx' = IF shutdown THEN Len(order) ELSE 0
    /\ UNCHANGED <<lifevars, stop_requested, restartvars, strays, sup, order, expired, shutdown, regvars, asked>>

LoopDrain ==
    /\ pc = "drain" /\ Drain
    /\ UNCHANGED <<sstate, proc, stop_requested, restartvars, failed, queued, callvars,
                   expired, shutdown, regvars, asked>>

LoopDrained ==
    /\ pc = "drain" /\ NothingToDrain
    /\ pc' = "tick" /\ idx' = 1
    /\ UNCHANGED <<lifevars, stop_requested, restartvars, strays, sup, order, expired, shutdown, regvars, asked>>

LoopTick ==
    /\ pc = "tick" /\ idx <= Len(registry)
    /\ Tick(registry[idx])
    /\ idx' = idx + 1
    /\ UNCHANGED <<strays, pc, sup, order, expired, shutdown, regvars>>

LoopTicked ==
    /\ pc = "tick" /\ idx > Len(registry)
    /\ pc' = "loop" /\ idx' = 0
    /\ UNCHANGED <<lifevars, stop_requested, restartvars, strays, sup, order, expired, shutdown, regvars, asked>>

\* service_registry_stop_all goes from the last of the order to the first.
Stopping == pc = "stop" /\ idx >= 1
GoOn == pc' = "stop" /\ idx' = idx - 1

\* The service is not running, or its process has ended and cannot be signalled.
StopSkip ==
    /\ Stopping
    /\ \/ /\ sstate[order[idx]] # "RUNNING"
          /\ UNCHANGED <<stop_requested, host, asked>>
       \/ StopLate(order[idx])
    /\ GoOn
    /\ UNCHANGED <<sstate, proc, restartvars, failed, rec, exit, queued, strays, sup, order,
                   expired, shutdown, regvars>>

StopSignal ==
    /\ Stopping
    /\ StopOK(order[idx])
    /\ pc' = "term" /\ expired' = FALSE
    /\ UNCHANGED <<sstate, proc, restartvars, failed, rec, exit, queued, strays, idx, sup, order,
                   shutdown, regvars>>

\* wait_for_termination: until the deadline, reap or drain.
Waiting == pc \in {"term", "kill"}

WaitReap ==
    /\ Waiting /\ ~expired
    /\ Reap(order[idx])
    /\ GoOn
    /\ UNCHANGED <<stop_requested, restartvars, failed, strays, sup, order, expired, shutdown, regvars, asked>>

WaitDrain ==
    /\ Waiting /\ ~expired
    /\ ~Reapable(order[idx]) /\ Drain
    /\ UNCHANGED <<sstate, proc, stop_requested, restartvars, failed, queued, callvars,
                   expired, shutdown, regvars, asked>>

\* Mutant: the wait is given up, nothing is killed.
TermExpiredNoKill ==
    /\ pc = "term" /\ expired
    /\ GoOn
    /\ UNCHANGED <<lifevars, stop_requested, restartvars, strays, sup, order, expired, shutdown, regvars, asked>>

\* Mutant: the deadline is not looked at.
TermExpiredNever == FALSE /\ UNCHANGED vars

\* The service did not stop in time: SIGKILL and a second wait, unless the
\* process is TERMINATED by now.
TermExpired ==
    /\ pc = "term" /\ expired
    /\ \/ KillOK(order[idx]) /\ pc' = "kill" /\ expired' = FALSE /\ UNCHANGED idx
       \/ Reapable(order[idx]) /\ GoOn /\ UNCHANGED <<host, expired>>
    /\ UNCHANGED <<sstate, proc, stop_requested, restartvars, failed, rec, exit, queued,
                   strays, sup, order, shutdown, regvars, asked>>

KillExpired ==
    /\ pc = "kill" /\ expired
    /\ GoOn
    /\ UNCHANGED <<lifevars, stop_requested, restartvars, strays, sup, order, expired, shutdown, regvars, asked>>

StopDone ==
    /\ pc = "stop" /\ idx = 0
    /\ pc' = "idle" /\ sup' = FALSE /\ order' = <<>>
    /\ UNCHANGED <<lifevars, stop_requested, restartvars, strays, idx, expired, shutdown, regvars, asked>>

-----------------------------------------------------------------------------
(* The world.                                                              *)

HostExit(r, how) ==
    /\ host[r] = "run"
    /\ host' = [host EXCEPT ![r] = how]
    /\ UNCHANGED <<sstate, proc, stop_requested, restartvars, failed, rec, exit, queued,
                   strays, callvars, expired, shutdown, regvars, asked>>

\* The clock reaches restart_allowed_at of the services in S.
BackoffElapses(S) ==
    /\ S # {} /\ \A s \in S : pending[s] /\ ~due[s]
    /\ due' = [s \in Service |-> due[s] \/ s \in S]
    /\ UNCHANGED <<lifevars, stop_requested, pending, count, strays, callvars, expired,
                   shutdown, regvars, asked>>

\* The clock reaches the deadline of wait_for_termination.
DeadlinePasses ==
    /\ Deadlines
    /\ Waiting /\ ~expired
    /\ expired' = TRUE
    /\ UNCHANGED <<lifevars, stop_requested, restartvars, strays, callvars, shutdown, regvars, asked>>

\* SIGTERM or SIGINT reaches Embla, or the client calls embla_request_shutdown.
RequestShutdown ==
    /\ "supervise" \in Calls /\ ~shutdown
    /\ shutdown' = TRUE
    /\ UNCHANGED <<lifevars, stop_requested, restartvars, strays, regvars, callvars, expired, asked>>

\* The client calls embla_clear_shutdown_request, between two calls of supervise.
ClearShutdown ==
    /\ Idle("supervise") /\ shutdown
    /\ shutdown' = FALSE
    /\ UNCHANGED <<lifevars, stop_requested, restartvars, strays, regvars, callvars, expired, asked>>

Client ==
    \/ \E s \in Service : \/ ServiceStart(s) \/ ServiceStop(s) \/ ServiceStopRefused(s)
                          \/ ServiceKill(s) \/ ServiceReap(s) \/ ServiceTick(s)
                          \/ ServiceUnregister(s) \/ ServiceRegister(s)
    \/ DrainOneEvent \/ Begin \/ ClearShutdown

Orchestrator ==
    \/ StartNext \/ StartDone
    \/ LoopHead \/ LoopDrain \/ LoopDrained \/ LoopTick \/ LoopTicked
    \/ StopSkip \/ StopSignal \/ WaitReap \/ WaitDrain \/ TermExpired \/ KillExpired \/ StopDone

World ==
    \/ \E r \in Record, how \in {"clean", "failure"} : HostExit(r, how)
    \/ \E S \in SUBSET Service : BackoffElapses(S)
    \/ DeadlinePasses \/ RequestShutdown

Next == Client \/ Orchestrator \/ World

Spec == Init /\ [][Next]_vars

\* A call in progress goes on, and so does the clock.
FairSpec ==
    /\ Spec
    /\ WF_vars(Orchestrator)
    /\ \A s \in Service : WF_vars(\E S \in SUBSET Service : s \in S /\ BackoffElapses(S))
    /\ WF_vars(DeadlinePasses)

-----------------------------------------------------------------------------
(* Properties.                                                             *)

\* Type invariant of the services, their processes and the call in progress.
TypeOK ==
    /\ sstate \in [Service -> {"STOPPED", "RUNNING"}]
    /\ proc \in [Service -> Record \cup {NULL}]
    /\ stop_requested \in [Service -> BOOLEAN]
    /\ pending \in [Service -> BOOLEAN]
    /\ due \in [Service -> BOOLEAN]
    /\ count \in [Service -> 0 .. MaxRestarts + 1]
    /\ failed \in [Service -> BOOLEAN]
    /\ rec \in [Record -> {"FREE", "READY", "TERMINATED"}]
    /\ exit \in [Record -> {"clean", "failure", NULL}]
    /\ host \in [Record -> {"none", "run", "clean", "failure"}]
    /\ queued \in 0 .. QueueCapacity
    /\ strays \in 0 .. MaxStrays
    /\ pc \in {"idle", "start", "loop", "drain", "tick", "stop", "term", "kill"}
    /\ idx \in 0 .. Len(Registry) + 1
    /\ policy \in [Service -> Policies]
    /\ registry \in Seq(Service) /\ order \in Seq(Service)
    /\ dropped \in SUBSET Record
    /\ sup \in BOOLEAN /\ expired \in BOOLEAN /\ shutdown \in BOOLEAN
    /\ asked \in [Service -> {"no", "noted", "refused"}]

\* A service that stays registered runs exactly one process: none is started
\* twice over, none is lost between a start, an exit that drain_one_event
\* collects and the reap, and a record that is not TERMINATED has an unreaped
\* host process, so that its end will be noticed.  The processes that no
\* service owns are exactly those whose service was unregistered while it ran
\* (dropped), which service_registry_unregister does lose: nobody stops or
\* reaps them, and no later service takes one of them over.
OneProcessEach ==
    /\ TypeOK
    /\ \A s \in Service : sstate[s] = "RUNNING" <=> proc[s] # NULL
    /\ \A s, t \in Service : proc[s] = proc[t] /\ proc[s] # NULL => s = t
    /\ \A s \in Service : proc[s] \notin dropped
    /\ \A r \in Record : rec[r] # "FREE" <=> r \in dropped \/ \E s \in Service : proc[s] = r
    /\ \A r \in Record : rec[r] = "READY" <=> host[r] # "none"

\* When stop_all has signalled a service, no service that depends on it has a
\* process still running: shutdown order is the reverse of the start order.
StopsDependentsFirst ==
    pc \in {"term", "kill"} =>
        \A d \in Service : order[idx] \in Deps[d] => ~Running(d)

\* stop_all, and supervise through it, leaves no service's process running,
\* even if a program ignores SIGTERM, a deadline passes at any moment, or a
\* process ends while another is waited for.
StopAllLeavesNoneRunning ==
    [][pc = "stop" /\ pc' = "idle" => \A s \in Service : ~Running(s)']_vars

\* service_tick of s, called by the client or by supervise.
Ticks(s) == ServiceTick(s) \/ (LoopTick /\ registry[idx] = s)

\* A tick never restarts a service that the client has called service_stop on
\* since it was last started.
ExplicitStopHolds ==
    [][\A s \in Service : Ticks(s) /\ sstate[s] = "STOPPED" /\ sstate'[s] = "RUNNING" =>
         asked[s] = "no"]_vars

\* When stop_all returns and no deadline has passed, every service is stopped.
StopAllStops ==
    [][pc = "stop" /\ pc' = "idle" => \A s \in Service : sstate'[s] = "STOPPED"]_vars

\* A service under RESTART_ALWAYS whose process ends while supervise runs has a
\* running process again, or is given up on, or shutdown is requested; as long
\* as the ready queue, which supervise never empties, is not full.  A
\* stop_requested that the stop_all of an earlier supervise left set makes its
\* first exit one that was asked for.
ServiceRecovers ==
    \A s \in Service :
        (/\ policy[s] = "ALWAYS" /\ sup /\ ~stop_requested[s]
         /\ sstate[s] = "RUNNING" /\ ~Running(s)) ~>
            (Running(s) \/ failed[s] \/ shutdown \/ queued = QueueCapacity)

\* The same without the condition on the ready queue.
AlwaysRecovers ==
    \A s \in Service :
        (/\ policy[s] = "ALWAYS" /\ sup /\ ~stop_requested[s]
         /\ sstate[s] = "RUNNING" /\ ~Running(s)) ~>
            (Running(s) \/ failed[s] \/ shutdown)

\* Once shutdown is requested supervise returns, whatever the programs do.
ShutdownCompletes == (shutdown /\ pc # "idle") ~> (pc = "idle")
=============================================================================
