-------------------------- MODULE TimedSupervisor ---------------------------
(***************************************************************************)
(* The restart policy with its clock: service_restart.c and the times that *)
(* service.c keeps, for a client that drives services itself with          *)
(* service_start, service_stop, service_kill, service_reap,                *)
(* drain_one_event and service_tick.  It is Supervisor with                *)
(* CLOCK_MONOTONIC as a number: every action is one of Supervisor with     *)
(* what it does to the times conjoined, and the flag due says no more than *)
(* that the clock has reached restart_allowed_at.                          *)
(*                                                                         *)
(* service_reap neither clears stop_requested nor looks at a restart that  *)
(* is pending, as service_tick does when it reaps.  What a client may rely *)
(* on if it leaves the reaping of a service to service_tick is stated for  *)
(* the services it never reaped itself; the limit on restarts holds for    *)
(* all.                                                                    *)
(*                                                                         *)
(* A unit of time is any resolution the client can tell apart.  The clock  *)
(* is read once per call: two reads of it in one service_tick differ by    *)
(* less than a unit.  The settings are not changed after the first start.  *)
(***************************************************************************)
EXTENDS Supervisor, Integers

CONSTANTS BaseDelay,    \* restart_base_delay_seconds
          MaxDelay,     \* restart_max_delay_seconds
          Threshold,    \* restart_stability_threshold_seconds
          MaxExponent,  \* the clamp of the shift: 30
          LongBits,     \* the width of a long
          MaxTime       \* bound on the clock

ASSUME TimesAssumption ==
    /\ BaseDelay \in Nat /\ MaxDelay \in Nat /\ Threshold \in Nat
    /\ MaxExponent \in 0 .. 30 /\ LongBits \in Nat /\ MaxExponent + 1 < LongBits
    /\ MaxTime \in Nat \ {0}

VARIABLES
    now,                 \* service_monotonic_now
    last_start_time,     \* Service -> 0, or when service_start last succeeded
    restart_allowed_at,  \* Service -> when its pending restart may be tried
    autos,               \* history: restarts by service_tick since s was last stable
    refused,             \* history: the last start of s that was tried while it was STOPPED failed
    reaped               \* history: the client has reaped s itself

timevars == <<now, last_start_time, restart_allowed_at>>
tvars == <<vars, timevars, autos, refused, reaped>>

TimedInit ==
    /\ Init
    /\ now = 1
    /\ last_start_time = [s \in Service |-> 0]
    /\ restart_allowed_at = [s \in Service |-> 0]
    /\ autos = [s \in Service |-> 0]
    /\ refused = [s \in Service |-> FALSE]
    /\ reaped = [s \in Service |-> FALSE]

-----------------------------------------------------------------------------
(* The delay.                                                              *)

Smaller(x, y) == IF x < y THEN x ELSE y
Larger(x, y) == IF x > y THEN x ELSE y

\* 1L << e on the machine: the sign bit makes the last of the shifts negative,
\* and a count past the width wraps round.
ShiftLeft(e) ==
    IF e + 1 < LongBits THEN 2 ^ e
    ELSE IF e % LongBits = LongBits - 1 THEN -(2 ^ (LongBits - 1)) ELSE 2 ^ (e % LongBits)

\* Mutant: the exponent is not clamped.
compute_delay_unclamped(n) ==
    Smaller(BaseDelay * ShiftLeft(Larger(n - 1, 0)), MaxDelay)

\* The delay before the n-th consecutive restart.
compute_delay(n) ==
    Smaller(BaseDelay * ShiftLeft(Smaller(Larger(n - 1, 0), MaxExponent)), MaxDelay)

\* The service has run long enough for its earlier failures to be forgotten.
Stable(s) == now - last_start_time[s] >= Threshold

-----------------------------------------------------------------------------
(* The client's calls.                                                     *)

\* service_start takes the time of a start that succeeds.
StartTimed(s) ==
    IF sstate[s] = "STOPPED" /\ sstate'[s] = "RUNNING"
      THEN /\ last_start_time' = [last_start_time EXCEPT ![s] = now]
           /\ refused' = [refused EXCEPT ![s] = FALSE]
      ELSE /\ refused' = [refused EXCEPT ![s] = @ \/ sstate[s] = "STOPPED"]
           /\ UNCHANGED last_start_time

TimedStart(s) ==
    /\ ServiceStart(s) /\ StartTimed(s)
    /\ UNCHANGED <<now, restart_allowed_at, autos, reaped>>

\* service_stop and service_kill neither read the clock nor start a process.
TimedSignal(s) ==
    /\ ServiceStop(s) \/ ServiceStopRefused(s) \/ ServiceKill(s)
    /\ UNCHANGED <<timevars, autos, refused, reaped>>

\* The client reaps a service itself.
TimedReap(s) ==
    /\ ServiceReap(s)
    /\ reaped' = [reaped EXCEPT ![s] = TRUE]
    /\ UNCHANGED <<timevars, autos, refused>>

\* The client collects an event.
TimedDrain ==
    /\ DrainOneEvent
    /\ UNCHANGED <<timevars, autos, refused, reaped>>

\* A host process ends.
TimedHostExit(r, how) ==
    /\ HostExit(r, how)
    /\ UNCHANGED <<timevars, autos, refused, reaped>>

\* service_tick waits, finds nothing to reap, or reaps without a restart.
TimedTickQuiet(s) ==
    /\ ServiceTick(s)
    /\ \/ pending[s] /\ ~due[s]
       \/ ~pending[s] /\ (Reapable(s) => stop_requested[s] \/ ~ShouldRestart(s))
    /\ UNCHANGED <<timevars, autos, refused, reaped>>

\* service_tick tries the restart that is due.
TimedTickRetry(s) ==
    /\ ServiceTick(s) /\ pending[s] /\ due[s]
    /\ StartTimed(s)
    /\ autos' = [autos EXCEPT ![s] = IF sstate'[s] = sstate[s] THEN @ ELSE @ + 1]
    /\ UNCHANGED <<now, restart_allowed_at, reaped>>

\* Mutant: every failure counts from one again.
TimedTickReapsFresh(s) ==
    /\ ServiceTick(s) /\ ~pending[s] /\ Reapable(s)
    /\ ~stop_requested[s] /\ ShouldRestart(s)
    /\ count'[s] = NewCount(s, TRUE)
    /\ restart_allowed_at' =
         [restart_allowed_at EXCEPT ![s] = IF pending'[s] THEN now + compute_delay(count'[s]) ELSE @]
    /\ due'[s] = (pending'[s] /\ now >= restart_allowed_at'[s])
    /\ autos' = [autos EXCEPT ![s] = IF Stable(s) THEN 0 ELSE @]
    /\ UNCHANGED <<now, last_start_time, refused, reaped>>

\* service_tick reaps a process that is to be restarted: it schedules the
\* restart by the clock, or gives up.
TimedTickReaps(s) ==
    /\ ServiceTick(s) /\ ~pending[s] /\ Reapable(s)
    /\ ~stop_requested[s] /\ ShouldRestart(s)
    /\ count'[s] = NewCount(s, Stable(s))
    /\ restart_allowed_at' =
         [restart_allowed_at EXCEPT ![s] = IF pending'[s] THEN now + compute_delay(count'[s]) ELSE @]
    /\ due'[s] = (pending'[s] /\ now >= restart_allowed_at'[s])
    /\ autos' = [autos EXCEPT ![s] = IF Stable(s) THEN 0 ELSE @]
    /\ UNCHANGED <<now, last_start_time, refused, reaped>>

\* The clock goes on; restarts become due.
AdvanceTime ==
    /\ now < MaxTime
    /\ now' = now + 1
    /\ LET S == {s \in Service : pending[s] /\ ~due[s] /\ now' >= restart_allowed_at[s]} IN
         IF S = {} THEN UNCHANGED vars ELSE BackoffElapses(S)
    /\ UNCHANGED <<last_start_time, restart_allowed_at, autos, refused, reaped>>

TimedNext ==
    \/ \E s \in Service : \/ TimedStart(s) \/ TimedSignal(s) \/ TimedReap(s)
                          \/ TimedTickQuiet(s) \/ TimedTickRetry(s) \/ TimedTickReaps(s)
    \/ TimedDrain \/ AdvanceTime
    \/ \E r \in Record, how \in {"clean", "failure"} : TimedHostExit(r, how)

TimedSpec == TimedInit /\ [][TimedNext]_tvars

-----------------------------------------------------------------------------
(* Properties.                                                             *)

\* Type invariant of the times; the rest is Supervisor's.
TimedTypeOK ==
    /\ TypeOK
    /\ now \in 1 .. MaxTime
    /\ last_start_time \in [Service -> 0 .. now]
    /\ restart_allowed_at \in [Service -> Nat]
    /\ autos \in [Service -> Nat]
    /\ refused \in [Service -> BOOLEAN] /\ reaped \in [Service -> BOOLEAN]

\* service_tick of s starts it.
TickStarts(s) == ServiceTick(s) /\ sstate[s] = "STOPPED" /\ sstate'[s] = "RUNNING"

\* The base delay doubled k times, up to the clamp and the maximum delay.
Spacing(k) == Smaller(BaseDelay * 2 ^ Smaller(k, MaxExponent), MaxDelay)

\* A service that crashes is not restarted in a tight loop: service_tick starts
\* it no sooner after the last start than the base delay doubled once for every
\* restart since it was last stable, however client starts, refused starts and
\* early or late ticks fall in between.  A shift into the sign bit or past the width of a long would put
\* restart_allowed_at into the past.  With service_reap in place of a tick a
\* restart that was pending before a client's start may come sooner.
RestartsSpaced ==
    [][\A s \in Service : TickStarts(s) /\ ~reaped[s] =>
         now - last_start_time[s] >= Spacing(autos[s])]_tvars

\* A service that never ran for the stability threshold is restarted at most
\* max_consecutive_restarts times, whatever explicit starts, stops, reaps and
\* failed starts fall in between.
CrashLoopEnds == TimedTypeOK /\ \A s \in Service : autos[s] <= MaxRestarts

\* A RESTART_ALWAYS service that ran and is stopped with no restart pending had
\* its stop noted, was given up on, or the start that was last tried failed:
\* service_tick tries a restart only once.  A service that the client reaped
\* itself may also rest because service_reap schedules nothing.
RestsForAReason ==
    \A s \in Service :
        (/\ policy[s] = "ALWAYS" /\ last_start_time[s] # 0 /\ ~reaped[s]
         /\ sstate[s] = "STOPPED" /\ ~pending[s])
            => asked[s] = "noted" \/ failed[s] \/ refused[s]

\* A tick that reaps a process restarts the service, now or by a schedule, or
\* gives up on it, exactly when the policy says so for this exit and no
\* service_stop was noted since the process was started.  A stop_requested that
\* service_reap left behind would suppress the restart of a later process.
RestartPolicyKept ==
    [][\A s \in Service :
         ServiceTick(s) /\ sstate[s] = "RUNNING" /\ sstate'[s] = "STOPPED" /\ ~reaped[s] =>
         ((pending'[s] \/ failed'[s]) <=>
            /\ asked[s] # "noted"
            /\ \/ policy[s] = "ALWAYS"
               \/ policy[s] = "ON_FAILURE" /\ exit[proc[s]] = "failure")]_tvars

\* A stop that service_stop noted since the last start is not undone by a tick:
\* not by the restart that was pending when the client started the service, nor
\* by one that is scheduled for the exit the stop causes.  A stop that
\* service_stop refused is (Supervisor's ExplicitStopHolds does not hold), and so is
\* one of a service that the client then reaps while a restart is pending.
NotedStopHolds ==
    [][\A s \in Service : TickStarts(s) /\ ~reaped[s] => asked[s] # "noted"]_tvars
=============================================================================
