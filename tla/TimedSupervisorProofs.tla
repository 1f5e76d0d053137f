----------------------- MODULE TimedSupervisorProofs ------------------------
(***************************************************************************)
(* The restart policy of service_restart.c keeps its promises for every    *)
(* setting of the delays, the threshold and the limit, any number of       *)
(* services and any sequence of the client's calls.  The invariant of      *)
(* SupervisorProofs is used: a timed step is one of Supervisor's by        *)
(* construction.                                                           *)
(***************************************************************************)
EXTENDS TimedSupervisor, SupervisorProofs

USE LimitsAssumption, TimesAssumption

-----------------------------------------------------------------------------
(* The inductive invariant.                                                *)

\* The types of the times and histories.
TimesInv ==
    /\ now \in 1 .. MaxTime
    /\ last_start_time \in [Service -> 0 .. now]
    /\ restart_allowed_at \in [Service -> Nat]
    /\ autos \in [Service -> Nat]
    /\ refused \in [Service -> BOOLEAN] /\ reaped \in [Service -> BOOLEAN]

\* The flag due says when a pending restart may be tried.
DelayInv(s) == pending[s] => (due[s] <=> now >= restart_allowed_at[s])

\* consecutive_restart_count is ahead of the restarts that were made.
CountInv(s) ==
    /\ autos[s] <= count[s] /\ autos[s] <= MaxRestarts
    /\ pending[s] => autos[s] < count[s] /\ count[s] <= MaxRestarts

\* stop_requested says that a stop was noted since the last start; a stopped
\* service with a restart pending has none noted, and has waited for the delay
\* when the restart is due.
AskedInv(s) ==
    /\ sstate[s] = "STOPPED" => ~stop_requested[s]
    /\ sstate[s] = "RUNNING" => (stop_requested[s] <=> asked[s] = "noted") /\ ~failed[s]
    /\ pending[s] /\ sstate[s] = "STOPPED" =>
         /\ asked[s] # "noted"
         /\ last_start_time[s] + Spacing(autos[s]) <= restart_allowed_at[s]

\* RestsForAReason, for one service.
RestInv(s) ==
    policy[s] = "ALWAYS" /\ last_start_time[s] # 0 /\ sstate[s] = "STOPPED" /\ ~pending[s]
        => asked[s] = "noted" \/ failed[s] \/ refused[s]

ServiceInv(s) == DelayInv(s) /\ CountInv(s) /\ (~reaped[s] => AskedInv(s) /\ RestInv(s))

\* A TERMINATED record has the exit that drain_one_event collected.
ExitInv == \A r \in Record : rec[r] = "TERMINATED" => exit[r] \in {"clean", "failure"}

TimedInv ==
    /\ SupInv /\ TimesInv
    /\ \A s \in Service : ServiceInv(s)
    /\ ExitInv
    /\ pc = "idle"

-----------------------------------------------------------------------------
(* The delay.                                                              *)

\* x is 2^k, for every exponent that the clamp lets through.
IsPower(k, x) ==
    /\ (k = 0 => x = 2 ^ 0) /\ (k = 1 => x = 2 ^ 1) /\ (k = 2 => x = 2 ^ 2) /\ (k = 3 => x = 2 ^ 3)
    /\ (k = 4 => x = 2 ^ 4) /\ (k = 5 => x = 2 ^ 5) /\ (k = 6 => x = 2 ^ 6) /\ (k = 7 => x = 2 ^ 7)
    /\ (k = 8 => x = 2 ^ 8) /\ (k = 9 => x = 2 ^ 9) /\ (k = 10 => x = 2 ^ 10) /\ (k = 11 => x = 2 ^ 11)
    /\ (k = 12 => x = 2 ^ 12) /\ (k = 13 => x = 2 ^ 13) /\ (k = 14 => x = 2 ^ 14) /\ (k = 15 => x = 2 ^ 15)
    /\ (k = 16 => x = 2 ^ 16) /\ (k = 17 => x = 2 ^ 17) /\ (k = 18 => x = 2 ^ 18) /\ (k = 19 => x = 2 ^ 19)
    /\ (k = 20 => x = 2 ^ 20) /\ (k = 21 => x = 2 ^ 21) /\ (k = 22 => x = 2 ^ 22) /\ (k = 23 => x = 2 ^ 23)
    /\ (k = 24 => x = 2 ^ 24) /\ (k = 25 => x = 2 ^ 25) /\ (k = 26 => x = 2 ^ 26) /\ (k = 27 => x = 2 ^ 27)
    /\ (k = 28 => x = 2 ^ 28) /\ (k = 29 => x = 2 ^ 29) /\ (k = 30 => x = 2 ^ 30)

\* 2^k is the entry of k.
LEMMA Powers ==
  ASSUME NEW k
  PROVE  IsPower(k, 2 ^ k)
BY Zenon DEF IsPower

\* Doubling more often never gives less.
LEMMA PowersGrow ==
  ASSUME NEW j \in 0 .. 30, NEW k \in 0 .. 30, j <= k
  PROVE  2 ^ j \in Nat /\ 2 ^ k \in Nat /\ 2 ^ j <= 2 ^ k
<1> DEFINE a == 2 ^ j
           b == 2 ^ k
<1>1. IsPower(j, a) /\ IsPower(k, b)
  BY Powers, Zenon
<1> HIDE DEF a, b
<1>2. a \in Nat /\ b \in Nat /\ a <= b
  BY <1>1 DEF IsPower
<1> QED BY <1>2 DEF a, b

\* service_restart_compute_delay never returns less than the spacing of a
\* service that was restarted fewer times than it counts: the clamp keeps the
\* shift away from the sign bit.
LEMMA DelayBounds ==
  ASSUME NEW n \in Nat, NEW i \in Nat, i < n
  PROVE  compute_delay(n) \in Nat /\ Spacing(i) \in Nat /\ Spacing(i) <= compute_delay(n)
<1> DEFINE j == Smaller(i, MaxExponent)
           k == Smaller(Larger(n - 1, 0), MaxExponent)
           a == 2 ^ j
           b == 2 ^ k
<1>1. j \in 0 .. 30 /\ k \in 0 .. 30 /\ j <= k /\ k + 1 < LongBits
  BY DEF Smaller, Larger
<1>2. ShiftLeft(k) = b
  BY <1>1 DEF ShiftLeft
<1>3. Spacing(i) = Smaller(BaseDelay * a, MaxDelay) /\ compute_delay(n) = Smaller(BaseDelay * b, MaxDelay)
  BY <1>2 DEF Spacing, compute_delay
<1> HIDE DEF j, k
<1>4. a \in Nat /\ b \in Nat /\ a <= b
  BY <1>1, PowersGrow
<1> HIDE DEF a, b
<1> DEFINE x == BaseDelay * a
           y == BaseDelay * b
<1>5. x \in Nat /\ y \in Nat /\ x <= y
  BY <1>4
<1>6. Spacing(i) = Smaller(x, MaxDelay) /\ compute_delay(n) = Smaller(y, MaxDelay)
  BY <1>3
<1> HIDE DEF x, y
<1> QED BY <1>5, <1>6 DEF Smaller

-----------------------------------------------------------------------------
(* Every timed step is a step of Supervisor.                               *)

\* Every timed step is a step of Supervisor or leaves it alone.
LEMMA TimedStep == [TimedNext]_tvars => [Next]_vars
<1> SUFFICES ASSUME [TimedNext]_tvars PROVE [Next]_vars
  OBVIOUS
<1>1. ASSUME NEW s \in Service,
             \/ TimedStart(s) \/ TimedSignal(s) \/ TimedReap(s)
             \/ TimedTickQuiet(s) \/ TimedTickRetry(s) \/ TimedTickReaps(s)
      PROVE  Next
  BY <1>1 DEF TimedStart, TimedSignal, TimedReap, TimedTickQuiet, TimedTickRetry, TimedTickReaps,
              Next, Client
<1>2. CASE TimedDrain \/ \E r \in Record, how \in {"clean", "failure"} : TimedHostExit(r, how)
  BY <1>2 DEF TimedDrain, TimedHostExit, Next, Client, World
<1>3. CASE AdvanceTime
  <2> DEFINE S == {s \in Service : pending[s] /\ ~due[s] /\ now' >= restart_allowed_at[s]}
  <2>1. BackoffElapses(S) \/ UNCHANGED vars
    BY <1>3 DEF AdvanceTime
  <2>2. S \in SUBSET Service
    OBVIOUS
  <2> HIDE DEF S
  <2> QED BY <2>1, <2>2 DEF Next, World
<1>4. CASE UNCHANGED tvars
  BY <1>4 DEF tvars
<1> QED BY <1>1, <1>2, <1>3, <1>4 DEF TimedNext

-----------------------------------------------------------------------------
(* The invariant is inductive.                                             *)

\* The variables of one service that the invariant is about.
SameService(s) ==
    /\ sstate'[s] = sstate[s] /\ pending'[s] = pending[s] /\ due'[s] = due[s]
    /\ count'[s] = count[s] /\ failed'[s] = failed[s]
    /\ stop_requested'[s] = stop_requested[s] /\ asked'[s] = asked[s]
    /\ last_start_time'[s] = last_start_time[s]
    /\ restart_allowed_at'[s] = restart_allowed_at[s]
    /\ autos'[s] = autos[s] /\ refused'[s] = refused[s] /\ reaped'[s] = reaped[s]

\* What a step does not touch stays as it was.
LEMMA UntouchedService ==
  ASSUME NEW s \in Service, ServiceInv(s), SameService(s), policy' = policy, now' = now
  PROVE  ServiceInv(s)'
BY DEF ServiceInv, SameService, DelayInv, CountInv, AskedInv, RestInv

\* The initial states.
LEMMA TimedInitInv == TimedInit => TimedInv
<1> SUFFICES ASSUME TimedInit PROVE TimedInv
  OBVIOUS
<1>1. SupInv
  BY InitInv DEF TimedInit
<1>2. TimesInv
  BY DEF TimedInit, TimesInv
<1>3. ASSUME NEW s \in Service PROVE ServiceInv(s)
  <2>1. /\ sstate[s] = "STOPPED" /\ ~pending[s] /\ ~stop_requested[s]
        /\ count[s] = 0 /\ autos[s] = 0 /\ last_start_time[s] = 0
    BY DEF TimedInit, Init
  <2>2. DelayInv(s)
    BY <2>1 DEF DelayInv
  <2>3. CountInv(s)
    BY <2>1 DEF CountInv
  <2>4. AskedInv(s)
    BY <2>1 DEF AskedInv
  <2>5. RestInv(s)
    BY <2>1 DEF RestInv
  <2> QED BY <2>2, <2>3, <2>4, <2>5 DEF ServiceInv
<1> QED BY <1>1, <1>2, <1>3 DEF TimedInv, TimedInit, Init, ExitInv

\* What service_start does to one service, and to no other.
LEMMA StartEffect ==
  ASSUME LifeInv, FlagInv, ExitInv, NEW s \in Service, Start(s)
  PROVE  /\ ExitInv'
         /\ \/ sstate[s] = "STOPPED" /\ sstate'[s] = "RUNNING" /\ ~failed'[s] /\ asked'[s] = "no"
            \/ sstate'[s] = sstate[s] /\ failed'[s] = failed[s] /\ asked'[s] = asked[s]
         /\ \A t \in Service \ {s} : /\ sstate'[t] = sstate[t] /\ failed'[t] = failed[t]
                                     /\ asked'[t] = asked[t]
<1>1. CASE StartFails(s)
  BY <1>1 DEF StartFails, lifevars, ExitInv
<1>2. ASSUME NEW r \in Record, StartOK(s, r)
      PROVE  /\ ExitInv'
             /\ sstate[s] = "STOPPED" /\ sstate'[s] = "RUNNING" /\ ~failed'[s] /\ asked'[s] = "no"
             /\ \A t \in Service \ {s} : /\ sstate'[t] = sstate[t] /\ failed'[t] = failed[t]
                                         /\ asked'[t] = asked[t]
  <2>1. \A q \in Record : rec'[q] = IF q = r THEN "READY" ELSE rec[q]
    BY <1>2 DEF StartOK, LifeInv
  <2>2. ExitInv'
    BY <1>2, <2>1 DEF StartOK, ExitInv
  <2>3. /\ sstate[s] = "STOPPED" /\ sstate'[s] = "RUNNING" /\ ~failed'[s] /\ asked'[s] = "no"
        /\ \A t \in Service \ {s} : /\ sstate'[t] = sstate[t] /\ failed'[t] = failed[t]
                                    /\ asked'[t] = asked[t]
    BY <1>2 DEF StartOK, LifeInv, FlagInv
  <2> QED BY <2>2, <2>3
<1> QED BY <1>1, <1>2 DEF Start

\* What service_reap does to one service, and to no other.
LEMMA ReapEffect ==
  ASSUME LifeInv, ExitInv, NEW s \in Service, Reap(s)
  PROVE  /\ ExitInv' /\ sstate[s] = "RUNNING" /\ sstate'[s] = "STOPPED"
         /\ \A t \in Service \ {s} : sstate'[t] = sstate[t]
<1>1. proc[s] \in Record
  BY DEF Reap, Reapable, LifeInv
<1>2. \A q \in Record : /\ rec'[q] = IF q = proc[s] THEN "FREE" ELSE rec[q]
                        /\ q # proc[s] => exit'[q] = exit[q]
  BY DEF Reap, LifeInv
<1>3. ExitInv'
  BY <1>2 DEF ExitInv
<1> QED BY <1>3 DEF Reap, Reapable, LifeInv

\* The times that service_start takes.
LEMMA StartTimes ==
  ASSUME TimesInv, NEW s \in Service, StartTimed(s), now' = now
  PROVE  /\ last_start_time' \in [Service -> 0 .. now'] /\ refused' \in [Service -> BOOLEAN]
         /\ IF sstate[s] = "STOPPED" /\ sstate'[s] = "RUNNING"
              THEN last_start_time'[s] = now /\ ~refused'[s]
              ELSE /\ last_start_time'[s] = last_start_time[s]
                   /\ sstate[s] = "STOPPED" => refused'[s]
         /\ \A t \in Service \ {s} : /\ last_start_time'[t] = last_start_time[t]
                                     /\ refused'[t] = refused[t]
<1>1. CASE sstate[s] = "STOPPED" /\ sstate'[s] = "RUNNING"
  <2>1. /\ last_start_time' = [last_start_time EXCEPT ![s] = now]
        /\ refused' = [refused EXCEPT ![s] = FALSE]
    BY <1>1 DEF StartTimed
  <2>2. now \in 0 .. now /\ now' = now
    BY DEF TimesInv
  <2>3. last_start_time' \in [Service -> 0 .. now'] /\ refused' \in [Service -> BOOLEAN]
    BY <2>1, <2>2 DEF TimesInv
  <2>4. last_start_time'[s] = now /\ ~refused'[s]
    BY <2>1 DEF TimesInv
  <2>5. \A t \in Service \ {s} : /\ last_start_time'[t] = last_start_time[t]
                                 /\ refused'[t] = refused[t]
    BY <2>1 DEF TimesInv
  <2> QED BY <1>1, <2>3, <2>4, <2>5
<1>2. CASE ~(sstate[s] = "STOPPED" /\ sstate'[s] = "RUNNING")
  BY <1>2 DEF StartTimed, TimesInv
<1> QED BY <1>1, <1>2

\* service_start called by the client.
LEMMA TimedStartKeeps ==
  ASSUME TimedInv, NEW s \in Service, TimedStart(s)
  PROVE  TimesInv' /\ (\A t \in Service : ServiceInv(t)') /\ ExitInv' /\ pc' = pc
<1>1. LifeInv /\ FlagInv /\ ExitInv /\ TimesInv /\ \A t \in Service : ServiceInv(t)
  BY DEF TimedInv, SupInv
<1>2. /\ Start(s) /\ StartTimed(s)
      /\ UNCHANGED <<now, restart_allowed_at, autos, reaped, stop_requested, pending, due, count,
                     policy, pc>>
  BY DEF TimedStart, ServiceStart, restartvars, callvars, regvars
<1>3. /\ ExitInv'
      /\ \/ sstate[s] = "STOPPED" /\ sstate'[s] = "RUNNING" /\ ~failed'[s] /\ asked'[s] = "no"
         \/ sstate'[s] = sstate[s] /\ failed'[s] = failed[s] /\ asked'[s] = asked[s]
      /\ \A t \in Service \ {s} : /\ sstate'[t] = sstate[t] /\ failed'[t] = failed[t]
                                  /\ asked'[t] = asked[t]
  BY <1>1, <1>2, StartEffect
<1>4. /\ last_start_time' \in [Service -> 0 .. now'] /\ refused' \in [Service -> BOOLEAN]
      /\ IF sstate[s] = "STOPPED" /\ sstate'[s] = "RUNNING"
           THEN last_start_time'[s] = now /\ ~refused'[s]
           ELSE /\ last_start_time'[s] = last_start_time[s]
                /\ sstate[s] = "STOPPED" => refused'[s]
      /\ \A t \in Service \ {s} : /\ last_start_time'[t] = last_start_time[t]
                                  /\ refused'[t] = refused[t]
  BY <1>1, <1>2, StartTimes
<1>5. TimesInv'
  BY <1>1, <1>2, <1>4 DEF TimesInv
<1>6. ASSUME NEW t \in Service, t # s PROVE ServiceInv(t)'
  BY <1>1, <1>2, <1>3, <1>4, <1>6, UntouchedService DEF SameService
<1>7. ServiceInv(s)'
  <2>1. DelayInv(s)' /\ CountInv(s)'
    BY <1>1, <1>2 DEF ServiceInv, DelayInv, CountInv
  <2> SUFFICES ASSUME ~reaped[s] PROVE AskedInv(s)' /\ RestInv(s)'
    BY <1>2, <2>1 DEF ServiceInv
  <2>2. AskedInv(s)
    BY <1>1 DEF ServiceInv
  <2>3. CASE sstate[s] = "STOPPED" /\ sstate'[s] = "RUNNING" /\ ~failed'[s] /\ asked'[s] = "no"
    <3>1. AskedInv(s)'
      BY <1>2, <2>2, <2>3 DEF AskedInv
    <3>2. RestInv(s)'
      BY <2>3 DEF RestInv
    <3> QED BY <3>1, <3>2
  <2>4. CASE sstate'[s] = sstate[s] /\ failed'[s] = failed[s] /\ asked'[s] = asked[s]
    <3>1. last_start_time'[s] = last_start_time[s] /\ (sstate[s] = "STOPPED" => refused'[s])
      BY <1>4, <2>4
    <3>2. AskedInv(s)'
      BY <1>2, <2>2, <2>4, <3>1 DEF AskedInv, Spacing
    <3>3. RestInv(s)'
      BY <2>4, <3>1 DEF RestInv
    <3> QED BY <3>2, <3>3
  <2> QED BY <1>3, <2>3, <2>4
<1> QED BY <1>2, <1>3, <1>5, <1>6, <1>7

\* service_tick tries the restart that is due.
LEMMA TimedRetryKeeps ==
  ASSUME TimedInv, NEW s \in Service, TimedTickRetry(s)
  PROVE  TimesInv' /\ (\A t \in Service : ServiceInv(t)') /\ ExitInv' /\ pc' = pc
<1>1. LifeInv /\ FlagInv /\ ExitInv /\ TimesInv /\ \A t \in Service : ServiceInv(t)
  BY DEF TimedInv, SupInv
<1>2. TickPending(s) /\ pending[s] /\ due[s] /\ StartTimed(s)
  BY DEF TimedTickRetry, ServiceTick, Tick, TickNothing, TickNoRestart, TickRestart
<1>3. /\ Start(s)
      /\ pending' = [pending EXCEPT ![s] = FALSE]
      /\ due' = [due EXCEPT ![s] = FALSE]
      /\ UNCHANGED <<count, stop_requested>>
  BY <1>2 DEF TickPending
<1>4. /\ autos' = [autos EXCEPT ![s] = IF sstate'[s] = sstate[s] THEN @ ELSE @ + 1]
      /\ UNCHANGED <<now, restart_allowed_at, reaped, policy, pc>>
  BY DEF TimedTickRetry, ServiceTick, callvars, regvars
<1>5. /\ ExitInv'
      /\ \/ sstate[s] = "STOPPED" /\ sstate'[s] = "RUNNING" /\ ~failed'[s] /\ asked'[s] = "no"
         \/ sstate'[s] = sstate[s] /\ failed'[s] = failed[s] /\ asked'[s] = asked[s]
      /\ \A t \in Service \ {s} : /\ sstate'[t] = sstate[t] /\ failed'[t] = failed[t]
                                  /\ asked'[t] = asked[t]
  BY <1>1, <1>3, StartEffect
<1>6. /\ last_start_time' \in [Service -> 0 .. now'] /\ refused' \in [Service -> BOOLEAN]
      /\ IF sstate[s] = "STOPPED" /\ sstate'[s] = "RUNNING"
           THEN last_start_time'[s] = now /\ ~refused'[s]
           ELSE /\ last_start_time'[s] = last_start_time[s]
                /\ sstate[s] = "STOPPED" => refused'[s]
      /\ \A t \in Service \ {s} : /\ last_start_time'[t] = last_start_time[t]
                                  /\ refused'[t] = refused[t]
  BY <1>1, <1>2, <1>4, StartTimes
<1>7. autos' \in [Service -> Nat] /\ autos'[s] \in {autos[s], autos[s] + 1}
  BY <1>1, <1>4 DEF TimesInv
<1>8. TimesInv'
  BY <1>1, <1>4, <1>6, <1>7 DEF TimesInv
<1>9. ASSUME NEW t \in Service, t # s PROVE ServiceInv(t)'
  <2>1. pending'[t] = pending[t] /\ due'[t] = due[t] /\ autos'[t] = autos[t]
    BY <1>1, <1>3, <1>4, <1>9 DEF FlagInv, TimesInv
  <2> QED BY <1>1, <1>3, <1>4, <1>5, <1>6, <1>9, <2>1, UntouchedService DEF SameService
<1>10. ServiceInv(s)'
  <2>1. ~pending'[s]
    BY <1>1, <1>3 DEF FlagInv
  <2>2. DelayInv(s)'
    BY <2>1 DEF DelayInv
  <2>3. CountInv(s)'
    <3>1. autos[s] < count[s] /\ count[s] <= MaxRestarts /\ count[s] \in Nat /\ autos[s] \in Nat
      BY <1>1, <1>2 DEF ServiceInv, CountInv, FlagInv, TimesInv
    <3>2. autos'[s] <= count'[s] /\ autos'[s] <= MaxRestarts
      BY <1>3, <1>7, <3>1
    <3> QED BY <2>1, <3>2 DEF CountInv
  <2>4. ASSUME ~reaped[s] PROVE AskedInv(s)' /\ RestInv(s)'
    <3> USE <2>4
    <3>1. AskedInv(s)
      BY <1>1 DEF ServiceInv
    <3>2. CASE sstate[s] = "STOPPED" /\ sstate'[s] = "RUNNING" /\ ~failed'[s] /\ asked'[s] = "no"
      <4>1. ~stop_requested'[s]
        BY <1>3, <3>1, <3>2 DEF AskedInv
      <4> QED BY <3>2, <4>1 DEF AskedInv, RestInv
    <3>3. CASE sstate'[s] = sstate[s] /\ failed'[s] = failed[s] /\ asked'[s] = asked[s]
      <4>1. sstate[s] = "STOPPED" => refused'[s]
        BY <1>6, <3>3
      <4>2. AskedInv(s)'
        BY <1>3, <2>1, <3>1, <3>3 DEF AskedInv
      <4> QED BY <3>3, <4>1, <4>2 DEF RestInv
    <3> QED BY <1>5, <3>2, <3>3
  <2> QED BY <1>4, <2>2, <2>3, <2>4 DEF ServiceInv
<1> QED BY <1>4, <1>5, <1>8, <1>9, <1>10

\* service_tick schedules a restart or gives up.
LEMMA TimedReapsKeeps ==
  ASSUME TimedInv, NEW s \in Service, TimedTickReaps(s)
  PROVE  TimesInv' /\ (\A t \in Service : ServiceInv(t)') /\ ExitInv' /\ pc' = pc
<1>1. LifeInv /\ FlagInv /\ ExitInv /\ TimesInv /\ \A t \in Service : ServiceInv(t)
  BY DEF TimedInv, SupInv
<1>2. ~pending[s] /\ ~stop_requested[s] /\ TickRestart(s)
  BY DEF TimedTickReaps, ServiceTick, Tick, TickPending, TickNothing, TickNoRestart
<1>3. PICK stable \in BOOLEAN :
             /\ count' = [count EXCEPT ![s] = NewCount(s, stable)]
             /\ failed' = [failed EXCEPT ![s] =
                             IF NewCount(s, stable) > MaxRestarts THEN TRUE ELSE @]
             /\ pending' = [pending EXCEPT ![s] = NewCount(s, stable) <= MaxRestarts]
  BY <1>2 DEF TickRestart
<1> DEFINE n == NewCount(s, Stable(s))
<1>4. count'[s] = n /\ NewCount(s, stable) = n
  BY <1>1, <1>3 DEF TimedTickReaps, FlagInv
<1>5. n = (IF Stable(s) THEN 1 ELSE IF count[s] > MaxRestarts THEN count[s] ELSE count[s] + 1)
  BY DEF NewCount
<1> HIDE DEF n
<1>6. /\ Reap(s) /\ UNCHANGED <<stop_requested, asked>>
      /\ \E d \in BOOLEAN : due' = [due EXCEPT ![s] = pending'[s] /\ d]
  BY <1>2 DEF TickRestart
<1>7. /\ restart_allowed_at' =
           [restart_allowed_at EXCEPT ![s] = IF pending'[s] THEN now + compute_delay(n) ELSE @]
      /\ due'[s] <=> (pending'[s] /\ now >= restart_allowed_at'[s])
      /\ autos' = [autos EXCEPT ![s] = IF Stable(s) THEN 0 ELSE @]
      /\ UNCHANGED <<now, last_start_time, refused, reaped, policy, pc>>
  BY <1>4 DEF TimedTickReaps, ServiceTick, callvars, regvars
<1>8. ExitInv' /\ sstate[s] = "RUNNING" /\ sstate'[s] = "STOPPED"
      /\ \A t \in Service \ {s} : sstate'[t] = sstate[t]
  BY <1>1, <1>6, ReapEffect
<1>9. n \in Nat /\ count[s] \in Nat /\ autos[s] \in Nat
  BY <1>1, <1>5 DEF FlagInv, TimesInv
<1>10. n > 0 /\ compute_delay(n) \in Nat
  <2>1. n > 0
    BY <1>5, <1>9
  <2> QED BY <1>9, <2>1, DelayBounds
<1>11. /\ pending'[s] <=> n <= MaxRestarts
       /\ n > MaxRestarts => failed'[s]
  <2>1. /\ pending' = [pending EXCEPT ![s] = n <= MaxRestarts]
        /\ failed' = [failed EXCEPT ![s] = IF n > MaxRestarts THEN TRUE ELSE @]
    BY <1>3, <1>4
  <2>2. pending'[s] <=> n <= MaxRestarts
    BY <1>1, <2>1, Zenon DEF FlagInv
  <2>3. ASSUME n > MaxRestarts PROVE failed'[s]
    BY <1>1, <2>1, <2>3 DEF LifeInv
  <2> QED BY <2>2, <2>3
<1>12. /\ pending'[s] => restart_allowed_at'[s] = now + compute_delay(n)
       /\ restart_allowed_at' \in [Service -> Nat]
  <2>1. now + compute_delay(n) \in Nat
    BY <1>1, <1>10 DEF TimesInv
  <2> QED BY <1>1, <1>7, <2>1 DEF TimesInv
<1>13. /\ autos'[s] = (IF Stable(s) THEN 0 ELSE autos[s])
       /\ autos' \in [Service -> Nat]
  BY <1>1, <1>7 DEF TimesInv
<1>14. TimesInv'
  BY <1>1, <1>7, <1>12, <1>13 DEF TimesInv
<1>15. ASSUME NEW t \in Service, t # s PROVE ServiceInv(t)'
  <2>1. /\ pending'[t] = pending[t] /\ count'[t] = count[t] /\ failed'[t] = failed[t]
        /\ due'[t] = due[t]
    BY <1>1, <1>3, <1>6, <1>15 DEF FlagInv, LifeInv
  <2>2. restart_allowed_at'[t] = restart_allowed_at[t] /\ autos'[t] = autos[t]
    BY <1>1, <1>7, <1>15 DEF TimesInv
  <2>3. SameService(t)
    BY <1>6, <1>7, <1>8, <1>15, <2>1, <2>2 DEF SameService
  <2> QED BY <1>1, <1>7, <2>3, UntouchedService
<1>16. ServiceInv(s)'
  <2>1. DelayInv(s)'
    <3>1. now \in Nat
      BY <1>1 DEF TimesInv
    <3> QED BY <1>7, <1>10, <1>12, <3>1 DEF DelayInv
  <2>2. /\ autos'[s] <= n /\ autos'[s] <= MaxRestarts /\ autos'[s] \in Nat
        /\ n <= MaxRestarts => autos'[s] < n
    <3>1. autos[s] <= count[s] /\ autos[s] <= MaxRestarts
      BY <1>1 DEF ServiceInv, CountInv
    <3> QED BY <1>5, <1>9, <1>13, <3>1
  <2>3. CountInv(s)'
    BY <1>4, <1>11, <2>2 DEF CountInv
  <2>4. ASSUME ~reaped[s] PROVE AskedInv(s)'
    <3>1. asked'[s] # "noted" /\ ~stop_requested'[s]
      BY <1>1, <1>2, <1>6, <1>8, <2>4 DEF ServiceInv, AskedInv
    <3>2. last_start_time'[s] <= now /\ last_start_time'[s] \in Nat /\ now \in Nat
      BY <1>1, <1>7 DEF TimesInv
    <3>3. ASSUME pending'[s]
          PROVE  last_start_time'[s] + Spacing(autos'[s]) <= restart_allowed_at'[s]
      <4>1. autos'[s] < n
        BY <1>11, <2>2, <3>3
      <4>2. Spacing(autos'[s]) \in Nat /\ Spacing(autos'[s]) <= compute_delay(n)
        BY <1>9, <2>2, <4>1, DelayBounds
      <4> QED BY <1>10, <1>12, <3>2, <3>3, <4>2
    <3> QED BY <1>8, <3>1, <3>3 DEF AskedInv
  <2>5. RestInv(s)'
    BY <1>9, <1>11 DEF RestInv
  <2> QED BY <1>7, <2>1, <2>3, <2>4, <2>5 DEF ServiceInv
<1> QED BY <1>7, <1>8, <1>14, <1>15, <1>16

\* service_tick waits, finds nothing to do, or reaps without a restart.
LEMMA TimedQuietKeeps ==
  ASSUME TimedInv, NEW s \in Service, TimedTickQuiet(s)
  PROVE  TimesInv' /\ (\A t \in Service : ServiceInv(t)') /\ ExitInv' /\ pc' = pc
<1>1. LifeInv /\ FlagInv /\ ExitInv /\ TimesInv /\ \A t \in Service : ServiceInv(t)
  BY DEF TimedInv, SupInv
<1>2. UNCHANGED <<now, last_start_time, restart_allowed_at, autos, refused, reaped, policy, pc>>
  BY DEF TimedTickQuiet, ServiceTick, timevars, callvars, regvars
<1>3. TimesInv'
  BY <1>1, <1>2 DEF TimesInv
<1>4. CASE UNCHANGED <<lifevars, restartvars, stop_requested, asked>>
  <2>1. ASSUME NEW t \in Service PROVE SameService(t)
    BY <1>2, <1>4 DEF SameService, lifevars, restartvars
  <2>2. ExitInv'
    BY <1>1, <1>4 DEF ExitInv, lifevars
  <2> QED BY <1>1, <1>2, <1>3, <2>1, <2>2, UntouchedService
<1>5. CASE TickNoRestart(s)
  <2>1. /\ ~pending[s] /\ Reap(s) /\ (stop_requested[s] \/ ~ShouldRestart(s))
        /\ stop_requested' = [stop_requested EXCEPT ![s] = FALSE]
        /\ UNCHANGED <<pending, due, count, failed, asked>>
    BY <1>5 DEF TickNoRestart, restartvars
  <2>2. ExitInv' /\ sstate[s] = "RUNNING" /\ sstate'[s] = "STOPPED"
        /\ \A t \in Service \ {s} : sstate'[t] = sstate[t]
    BY <1>1, <2>1, ReapEffect
  <2>3. ASSUME NEW t \in Service, t # s PROVE ServiceInv(t)'
    <3>1. stop_requested'[t] = stop_requested[t]
      BY <1>1, <2>1, <2>3 DEF FlagInv
    <3>2. SameService(t)
      BY <1>2, <2>1, <2>2, <2>3, <3>1 DEF SameService
    <3> QED BY <1>1, <1>2, <3>2, UntouchedService
  <2>4. ServiceInv(s)'
    <3>1. ~stop_requested'[s] /\ ~pending'[s]
      BY <1>1, <2>1 DEF FlagInv
    <3>2. DelayInv(s)' /\ CountInv(s)'
      BY <1>1, <1>2, <2>1, <3>1 DEF ServiceInv, DelayInv, CountInv
    <3>3. AskedInv(s)'
      BY <2>2, <3>1 DEF AskedInv
    <3>4. ~reaped[s] /\ policy[s] = "ALWAYS" => asked'[s] = "noted"
      BY <1>1, <2>1, <2>2 DEF ServiceInv, AskedInv, ShouldRestart
    <3>5. ~reaped[s] => RestInv(s)'
      BY <1>2, <3>4 DEF RestInv
    <3> QED BY <1>2, <3>2, <3>3, <3>5 DEF ServiceInv
  <2> QED BY <1>2, <1>3, <2>2, <2>3, <2>4
<1>6. \/ UNCHANGED <<lifevars, restartvars, stop_requested, asked>>
      \/ TickNoRestart(s)
  BY DEF TimedTickQuiet, ServiceTick, Tick, TickPending, TickNothing, TickRestart, Reap
<1> QED BY <1>4, <1>5, <1>6

\* service_stop and service_kill.
LEMMA TimedSignalKeeps ==
  ASSUME TimedInv, NEW s \in Service, TimedSignal(s)
  PROVE  TimesInv' /\ (\A t \in Service : ServiceInv(t)') /\ ExitInv' /\ pc' = pc
<1>1. LifeInv /\ FlagInv /\ ExitInv /\ TimesInv /\ \A t \in Service : ServiceInv(t)
  BY DEF TimedInv, SupInv
<1>2. UNCHANGED <<now, last_start_time, restart_allowed_at, autos, refused, reaped, policy, pc,
                  sstate, pending, due, count, failed, rec, exit>>
  BY DEF TimedSignal, timevars, ServiceStop, ServiceStopRefused, ServiceKill, callvars, regvars,
         restartvars, lifevars
<1>3. TimesInv' /\ ExitInv'
  BY <1>1, <1>2 DEF TimesInv, ExitInv
<1>4. ASSUME NEW t \in Service, t # s PROVE ServiceInv(t)'
  <2>1. stop_requested'[t] = stop_requested[t] /\ asked'[t] = asked[t]
    BY <1>1, <1>4 DEF TimedSignal, ServiceStop, StopOK, StopLate, ServiceStopRefused, ServiceKill, FlagInv
  <2> QED BY <1>1, <1>2, <2>1, UntouchedService DEF SameService
<1>5. ServiceInv(s)'
  <2>1. CASE ServiceStop(s)
    <3>1. sstate[s] = "RUNNING" /\ stop_requested'[s] /\ asked'[s] = "noted"
      BY <1>1, <2>1 DEF ServiceStop, StopOK, StopLate, FlagInv
    <3> QED BY <1>1, <1>2, <3>1 DEF ServiceInv, DelayInv, CountInv, AskedInv, RestInv
  <2>2. CASE ServiceStopRefused(s)
    <3>1. /\ sstate[s] = "STOPPED" /\ stop_requested' = stop_requested
          /\ asked'[s] = "noted" <=> asked[s] = "noted"
      BY <1>1, <2>2 DEF ServiceStopRefused, FlagInv, LifeInv
    <3>2. DelayInv(s)' /\ CountInv(s)'
      BY <1>1, <1>2 DEF ServiceInv, DelayInv, CountInv
    <3>3. ASSUME AskedInv(s) /\ RestInv(s) PROVE AskedInv(s)' /\ RestInv(s)'
      BY <1>2, <3>1, <3>3 DEF AskedInv, RestInv
    <3> QED BY <1>1, <1>2, <3>2, <3>3 DEF ServiceInv
  <2>3. CASE ServiceKill(s)
    BY <1>1, <1>2, <2>3, UntouchedService DEF SameService, ServiceKill
  <2> QED BY <2>1, <2>2, <2>3 DEF TimedSignal
<1> QED BY <1>2, <1>3, <1>4, <1>5

\* The client reaps a service: of this one only the counts are known from then on.
LEMMA TimedReapKeeps ==
  ASSUME TimedInv, NEW s \in Service, TimedReap(s)
  PROVE  TimesInv' /\ (\A t \in Service : ServiceInv(t)') /\ ExitInv' /\ pc' = pc
<1>1. LifeInv /\ FlagInv /\ ExitInv /\ TimesInv /\ \A t \in Service : ServiceInv(t)
  BY DEF TimedInv, SupInv
<1>2. /\ Reap(s) /\ reaped' = [reaped EXCEPT ![s] = TRUE]
      /\ UNCHANGED <<now, last_start_time, restart_allowed_at, autos, refused, policy, pc,
                     pending, due, count, failed, stop_requested, asked>>
  BY DEF TimedReap, ServiceReap, timevars, callvars, regvars, restartvars
<1>3. ExitInv' /\ \A t \in Service \ {s} : sstate'[t] = sstate[t]
  BY <1>1, <1>2, ReapEffect
<1>4. TimesInv' /\ reaped'[s] /\ \A t \in Service \ {s} : reaped'[t] = reaped[t]
  BY <1>1, <1>2 DEF TimesInv
<1>5. ASSUME NEW t \in Service, t # s PROVE ServiceInv(t)'
  BY <1>1, <1>2, <1>3, <1>4, <1>5, UntouchedService DEF SameService
<1>6. ServiceInv(s)'
  BY <1>1, <1>2, <1>4 DEF ServiceInv, DelayInv, CountInv
<1> QED BY <1>2, <1>3, <1>4, <1>5, <1>6

\* A host process ends, or drain_one_event collects the event.
LEMMA TimedEventKeeps ==
  ASSUME TimedInv,
         TimedDrain \/ \E r \in Record, how \in {"clean", "failure"} : TimedHostExit(r, how)
  PROVE  TimesInv' /\ (\A t \in Service : ServiceInv(t)') /\ ExitInv' /\ pc' = pc
<1>1. LifeInv /\ FlagInv /\ ExitInv /\ TimesInv /\ \A t \in Service : ServiceInv(t)
  BY DEF TimedInv, SupInv
<1>2. UNCHANGED <<now, last_start_time, restart_allowed_at, autos, refused, reaped, policy, pc,
                  sstate, pending, due, count, failed, stop_requested, asked>>
  BY DEF TimedDrain, TimedHostExit, timevars, DrainOneEvent, HostExit, callvars, regvars, restartvars
<1>3. TimesInv'
  BY <1>1, <1>2 DEF TimesInv
<1>4. ASSUME NEW t \in Service PROVE ServiceInv(t)'
  BY <1>1, <1>2, UntouchedService DEF SameService
<1>5. ExitInv'
  <2>1. CASE UNCHANGED <<rec, exit>>
    BY <1>1, <2>1 DEF ExitInv
  <2>2. ASSUME NEW r \in Record, DrainExit(r) PROVE ExitInv'
    <3>1. \A q \in Record : /\ q # r => rec'[q] = rec[q] /\ exit'[q] = exit[q]
                            /\ q = r => exit'[q] \in {"clean", "failure"}
      BY <1>1, <2>2 DEF DrainExit, LifeInv
    <3> QED BY <1>1, <3>1 DEF ExitInv
  <2> QED BY <2>1, <2>2 DEF TimedDrain, TimedHostExit, HostExit, DrainOneEvent, Drain, DrainIgnored
<1> QED BY <1>2, <1>3, <1>4, <1>5

\* The clock goes on.
LEMMA AdvanceKeeps ==
  ASSUME TimedInv, AdvanceTime
  PROVE  TimesInv' /\ (\A t \in Service : ServiceInv(t)') /\ ExitInv' /\ pc' = pc
<1>1. LifeInv /\ FlagInv /\ ExitInv /\ TimesInv /\ \A t \in Service : ServiceInv(t)
  BY DEF TimedInv, SupInv
<1>2. UNCHANGED <<last_start_time, restart_allowed_at, autos, refused, reaped, policy, pc,
                  sstate, pending, count, failed, stop_requested, asked, rec, exit>>
  BY DEF AdvanceTime, BackoffElapses, lifevars, callvars, regvars, vars
<1>3. now' = now + 1 /\ now < MaxTime /\ now \in Nat
  BY <1>1 DEF AdvanceTime, TimesInv
<1>4. TimesInv'
  <2>1. 0 .. now \subseteq 0 .. now'
    BY <1>3
  <2>2. last_start_time' \in [Service -> 0 .. now']
    BY <1>1, <1>2, <2>1 DEF TimesInv
  <2> QED BY <1>1, <1>2, <1>3, <2>2 DEF TimesInv
<1>5. ASSUME NEW t \in Service, pending[t]
      PROVE  due'[t] <=> (due[t] \/ now' >= restart_allowed_at[t])
  <2> DEFINE S == {s \in Service : pending[s] /\ ~due[s] /\ now' >= restart_allowed_at[s]}
  <2>1. CASE S = {}
    BY <1>5, <2>1 DEF AdvanceTime, vars
  <2>2. CASE S # {}
    <3>1. due' = [s \in Service |-> due[s] \/ s \in S]
      BY <2>2 DEF AdvanceTime, BackoffElapses
    <3> QED BY <1>5, <3>1
  <2> QED BY <2>1, <2>2
<1>6. ASSUME NEW t \in Service PROVE ServiceInv(t)'
  <2>1. DelayInv(t)'
    <3> SUFFICES ASSUME pending[t]
                 PROVE  due'[t] <=> now' >= restart_allowed_at[t]
      BY <1>2 DEF DelayInv
    <3>1. due[t] <=> now >= restart_allowed_at[t]
      BY <1>1 DEF ServiceInv, DelayInv
    <3>2. restart_allowed_at[t] \in Nat
      BY <1>1 DEF TimesInv
    <3> QED BY <1>3, <1>5, <3>1, <3>2
  <2>2. CountInv(t)' /\ (~reaped'[t] => AskedInv(t)' /\ RestInv(t)')
    BY <1>1, <1>2 DEF ServiceInv, CountInv, AskedInv, RestInv
  <2> QED BY <2>1, <2>2 DEF ServiceInv
<1>7. ExitInv'
  BY <1>1, <1>2 DEF ExitInv
<1> QED BY <1>2, <1>4, <1>6, <1>7

\* Every timed step keeps the invariant.
LEMMA TimedStepInv == TimedInv /\ [TimedNext]_tvars => TimedInv'
<1> SUFFICES ASSUME TimedInv, [TimedNext]_tvars PROVE TimedInv'
  OBVIOUS
<1>1. SupInv'
  BY TimedStep, StepInv DEF TimedInv
<1>2. TimesInv' /\ (\A t \in Service : ServiceInv(t)') /\ ExitInv' /\ pc' = pc
  <2>1. CASE UNCHANGED tvars
    <3>1. UNCHANGED <<rec, exit, pc, policy, now>> /\ TimesInv'
          /\ \A t \in Service : SameService(t)
      BY <2>1 DEF tvars, vars, timevars, TimedInv, TimesInv, SameService
    <3> QED BY <3>1, UntouchedService DEF TimedInv, ExitInv
  <2>2. CASE TimedNext
    BY <2>2, TimedStartKeeps, TimedRetryKeeps, TimedReapsKeeps, TimedQuietKeeps,
       TimedSignalKeeps, TimedReapKeeps, TimedEventKeeps, AdvanceKeeps DEF TimedNext
  <2> QED BY <2>1, <2>2
<1> QED BY <1>1, <1>2 DEF TimedInv

-----------------------------------------------------------------------------
(* The theorems.                                                           *)

\* The inductive invariant holds in every reachable state.
THEOREM TimedCorrect == TimedSpec => []TimedInv
BY TimedInitInv, TimedStepInv, PTL DEF TimedSpec

\* service_tick restarts a service that is never stable at most
\* max_consecutive_restarts times.
THEOREM CrashLoopBounded == TimedSpec => []CrashLoopEnds
<1>1. TimedInv => CrashLoopEnds
  <2> SUFFICES ASSUME TimedInv PROVE CrashLoopEnds
    OBVIOUS
  <2>1. TypeOK
    BY InvOneProcessEach DEF TimedInv, OneProcessEach
  <2> QED BY <2>1 DEF TimedInv, TimesInv, TimedTypeOK, ServiceInv, CountInv, CrashLoopEnds
<1> QED BY <1>1, TimedCorrect, PTL

\* A RESTART_ALWAYS service that rests, and that the client did not reap, had
\* its stop noted, was given up on, or the start that was last tried failed.
THEOREM RestExplained == TimedSpec => []RestsForAReason
<1>1. TimedInv => RestsForAReason
  BY DEF TimedInv, ServiceInv, RestInv, RestsForAReason
<1> QED BY <1>1, TimedCorrect, PTL

\* A tick that starts a service is one that tries a restart that is due.
LEMMA StartIsDue ==
  ASSUME LifeInv, NEW s \in Service, TickStarts(s)
  PROVE  pending[s] /\ due[s]
<1>1. ~Reap(s)
  BY DEF Reap, Reapable, TickStarts
<1>2. sstate' # sstate
  BY DEF TickStarts
<1>3. TickPending(s)
  BY <1>1, <1>2 DEF TickStarts, ServiceTick, Tick, TickNothing, TickNoRestart, TickRestart, lifevars
<1> QED BY <1>2, <1>3 DEF TickPending, lifevars

\* service_tick never starts a service sooner after its last start than the
\* base delay doubled once for every restart since it was last stable, up to the
\* clamp and the maximum delay, unless the client reaped it.
THEOREM RestartsApart == TimedSpec => RestartsSpaced
<1>1. TimedInv /\ [TimedNext]_tvars =>
        [\A s \in Service : TickStarts(s) /\ ~reaped[s] =>
           now - last_start_time[s] >= Spacing(autos[s])]_tvars
  <2> SUFFICES ASSUME TimedInv, NEW s \in Service, TickStarts(s), ~reaped[s]
               PROVE  now - last_start_time[s] >= Spacing(autos[s])
    OBVIOUS
  <2>1. pending[s] /\ due[s] /\ sstate[s] = "STOPPED"
    BY StartIsDue DEF TimedInv, SupInv, TickStarts
  <2>2. /\ now >= restart_allowed_at[s]
        /\ last_start_time[s] + Spacing(autos[s]) <= restart_allowed_at[s]
    BY <2>1 DEF TimedInv, ServiceInv, DelayInv, AskedInv
  <2>3. autos[s] \in Nat /\ now \in Nat /\ last_start_time[s] \in Nat /\ restart_allowed_at[s] \in Nat
    BY DEF TimedInv, TimesInv
  <2>4. Spacing(autos[s]) \in Nat
    BY <2>3, DelayBounds, autos[s] < autos[s] + 1, autos[s] + 1 \in Nat
  <2> QED BY <2>2, <2>3, <2>4
<1> QED BY <1>1, TimedCorrect, PTL DEF TimedSpec, RestartsSpaced

\* A tick never restarts a service whose stop was noted since its last start,
\* unless the client reaped it.
THEOREM StopHolds == TimedSpec => NotedStopHolds
<1>1. TimedInv /\ [TimedNext]_tvars =>
        [\A s \in Service : TickStarts(s) /\ ~reaped[s] => asked[s] # "noted"]_tvars
  <2> SUFFICES ASSUME TimedInv, NEW s \in Service, TickStarts(s), ~reaped[s]
               PROVE  asked[s] # "noted"
    OBVIOUS
  <2>1. pending[s] /\ due[s] /\ sstate[s] = "STOPPED"
    BY StartIsDue DEF TimedInv, SupInv, TickStarts
  <2> QED BY <2>1 DEF TimedInv, ServiceInv, AskedInv
<1> QED BY <1>1, TimedCorrect, PTL DEF TimedSpec, NotedStopHolds

\* A tick that reaps a process schedules a restart, or gives up, exactly if the
\* policy asks for a restart after this exit and no stop was noted, unless the
\* client has reaped the service before.
THEOREM PolicyKept == TimedSpec => RestartPolicyKept
<1>1. TimedInv /\ [TimedNext]_tvars =>
        [\A s \in Service :
           ServiceTick(s) /\ sstate[s] = "RUNNING" /\ sstate'[s] = "STOPPED" /\ ~reaped[s] =>
           ((pending'[s] \/ failed'[s]) <=>
              /\ asked[s] # "noted"
              /\ \/ policy[s] = "ALWAYS"
                 \/ policy[s] = "ON_FAILURE" /\ exit[proc[s]] = "failure")]_tvars
  <2> SUFFICES ASSUME TimedInv, NEW s \in Service, ServiceTick(s), sstate[s] = "RUNNING",
                      sstate'[s] = "STOPPED", ~reaped[s]
               PROVE  (pending'[s] \/ failed'[s]) <=>
                        /\ asked[s] # "noted"
                        /\ \/ policy[s] = "ALWAYS"
                           \/ policy[s] = "ON_FAILURE" /\ exit[proc[s]] = "failure"
    OBVIOUS
  <2>1. LifeInv /\ FlagInv /\ ExitInv /\ ServiceInv(s)
    BY DEF TimedInv, SupInv
  <2>2. (stop_requested[s] <=> asked[s] = "noted") /\ ~failed[s]
    BY <2>1 DEF ServiceInv, AskedInv
  <2>3. ~Start(s) /\ sstate' # sstate
    BY <2>1 DEF Start, StartOK, StartFails, lifevars
  <2>4. TickNoRestart(s) \/ TickRestart(s)
    BY <2>1, <2>3 DEF ServiceTick, Tick, TickPending, TickNothing, lifevars
  <2>5. Reap(s) /\ ~pending[s]
    BY <2>4 DEF TickNoRestart, TickRestart
  <2>6. exit[proc[s]] \in {"clean", "failure"}
    BY <2>1, <2>5 DEF Reap, Reapable, LifeInv, ExitInv
  <2>7. ShouldRestart(s) <=> \/ policy[s] = "ALWAYS"
                             \/ policy[s] = "ON_FAILURE" /\ exit[proc[s]] = "failure"
    BY <2>6 DEF ShouldRestart
  <2>8. CASE TickNoRestart(s)
    <3>1. ~pending'[s] /\ ~failed'[s]
      BY <2>2, <2>5, <2>8 DEF TickNoRestart, restartvars
    <3>2. stop_requested[s] \/ ~ShouldRestart(s)
      BY <2>8 DEF TickNoRestart
    <3> QED BY <2>2, <2>7, <3>1, <3>2
  <2>9. CASE TickRestart(s)
    <3>1. ~stop_requested[s] /\ ShouldRestart(s)
      BY <2>9 DEF TickRestart
    <3>2. pending'[s] \/ failed'[s]
      <4>1. PICK stable \in BOOLEAN :
               /\ failed' = [failed EXCEPT ![s] =
                               IF NewCount(s, stable) > MaxRestarts THEN TRUE ELSE @]
               /\ pending' = [pending EXCEPT ![s] = NewCount(s, stable) <= MaxRestarts]
        BY <2>9 DEF TickRestart
      <4>2. NewCount(s, stable) \in Nat
        BY <2>1 DEF NewCount, FlagInv
      <4>3. CASE NewCount(s, stable) > MaxRestarts
        BY <2>1, <4>1, <4>3 DEF LifeInv
      <4>4. CASE NewCount(s, stable) <= MaxRestarts
        BY <2>1, <4>1, <4>4, Zenon DEF FlagInv
      <4> QED BY <4>2, <4>3, <4>4
    <3> QED BY <2>2, <2>7, <3>1, <3>2
  <2> QED BY <2>4, <2>8, <2>9
<1> QED BY <1>1, TimedCorrect, PTL DEF TimedSpec, RestartPolicyKept
=============================================================================
