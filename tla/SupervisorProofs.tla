-------------------------- MODULE SupervisorProofs --------------------------
(***************************************************************************)
(* The service layer loses no process and starts none twice, and stop_all  *)
(* stops every service after those that depend on it, for any number of    *)
(* services, any dependencies and any size of the process table.           *)
(***************************************************************************)
EXTENDS Supervisor, SequenceTheorems, FiniteSetTheorems, TLAPS

USE LimitsAssumption

-----------------------------------------------------------------------------
(* The inductive invariant.                                                *)

\* Services and process records: OneProcessEach without the other variables.
LifeInv ==
    /\ sstate \in [Service -> {"STOPPED", "RUNNING"}]
    /\ proc \in [Service -> Record \cup {NULL}]
    /\ failed \in [Service -> BOOLEAN]
    /\ rec \in [Record -> {"FREE", "READY", "TERMINATED"}]
    /\ exit \in [Record -> {"clean", "failure", NULL}]
    /\ host \in [Record -> {"none", "run", "clean", "failure"}]
    /\ queued \in 0 .. QueueCapacity
    /\ dropped \in SUBSET Record
    /\ \A s \in Service : sstate[s] = "RUNNING" <=> proc[s] # NULL
    /\ \A s, t \in Service : proc[s] = proc[t] /\ proc[s] # NULL => s = t
    /\ \A s \in Service : proc[s] \notin dropped
    /\ \A r \in Record : rec[r] # "FREE" <=> r \in dropped \/ \E s \in Service : proc[s] = r
    /\ \A r \in Record : rec[r] = "READY" <=> host[r] # "none"

\* The types of the restart flags.
FlagInv ==
    /\ stop_requested \in [Service -> BOOLEAN]
    /\ pending \in [Service -> BOOLEAN]
    /\ due \in [Service -> BOOLEAN]
    /\ count \in [Service -> 0 .. MaxRestarts + 1]
    /\ asked \in [Service -> {"no", "noted", "refused"}]

\* The types of what is left.
EnvInv ==
    /\ strays \in 0 .. MaxStrays
    /\ policy \in [Service -> Policies]
    /\ sup \in BOOLEAN /\ expired \in BOOLEAN /\ shutdown \in BOOLEAN

\* No service is registered twice, and one that is not registered holds nothing.
RegistryInv ==
    /\ registry \in Seq(Service)
    /\ \A i, j \in 1 .. Len(registry) : registry[i] = registry[j] => i = j
    /\ \A s \in Service : ~Registered(s) => proc[s] = NULL

\* The call in progress works on a start order of the registry as it is, and
\* its index is within the list it walks.
CallInv ==
    /\ order \in Seq(Service)
    /\ pc # "idle" => order \in StartOrders
    /\ \/ pc \in {"idle", "loop", "drain"} /\ idx = 0
       \/ pc = "start" /\ idx \in 1 .. Len(order) + 1
       \/ pc = "tick" /\ idx \in 1 .. Len(registry) + 1
       \/ pc = "stop" /\ idx \in 0 .. Len(order)
       \/ pc \in {"term", "kill"} /\ idx \in 1 .. Len(order)

\* stop_all leaves no process running behind it.
StopInv ==
    /\ pc \in {"stop", "term", "kill"} =>
         \A i \in 1 .. Len(order) : i > idx => ~Running(order[i])
    /\ pc = "kill" => ~Running(order[idx])

SupInv == LifeInv /\ FlagInv /\ EnvInv /\ RegistryInv /\ CallInv /\ StopInv

-----------------------------------------------------------------------------
(* What the operations of service_lifecycle.c do to the processes.         *)

\* Nothing happens to a process.
LEMMA SameLife ==
  ASSUME LifeInv, UNCHANGED <<lifevars, dropped>>
  PROVE  LifeInv'
BY DEF LifeInv, lifevars

\* service_start takes a free record, or changes nothing.
LEMMA StartLife ==
  ASSUME LifeInv, NEW s \in Service, Start(s), dropped' = dropped
  PROVE  /\ LifeInv'
         /\ \A t \in Service : t # s => proc'[t] = proc[t]
         /\ asked \in [Service -> {"no", "noted", "refused"}] => asked' \in [Service -> {"no", "noted", "refused"}]
<1>1. CASE StartFails(s)
  BY <1>1, SameLife DEF StartFails, lifevars
<1>2. ASSUME NEW r \in Record, StartOK(s, r)
      PROVE  /\ LifeInv'
             /\ \A t \in Service : t # s => proc'[t] = proc[t]
             /\ asked \in [Service -> {"no", "noted", "refused"}] => asked' \in [Service -> {"no", "noted", "refused"}]
  <2> USE DEF StartOK
  <2>1. r # NULL /\ r \notin dropped /\ \A t \in Service : proc[t] # r
    BY <1>2 DEF LifeInv
  <2>2. \A t \in Service : proc'[t] = IF t = s THEN r ELSE proc[t]
    BY <1>2 DEF LifeInv
  <2>3. \A t \in Service : sstate'[t] = IF t = s THEN "RUNNING" ELSE sstate[t]
    BY <1>2 DEF LifeInv
  <2>4. \A q \in Record : /\ rec'[q] = IF q = r THEN "READY" ELSE rec[q]
                          /\ host'[q] = IF q = r THEN "run" ELSE host[q]
    BY <1>2 DEF LifeInv
  <2>5. /\ sstate' \in [Service -> {"STOPPED", "RUNNING"}]
        /\ proc' \in [Service -> Record \cup {NULL}]
        /\ rec' \in [Record -> {"FREE", "READY", "TERMINATED"}]
        /\ exit' \in [Record -> {"clean", "failure", NULL}]
        /\ host' \in [Record -> {"none", "run", "clean", "failure"}]
        /\ dropped' \in SUBSET Record
    BY <1>2 DEF LifeInv
  <2>6. failed' \in [Service -> BOOLEAN] /\ queued' \in 0 .. QueueCapacity
    BY <1>2 DEF LifeInv
  <2>7. \A t \in Service : sstate'[t] = "RUNNING" <=> proc'[t] # NULL
    BY <2>1, <2>2, <2>3 DEF LifeInv
  <2>8. \A t, u \in Service : proc'[t] = proc'[u] /\ proc'[t] # NULL => t = u
    BY <2>1, <2>2 DEF LifeInv
  <2>9. \A t \in Service : proc'[t] \notin dropped'
    BY <2>1, <2>2 DEF LifeInv
  <2>10. \A q \in Record : /\ rec'[q] # "FREE" <=> q \in dropped' \/ \E t \in Service : proc'[t] = q
                           /\ rec'[q] = "READY" <=> host'[q] # "none"
    <3> TAKE q \in Record
    <3>1. CASE q = r
      BY <2>1, <2>2, <2>4, <3>1
    <3>2. CASE q # r
      <4>1. (\E t \in Service : proc'[t] = q) <=> \E t \in Service : proc[t] = q
        BY <1>2, <2>2, <3>2 DEF LifeInv
      <4> QED BY <2>4, <3>2, <4>1 DEF LifeInv
    <3> QED BY <3>1, <3>2
  <2>11. asked \in [Service -> {"no", "noted", "refused"}] => asked' \in [Service -> {"no", "noted", "refused"}]
    BY <1>2
  <2>12. LifeInv'
    BY <2>5, <2>6, <2>7, <2>8, <2>9, <2>10 DEF LifeInv
  <2> QED BY <2>2, <2>11, <2>12
<1> QED BY <1>1, <1>2 DEF Start

\* A signal or an exit turns running processes into zombies, at most.
LEMMA SignalLife ==
  ASSUME LifeInv, UNCHANGED <<sstate, proc, failed, rec, exit, queued, dropped>>,
         NEW r \in Record, NEW how \in {"clean", "failure"},
         \/ host' = [host EXCEPT ![r] = IF @ = "run" THEN how ELSE @]
         \/ host' = host
  PROVE  LifeInv' /\ \A q \in Record : host'[q] = "run" => host[q] = "run"
<1>1. \A q \in Record : /\ host'[q] = "run" => host[q] = "run"
                        /\ host'[q] = "none" <=> host[q] = "none"
  BY DEF LifeInv
<1>2. host' \in [Record -> {"none", "run", "clean", "failure"}]
  BY DEF LifeInv
<1> QED BY <1>1, <1>2 DEF LifeInv

\* service_reap frees the record of a TERMINATED process.
LEMMA ReapLife ==
  ASSUME LifeInv, NEW s \in Service, Reap(s), dropped' = dropped, failed' \in [Service -> BOOLEAN]
  PROVE  /\ LifeInv' /\ host' = host
         /\ \A t \in Service : proc'[t] = IF t = s THEN NULL ELSE proc[t]
<1> USE DEF Reap, Reapable
<1>1. proc[s] \in Record /\ proc[s] # NULL /\ host[proc[s]] = "none" /\ proc[s] \notin dropped
  BY DEF LifeInv
<1>2. \A t \in Service : /\ proc'[t] = IF t = s THEN NULL ELSE proc[t]
                         /\ sstate'[t] = IF t = s THEN "STOPPED" ELSE sstate[t]
  BY DEF LifeInv
<1>3. \A q \in Record : rec'[q] = IF q = proc[s] THEN "FREE" ELSE rec[q]
  BY DEF LifeInv
<1>4. /\ sstate' \in [Service -> {"STOPPED", "RUNNING"}]
      /\ proc' \in [Service -> Record \cup {NULL}]
      /\ rec' \in [Record -> {"FREE", "READY", "TERMINATED"}]
      /\ exit' \in [Record -> {"clean", "failure", NULL}]
      /\ host' \in [Record -> {"none", "run", "clean", "failure"}]
      /\ queued' \in 0 .. QueueCapacity
      /\ dropped' \in SUBSET Record
  BY DEF LifeInv
<1>5. \A t \in Service : (sstate'[t] = "RUNNING" <=> proc'[t] # NULL) /\ proc'[t] \notin dropped
  BY <1>2 DEF LifeInv
<1>6. \A t, u \in Service : proc'[t] = proc'[u] /\ proc'[t] # NULL => t = u
  BY <1>2 DEF LifeInv
<1>7. \A q \in Record : /\ rec'[q] # "FREE" <=> q \in dropped' \/ \E t \in Service : proc'[t] = q
                        /\ rec'[q] = "READY" <=> host'[q] # "none"
  <2> TAKE q \in Record
  <2>1. CASE q = proc[s]
    <3>1. \A t \in Service : proc'[t] # q
      BY <1>1, <1>2, <2>1 DEF LifeInv
    <3> QED BY <1>1, <1>3, <2>1, <3>1
  <2>2. CASE q # proc[s]
    <3>1. (\E t \in Service : proc'[t] = q) <=> \E t \in Service : proc[t] = q
      BY <1>2, <2>2
    <3> QED BY <1>3, <2>2, <3>1 DEF LifeInv
  <2> QED BY <2>1, <2>2
<1>8. LifeInv'
  BY <1>4, <1>5, <1>6, <1>7 DEF LifeInv
<1> QED BY <1>2, <1>8

\* service_registry_drain_one_event turns a zombie into a TERMINATED record.
LEMMA DrainLife ==
  ASSUME LifeInv, Drain, UNCHANGED <<sstate, proc, failed, queued, dropped>>,
         strays \in 0 .. MaxStrays
  PROVE  /\ LifeInv' /\ strays' \in 0 .. MaxStrays
         /\ \A q \in Record : host'[q] = "run" => host[q] = "run"
<1>1. CASE DrainIgnored
  BY <1>1 DEF DrainIgnored, LifeInv
<1>2. ASSUME NEW r \in Record, DrainExit(r)
      PROVE  LifeInv' /\ \A q \in Record : host'[q] = "run" => host[q] = "run"
  <2>1. \A q \in Record : /\ host'[q] = IF q = r THEN "none" ELSE host[q]
                          /\ rec'[q] = IF q = r THEN "TERMINATED" ELSE rec[q]
    BY <1>2 DEF DrainExit, LifeInv
  <2>2. /\ rec' \in [Record -> {"FREE", "READY", "TERMINATED"}]
        /\ exit' \in [Record -> {"clean", "failure", NULL}]
        /\ host' \in [Record -> {"none", "run", "clean", "failure"}]
    BY <1>2 DEF DrainExit, LifeInv
  <2>3. rec[r] = "READY"
    BY <1>2 DEF DrainExit, LifeInv
  <2>4. \A q \in Record : /\ rec'[q] # "FREE" <=> rec[q] # "FREE"
                          /\ rec'[q] = "READY" <=> host'[q] # "none"
    BY <2>1, <2>3 DEF LifeInv
  <2> QED BY <2>1, <2>2, <2>4 DEF LifeInv
<1> QED BY <1>1, <1>2 DEF Drain, DrainExit

\* service_registry_unregister leaves the process to no service.
LEMMA ForgetLife ==
  ASSUME LifeInv, NEW s \in Service, Forgotten(s), UNCHANGED <<rec, exit, host, queued>>,
         dropped' = dropped \cup ({proc[s]} \ {NULL})
  PROVE  /\ LifeInv'
         /\ \A t \in Service : proc'[t] = IF t = s THEN NULL ELSE proc[t]
<1>1. \A t \in Service : /\ proc'[t] = IF t = s THEN NULL ELSE proc[t]
                         /\ sstate'[t] = IF t = s THEN "STOPPED" ELSE sstate[t]
  BY DEF LifeInv, Forgotten
<1>2. proc[s] \in Record \cup {NULL} /\ NULL \notin dropped'
  BY DEF LifeInv
<1>3. /\ sstate' \in [Service -> {"STOPPED", "RUNNING"}]
      /\ proc' \in [Service -> Record \cup {NULL}]
      /\ failed' \in [Service -> BOOLEAN]
      /\ dropped' \in SUBSET Record
  BY <1>2 DEF LifeInv, Forgotten
<1>4. \A t \in Service : (sstate'[t] = "RUNNING" <=> proc'[t] # NULL) /\ proc'[t] \notin dropped'
  BY <1>1, <1>2 DEF LifeInv
<1>5. \A t, u \in Service : proc'[t] = proc'[u] /\ proc'[t] # NULL => t = u
  BY <1>1 DEF LifeInv
<1>6. \A q \in Record : (q \in dropped' \/ \E t \in Service : proc'[t] = q)
                          <=> (q \in dropped \/ \E t \in Service : proc[t] = q)
  BY <1>1
<1>7. LifeInv'
  BY <1>3, <1>4, <1>5, <1>6 DEF LifeInv
<1> QED BY <1>1, <1>7

\* service_tick starts, reaps or leaves the process of one service.
LEMMA TickLife ==
  ASSUME LifeInv, FlagInv, NEW s \in Service, Tick(s), dropped' = dropped
  PROVE  /\ LifeInv' /\ FlagInv'
         /\ \A t \in Service : t # s => proc'[t] = proc[t]
<1>1. CASE TickPending(s)
  <2>1. CASE UNCHANGED <<lifevars, restartvars, asked>>
    BY <1>1, <2>1, SameLife DEF TickPending, FlagInv, restartvars, lifevars
  <2>2. CASE Start(s) /\ count' = count /\ due' = [due EXCEPT ![s] = FALSE]
             /\ pending' = [pending EXCEPT ![s] = FALSE]
    BY <1>1, <2>2, StartLife DEF TickPending, FlagInv
  <2> QED BY <1>1, <2>1, <2>2 DEF TickPending
<1>2. CASE TickNothing(s)
  BY <1>2, SameLife DEF TickNothing, FlagInv, restartvars, lifevars
<1>3. CASE TickNoRestart(s)
  <2>1. failed' \in [Service -> BOOLEAN]
    BY <1>3 DEF TickNoRestart, LifeInv
  <2>2. FlagInv'
    BY <1>3 DEF TickNoRestart, FlagInv, restartvars
  <2> QED BY <1>3, <2>1, <2>2, ReapLife DEF TickNoRestart
<1>4. CASE TickRestart(s)
  <2>1. PICK stable \in BOOLEAN :
               /\ count' = [count EXCEPT ![s] = NewCount(s, stable)]
               /\ failed' = [failed EXCEPT ![s] =
                               IF NewCount(s, stable) > MaxRestarts THEN TRUE ELSE @]
               /\ pending' = [pending EXCEPT ![s] = NewCount(s, stable) <= MaxRestarts]
    BY <1>4 DEF TickRestart
  <2>2. NewCount(s, stable) \in 0 .. MaxRestarts + 1
    BY DEF NewCount, FlagInv
  <2>3. failed' \in [Service -> BOOLEAN]
    BY <2>1 DEF LifeInv
  <2>4. pending' \in [Service -> BOOLEAN] /\ count' \in [Service -> 0 .. MaxRestarts + 1]
    BY <2>1, <2>2 DEF FlagInv
  <2>5. due' \in [Service -> BOOLEAN]
    BY <1>4 DEF TickRestart, FlagInv
  <2>6. FlagInv'
    BY <1>4, <2>4, <2>5 DEF TickRestart, FlagInv
  <2> QED BY <1>4, <2>3, <2>6, ReapLife DEF TickRestart
<1> QED BY <1>1, <1>2, <1>3, <1>4 DEF Tick

-----------------------------------------------------------------------------
(* The registry and the start order.                                       *)

\* No more services are registered than there are.
LEMMA RegistryBounded ==
  ASSUME RegistryInv
  PROVE  Len(registry) \in Nat /\ Len(registry) <= Len(Registry)
<1> DEFINE m == Len(registry)
           n == Len(Registry)
<1>1. /\ m \in Nat /\ registry \in [1 .. m -> Service]
      /\ n \in Nat /\ Registry \in [1 .. n -> Service]
  BY ServicesAssumption DEF RegistryInv
<1>2. registry \in Injection(1 .. m, Service)
  BY <1>1 DEF RegistryInv, Injection, IsInjective
<1>3. Registry \in Surjection(1 .. n, Service)
  BY <1>1, ServicesAssumption DEF Surjection
<1> HIDE DEF m, n
<1>4. IsFiniteSet(1 .. n) /\ Cardinality(1 .. n) = n
      /\ IsFiniteSet(1 .. m) /\ Cardinality(1 .. m) = m
  BY <1>1, FS_Interval
<1>5. IsFiniteSet(Service) /\ Cardinality(Service) <= n
  BY <1>3, <1>4, FS_Surjection
<1>6. m <= Cardinality(Service)
  BY <1>2, <1>4, <1>5, FS_Injection
<1>7. Cardinality(Service) \in Nat
  BY <1>5, FS_CardinalityType
<1> QED BY <1>1, <1>5, <1>6, <1>7 DEF m, n

\* A start order lists each registered service once, and nothing else.
LEMMA OrderExact ==
  ASSUME RegistryInv, NEW o \in StartOrders
  PROVE  /\ o \in Seq(Service) /\ Len(o) = Len(registry) /\ Len(o) \in Nat
         /\ \A i \in 1 .. Len(o) : o[i] \in Service /\ Registered(o[i])
         /\ \A s \in Service : Registered(s) => \E i \in 1 .. Len(o) : o[i] = s
         /\ \A i \in 1 .. Len(o) : \A d \in Deps[o[i]] : \E j \in 1 .. i - 1 : o[j] = d
         /\ \A i, j \in 1 .. Len(o) : o[i] = o[j] => i = j
<1> DEFINE n == Len(registry)
           R == {s \in Service : Registered(s)}
<1>1. n \in Nat /\ registry \in [1 .. n -> Service]
  BY DEF RegistryInv
<1>2. o \in [1 .. n -> Service] /\ DOMAIN o = 1 .. n
  BY DEF StartOrders
<1>3. o \in Seq(Service) /\ Len(o) = n
  <2> HIDE DEF n
  <2> QED BY <1>1, <1>2
<1>4. /\ \A s \in Service : Registered(s) => \E i \in 1 .. n : o[i] = s
      /\ \A i \in 1 .. n : /\ Registered(o[i])
                           /\ \A d \in Deps[o[i]] : \E j \in 1 .. i - 1 : o[j] = d
  BY <1>2 DEF StartOrders
<1>5. registry \in [1 .. n -> R] /\ \A s \in R : \E i \in 1 .. n : registry[i] = s
  BY <1>1 DEF Registered
<1>6. registry \in Injection(1 .. n, R) /\ registry \in Surjection(1 .. n, R)
  BY <1>5 DEF RegistryInv, Injection, IsInjective, Surjection
<1>7. o \in Surjection(1 .. n, R)
  BY <1>2, <1>4 DEF Surjection
<1> HIDE DEF n, R
<1>8. IsFiniteSet(1 .. n)
  BY <1>1, FS_Interval
<1>9. Cardinality(R) = Cardinality(1 .. n)
  BY <1>6, <1>8, FS_Surjection
<1>10. o \in Injection(1 .. n, R)
  BY <1>7, <1>8, <1>9, FS_Surjection
<1>11. \A i, j \in 1 .. n : o[i] = o[j] => i = j
  BY <1>10 DEF Injection, IsInjective
<1> QED BY <1>1, <1>2, <1>3, <1>4, <1>11

\* The registry without one service.
LEMMA RemovedExact ==
  ASSUME RegistryInv, NEW s \in Service, Registered(s), registry' = Removed(registry, s)
  PROVE  /\ registry' \in Seq(Service)
         /\ \A i, j \in 1 .. Len(registry') : registry'[i] = registry'[j] => i = j
         /\ \A t \in Service : t # s /\ Registered(t) => Registered(t)'
<1> DEFINE n == Len(registry)
<1>1. n \in Nat /\ \A i \in 1 .. n : registry[i] \in Service
  BY DEF RegistryInv
<1>2. PICK k \in 1 .. n : registry[k] = s
  BY DEF Registered
<1>3. registry' = [i \in 1 .. n - 1 |-> IF registry[i] = s THEN registry[n] ELSE registry[i]]
  BY DEF Removed
<1>4. n - 1 \in Nat /\ registry' \in [1 .. n - 1 -> Service]
  BY <1>1, <1>2, <1>3
<1>5. registry' \in Seq(Service) /\ Len(registry') = n - 1
  <2> HIDE DEF n
  <2> QED BY <1>4
<1>6. \A i, j \in 1 .. n - 1 : registry'[i] = registry'[j] => i = j
  BY <1>1, <1>2, <1>3 DEF RegistryInv
<1>7. ASSUME NEW t \in Service, t # s, Registered(t)
      PROVE  \E i \in 1 .. n - 1 : registry'[i] = t
  <2>1. PICK i \in 1 .. n : registry[i] = t
    BY <1>7 DEF Registered
  <2>2. CASE i = n
    <3>1. k \in 1 .. n - 1 /\ registry'[k] = t
      BY <1>1, <1>2, <1>3, <1>7, <2>1, <2>2
    <3> QED BY <3>1
  <2>3. CASE i # n
    <3>1. i \in 1 .. n - 1 /\ registry'[i] = t
      BY <1>1, <1>3, <1>7, <2>1, <2>3
    <3> QED BY <3>1
  <2> QED BY <2>2, <2>3
<1> QED BY <1>5, <1>6, <1>7 DEF Registered

\* The registry with one service more.
LEMMA AppendedExact ==
  ASSUME RegistryInv, NEW s \in Service, ~Registered(s), registry' = Append(registry, s)
  PROVE  /\ registry' \in Seq(Service)
         /\ \A i, j \in 1 .. Len(registry') : registry'[i] = registry'[j] => i = j
         /\ \A t \in Service : Registered(t) => Registered(t)'
<1>1. registry \in Seq(Service) /\ Len(registry) \in Nat
  BY DEF RegistryInv
<1>2. /\ registry' \in Seq(Service) /\ Len(registry') = Len(registry) + 1
      /\ \A i \in 1 .. Len(registry) : registry'[i] = registry[i] /\ registry[i] # s
      /\ registry'[Len(registry) + 1] = s
  BY <1>1, AppendProperties DEF Registered
<1> QED BY <1>1, <1>2 DEF RegistryInv, Registered

-----------------------------------------------------------------------------
(* What a step may leave to the next.                                      *)

\* The registry is sound as long as only registered services get a process.
LEMMA SameRegistry ==
  ASSUME RegistryInv, registry' = registry,
         \A t \in Service : ~Registered(t) => proc'[t] = proc[t]
  PROVE  RegistryInv'
BY DEF RegistryInv, Registered

\* A call that has not moved still has its start order and its index.
LEMMA SameCall ==
  ASSUME CallInv, UNCHANGED <<pc, idx, order, registry>>
  PROVE  CallInv'
BY DEF CallInv, StartOrders, Registered

\* No process comes to run unless service_start starts it.
LEMMA NoneStarts ==
  ASSUME LifeInv,
         \A t \in Service : proc'[t] = proc[t] \/ proc'[t] = NULL,
         \A q \in Record : host'[q] = "run" => host[q] = "run"
  PROVE  \A t \in Service : Running(t)' => Running(t)
BY DEF LifeInv, Running

\* What stop_all has left behind stays stopped if nothing is started.
LEMMA SameStop ==
  ASSUME CallInv, StopInv, UNCHANGED <<pc, idx, order>>,
         \A t \in Service : Running(t)' => Running(t)
  PROVE  StopInv'
<1>1. \A i \in 1 .. Len(order) : order[i] \in Service
  BY DEF CallInv
<1>2. pc = "kill" => order[idx] \in Service
  BY <1>1 DEF CallInv
<1> QED BY <1>1, <1>2 DEF StopInv, Running

\* A call on one registered service, or the draining of an event.
LEMMA ServiceCallKeeps ==
  ASSUME SupInv,
         \/ \E s \in Service : \/ ServiceStart(s) \/ ServiceStop(s) \/ ServiceStopRefused(s)
                               \/ ServiceKill(s) \/ ServiceReap(s) \/ ServiceTick(s)
         \/ DrainOneEvent
  PROVE  SupInv'
<1> USE DEF Idle
<1>1. /\ LifeInv /\ FlagInv /\ EnvInv /\ RegistryInv /\ CallInv /\ StopInv
  BY DEF SupInv
<1>2. pc = "idle" /\ UNCHANGED <<callvars, expired, shutdown, regvars>>
  BY DEF ServiceStart, ServiceStop, ServiceStopRefused, ServiceKill, ServiceReap, ServiceTick,
         DrainOneEvent
<1>3. UNCHANGED <<pc, idx, sup, order, registry, dropped, policy>>
  BY <1>2 DEF callvars, regvars
<1>4. CallInv'
  BY <1>1, <1>3, SameCall
<1>5. StopInv'
  BY <1>2, <1>3 DEF StopInv
<1>6. ASSUME NEW s \in Service, ServiceStart(s)
      PROVE  LifeInv' /\ FlagInv' /\ strays' = strays /\ RegistryInv'
  <2>1. Start(s) /\ Registered(s) /\ UNCHANGED <<stop_requested, restartvars, strays>>
    BY <1>6 DEF ServiceStart
  <2>2. LifeInv' /\ (\A t \in Service : t # s => proc'[t] = proc[t])
        /\ asked' \in [Service -> {"no", "noted", "refused"}]
    BY <1>1, <1>3, <2>1, StartLife DEF FlagInv
  <2>3. RegistryInv'
    BY <1>1, <1>3, <2>1, <2>2, SameRegistry
  <2> QED BY <1>1, <2>1, <2>2, <2>3 DEF FlagInv, restartvars
<1>7. ASSUME NEW s \in Service, ServiceStop(s) \/ ServiceKill(s)
      PROVE  LifeInv' /\ FlagInv' /\ strays' = strays /\ RegistryInv'
  <2>1. /\ UNCHANGED <<sstate, proc, failed, rec, exit, queued, restartvars, strays>>
        /\ proc[s] \in Record
    BY <1>1, <1>7 DEF ServiceStop, ServiceKill, StopOK, StopLate, KillOK, LifeInv
  <2>2. \/ host' = [host EXCEPT ![proc[s]] = IF @ = "run" THEN "failure" ELSE @]
        \/ host' = host
    BY <1>7 DEF ServiceStop, ServiceKill, StopOK, StopLate, KillOK, Term
  <2>3. LifeInv'
    BY <1>1, <1>3, <2>1, <2>2, SignalLife
  <2>4. FlagInv'
    BY <1>1, <1>7, <2>1 DEF ServiceStop, ServiceKill, StopOK, StopLate, FlagInv, restartvars
  <2> QED BY <1>1, <1>3, <2>1, <2>3, <2>4, SameRegistry
<1>8. ASSUME NEW s \in Service, ServiceStopRefused(s)
      PROVE  LifeInv' /\ FlagInv' /\ strays' = strays /\ RegistryInv'
  <2>1. LifeInv'
    BY <1>1, <1>3, <1>8, SameLife DEF ServiceStopRefused
  <2>2. FlagInv'
    BY <1>1, <1>8 DEF ServiceStopRefused, FlagInv, restartvars
  <2> QED BY <1>1, <1>3, <1>8, <2>1, <2>2, SameRegistry DEF ServiceStopRefused, lifevars
<1>9. ASSUME NEW s \in Service, ServiceReap(s)
      PROVE  LifeInv' /\ FlagInv' /\ strays' = strays /\ RegistryInv'
  <2>1. /\ Reap(s) /\ Registered(s) /\ failed' \in [Service -> BOOLEAN]
        /\ UNCHANGED <<stop_requested, restartvars, strays, asked>>
    BY <1>1, <1>9 DEF ServiceReap, LifeInv
  <2>2. LifeInv' /\ \A t \in Service : proc'[t] = IF t = s THEN NULL ELSE proc[t]
    BY <1>1, <1>3, <2>1, ReapLife
  <2> QED BY <1>1, <1>3, <2>1, <2>2, SameRegistry DEF FlagInv, restartvars
<1>10. ASSUME NEW s \in Service, ServiceTick(s)
       PROVE  LifeInv' /\ FlagInv' /\ strays' = strays /\ RegistryInv'
  <2>1. Tick(s) /\ Registered(s) /\ strays' = strays
    BY <1>10 DEF ServiceTick
  <2>2. LifeInv' /\ FlagInv' /\ \A t \in Service : t # s => proc'[t] = proc[t]
    BY <1>1, <1>3, <2>1, TickLife
  <2> QED BY <1>1, <1>3, <2>1, <2>2, SameRegistry
<1>11. ASSUME DrainOneEvent
       PROVE  LifeInv' /\ FlagInv' /\ strays' \in 0 .. MaxStrays /\ RegistryInv'
  <2>1. Drain /\ UNCHANGED <<sstate, proc, failed, queued, stop_requested, restartvars, asked>>
    BY <1>11 DEF DrainOneEvent
  <2>2. LifeInv' /\ strays' \in 0 .. MaxStrays
    BY <1>1, <1>3, <2>1, DrainLife DEF EnvInv
  <2> QED BY <1>1, <1>3, <2>1, <2>2, SameRegistry DEF FlagInv, restartvars
<1>12. LifeInv' /\ FlagInv' /\ strays' \in 0 .. MaxStrays /\ RegistryInv'
  BY <1>1, <1>6, <1>7, <1>8, <1>9, <1>10, <1>11 DEF EnvInv
<1>13. EnvInv'
  BY <1>1, <1>2, <1>3, <1>12 DEF EnvInv
<1> QED BY <1>4, <1>5, <1>12, <1>13 DEF SupInv

\* service_registry_unregister and service_registry_register.
LEMMA RegistrationKeeps ==
  ASSUME SupInv, NEW s \in Service, ServiceUnregister(s) \/ ServiceRegister(s)
  PROVE  SupInv'
<1> USE DEF Idle
<1>1. /\ LifeInv /\ FlagInv /\ EnvInv /\ RegistryInv /\ CallInv /\ StopInv
  BY DEF SupInv
<1>2. pc = "idle" /\ UNCHANGED <<pc, idx, sup, order, expired, shutdown, policy, strays>>
  BY DEF ServiceUnregister, ServiceRegister, callvars
<1>3. CallInv' /\ StopInv' /\ EnvInv'
  BY <1>1, <1>2 DEF CallInv, StopInv, EnvInv
<1>4. CASE ServiceUnregister(s)
  <2>1. /\ registry' = Removed(registry, s) /\ Registered(s) /\ Forgotten(s)
        /\ dropped' = dropped \cup ({proc[s]} \ {NULL})
        /\ UNCHANGED <<rec, exit, host, queued>>
    BY <1>4 DEF ServiceUnregister
  <2>2. LifeInv' /\ \A t \in Service : proc'[t] = IF t = s THEN NULL ELSE proc[t]
    BY <1>1, <2>1, ForgetLife
  <2>3. FlagInv'
    BY <1>1, <2>1 DEF Forgotten, FlagInv
  <2>4. /\ registry' \in Seq(Service)
        /\ \A i, j \in 1 .. Len(registry') : registry'[i] = registry'[j] => i = j
        /\ \A t \in Service : t # s /\ Registered(t) => Registered(t)'
    BY <1>1, <2>1, RemovedExact
  <2>5. RegistryInv'
    BY <1>1, <2>2, <2>4 DEF RegistryInv
  <2> QED BY <1>3, <2>2, <2>3, <2>5 DEF SupInv
<1>5. CASE ServiceRegister(s)
  <2>1. /\ registry' = Append(registry, s) /\ ~Registered(s)
        /\ UNCHANGED <<lifevars, stop_requested, restartvars, dropped, asked>>
    BY <1>5 DEF ServiceRegister
  <2>2. LifeInv'
    BY <1>1, <2>1, SameLife
  <2>3. FlagInv'
    BY <1>1, <2>1 DEF FlagInv, restartvars
  <2>4. /\ registry' \in Seq(Service)
        /\ \A i, j \in 1 .. Len(registry') : registry'[i] = registry'[j] => i = j
        /\ \A t \in Service : Registered(t) => Registered(t)'
    BY <1>1, <2>1, AppendedExact
  <2>5. RegistryInv'
    BY <1>1, <2>1, <2>4 DEF RegistryInv, lifevars
  <2> QED BY <1>3, <2>2, <2>3, <2>5 DEF SupInv
<1> QED BY <1>4, <1>5

\* The steps that only move the call in progress, or the clock.
LEMMA ControlKeeps ==
  ASSUME SupInv,
         \/ Begin \/ StartDone \/ LoopHead \/ LoopDrained \/ LoopTicked \/ KillExpired \/ StopDone
         \/ (\E S \in SUBSET Service : BackoffElapses(S)) \/ DeadlinePasses
         \/ RequestShutdown \/ ClearShutdown \/ UNCHANGED vars
  PROVE  SupInv'
<1> USE DEF Idle
<1>1. /\ LifeInv /\ FlagInv /\ EnvInv /\ RegistryInv /\ CallInv /\ StopInv
  BY DEF SupInv
<1>2. UNCHANGED <<lifevars, stop_requested, pending, count, asked, regvars, strays>>
  BY DEF Begin, StartDone, LoopHead, LoopDrained, LoopTicked, KillExpired, StopDone,
         BackoffElapses, DeadlinePasses, RequestShutdown, ClearShutdown, vars, restartvars, lifevars, regvars
<1>3. UNCHANGED <<proc, host, registry, dropped, policy>>
  BY <1>2 DEF lifevars, regvars
<1>4. LifeInv'
  BY <1>1, <1>2, <1>3, SameLife
<1>5. due' \in [Service -> BOOLEAN]
  BY <1>1 DEF Begin, StartDone, LoopHead, LoopDrained, LoopTicked, KillExpired, StopDone,
         BackoffElapses, DeadlinePasses, RequestShutdown, ClearShutdown, vars, restartvars, FlagInv
<1>6. FlagInv'
  BY <1>1, <1>2, <1>5 DEF FlagInv
<1>7. sup' \in BOOLEAN /\ expired' \in BOOLEAN /\ shutdown' \in BOOLEAN
  BY <1>1 DEF Begin, StartDone, LoopHead, LoopDrained, LoopTicked, KillExpired, StopDone,
         BackoffElapses, DeadlinePasses, RequestShutdown, ClearShutdown, vars, callvars, EnvInv
<1>8. EnvInv'
  BY <1>1, <1>2, <1>3, <1>7 DEF EnvInv
<1>9. RegistryInv'
  BY <1>1, <1>3, SameRegistry
<1>10. StartOrders' = StartOrders /\ Len(registry) \in Nat
  BY <1>1, <1>3 DEF StartOrders, Registered, RegistryInv
<1>11. \A t \in Service : Running(t)' <=> Running(t)
  BY <1>3 DEF Running
<1>12. pc # "idle" => Len(order) = Len(registry) /\ \A i \in 1 .. Len(order) : order[i] \in Service
  BY <1>1, OrderExact DEF CallInv
<1>13. CallInv' /\ StopInv'
  <2>1. CASE Begin
    <3>1. order' \in StartOrders /\ order' \in Seq(Service) /\ Len(order') = Len(registry)
      BY <1>1, <2>1, OrderExact DEF Begin
    <3> QED BY <1>3, <1>10, <2>1, <3>1 DEF Begin, CallInv, StopInv
  <2>2. CASE StartDone
    BY <1>1, <1>10, <2>2 DEF StartDone, CallInv, StopInv
  <2>3. CASE LoopHead
    BY <1>1, <1>10, <1>12, <2>3 DEF LoopHead, CallInv, StopInv
  <2>4. CASE LoopDrained
    BY <1>1, <1>3, <1>10, <2>4 DEF LoopDrained, CallInv, StopInv
  <2>5. CASE LoopTicked
    BY <1>1, <1>10, <2>5 DEF LoopTicked, CallInv, StopInv
  <2>6. CASE StopDone
    BY <1>1, <1>10, <2>6 DEF StopDone, CallInv, StopInv
  <2>7. CASE KillExpired
    <3>1. /\ pc = "kill" /\ pc' = "stop" /\ idx' = idx - 1 /\ order' = order
          /\ idx \in 1 .. Len(order) /\ Len(order) \in Nat
      BY <1>1, <2>7 DEF KillExpired, GoOn, CallInv
    <3>2. CallInv'
      BY <1>1, <1>10, <3>1 DEF CallInv
    <3>3. \A i \in 1 .. Len(order) : i > idx - 1 => ~Running(order[i])
      BY <1>1, <3>1 DEF StopInv
    <3>4. StopInv'
      BY <1>11, <1>12, <3>1, <3>3 DEF StopInv
    <3> QED BY <3>2, <3>4
  <2>8. CASE UNCHANGED <<pc, idx, order>>
    BY <1>1, <1>3, <1>11, <2>8, SameCall, SameStop
  <2> QED BY <2>1, <2>2, <2>3, <2>4, <2>5, <2>6, <2>7, <2>8
         DEF BackoffElapses, DeadlinePasses, RequestShutdown, ClearShutdown, vars, callvars
<1> QED BY <1>4, <1>6, <1>8, <1>9, <1>13 DEF SupInv

\* start_all and the loop of supervise at work.
LEMMA LoopKeeps ==
  ASSUME SupInv, StartNext \/ LoopTick \/ LoopDrain \/ WaitDrain
  PROVE  SupInv'
<1>1. /\ LifeInv /\ FlagInv /\ EnvInv /\ RegistryInv /\ CallInv /\ StopInv
  BY DEF SupInv
<1>2. UNCHANGED <<pc, sup, order, expired, shutdown, registry, dropped, policy>>
  BY DEF StartNext, LoopTick, LoopDrain, WaitDrain, callvars, regvars
<1>3. StartOrders' = StartOrders /\ Len(registry) \in Nat
  BY <1>1, <1>2 DEF StartOrders, Registered, RegistryInv
<1>4. CASE StartNext
  <2> DEFINE s == order[idx]
  <2>1. pc = "start" /\ idx \in 1 .. Len(order) /\ Len(order) \in Nat /\ order \in StartOrders
    BY <1>1, <1>4 DEF StartNext, CallInv
  <2>2. s \in Service /\ Registered(s)
    BY <1>1, <2>1, OrderExact
  <2>3. /\ Start(s) \/ UNCHANGED <<lifevars, asked>>
        /\ idx' = idx + 1 /\ UNCHANGED <<stop_requested, restartvars, strays>>
    BY <1>4 DEF StartNext
  <2> HIDE DEF s
  <2>4. /\ LifeInv' /\ asked' \in [Service -> {"no", "noted", "refused"}]
        /\ \A t \in Service : t # s => proc'[t] = proc[t]
    <3>1. CASE Start(s)
      BY <1>1, <1>2, <2>2, <3>1, StartLife DEF FlagInv
    <3>2. CASE UNCHANGED <<lifevars, asked>>
      BY <1>1, <1>2, <3>2, SameLife DEF FlagInv, lifevars
    <3> QED BY <2>3, <3>1, <3>2
  <2>5. RegistryInv'
    BY <1>1, <1>2, <2>2, <2>4, SameRegistry
  <2>6. FlagInv' /\ EnvInv'
    BY <1>1, <1>2, <2>3, <2>4 DEF FlagInv, EnvInv, restartvars
  <2>7. CallInv' /\ StopInv'
    BY <1>1, <1>2, <1>3, <2>1, <2>3 DEF CallInv, StopInv
  <2> QED BY <2>4, <2>5, <2>6, <2>7 DEF SupInv
<1>5. CASE LoopTick
  <2> DEFINE s == registry[idx]
  <2>1. pc = "tick" /\ idx \in 1 .. Len(registry)
    BY <1>1, <1>3, <1>5 DEF LoopTick, CallInv
  <2>2. s \in Service /\ Registered(s)
    BY <1>1, <2>1 DEF RegistryInv, Registered
  <2>3. Tick(s) /\ idx' = idx + 1 /\ strays' = strays
    BY <1>5 DEF LoopTick
  <2> HIDE DEF s
  <2>4. LifeInv' /\ FlagInv' /\ \A t \in Service : t # s => proc'[t] = proc[t]
    BY <1>1, <1>2, <2>2, <2>3, TickLife
  <2>5. RegistryInv'
    BY <1>1, <1>2, <2>2, <2>4, SameRegistry
  <2>6. EnvInv'
    BY <1>1, <1>2, <2>3 DEF EnvInv
  <2>7. CallInv' /\ StopInv'
    BY <1>1, <1>2, <1>3, <2>1, <2>3 DEF CallInv, StopInv
  <2> QED BY <2>4, <2>5, <2>6, <2>7 DEF SupInv
<1>6. CASE LoopDrain \/ WaitDrain
  <2>1. /\ Drain /\ idx' = idx
        /\ UNCHANGED <<sstate, proc, failed, queued, stop_requested, restartvars, asked>>
    BY <1>6 DEF LoopDrain, WaitDrain, callvars
  <2>2. /\ LifeInv' /\ strays' \in 0 .. MaxStrays
        /\ \A q \in Record : host'[q] = "run" => host[q] = "run"
    BY <1>1, <1>2, <2>1, DrainLife DEF EnvInv
  <2>3. RegistryInv'
    BY <1>1, <1>2, <2>1, SameRegistry
  <2>4. FlagInv' /\ EnvInv'
    BY <1>1, <1>2, <2>1, <2>2 DEF FlagInv, EnvInv, restartvars
  <2>5. \A t \in Service : Running(t)' => Running(t)
    BY <1>1, <2>1, <2>2, NoneStarts
  <2>6. CallInv' /\ StopInv'
    BY <1>1, <1>2, <2>1, <2>5, SameCall, SameStop
  <2> QED BY <2>2, <2>3, <2>4, <2>6 DEF SupInv
<1> QED BY <1>4, <1>5, <1>6

\* stop_all signals, reaps and kills; a host process ends.
LEMMA StopKeeps ==
  ASSUME SupInv,
         \/ StopSkip \/ StopSignal \/ WaitReap \/ TermExpired
         \/ \E r \in Record, how \in {"clean", "failure"} : HostExit(r, how)
  PROVE  SupInv'
<1>1. /\ LifeInv /\ FlagInv /\ EnvInv /\ RegistryInv /\ CallInv /\ StopInv
  BY DEF SupInv
<1>2. UNCHANGED <<order, sup, shutdown, registry, dropped, policy, strays, failed, restartvars>>
  BY DEF StopSkip, StopSignal, WaitReap, TermExpired, HostExit, callvars, regvars
<1>3. StartOrders' = StartOrders /\ Len(order) \in Nat
  BY <1>1, <1>2 DEF StartOrders, Registered, CallInv
<1>4. CASE \E r \in Record, how \in {"clean", "failure"} : HostExit(r, how)
  <2>1. PICK r \in Record, how \in {"clean", "failure"} : HostExit(r, how)
    BY <1>4
  <2>2. /\ host' = [host EXCEPT ![r] = IF @ = "run" THEN how ELSE @]
        /\ UNCHANGED <<sstate, proc, rec, exit, queued, pc, idx, stop_requested, asked, expired>>
    BY <2>1 DEF HostExit, callvars
  <2>3. LifeInv' /\ \A q \in Record : host'[q] = "run" => host[q] = "run"
    BY <1>1, <1>2, <2>2, SignalLife
  <2>4. \A t \in Service : Running(t)' => Running(t)
    BY <1>1, <2>2, <2>3, NoneStarts
  <2>5. CallInv' /\ StopInv'
    BY <1>1, <1>2, <2>2, <2>4, SameCall, SameStop
  <2>6. FlagInv' /\ EnvInv' /\ RegistryInv'
    BY <1>1, <1>2, <2>2, SameRegistry DEF FlagInv, EnvInv, restartvars
  <2> QED BY <2>3, <2>5, <2>6 DEF SupInv
<1>5. CASE StopSkip \/ StopSignal \/ WaitReap \/ TermExpired
  <2>1. /\ pc \in {"stop", "term", "kill"} /\ idx \in 1 .. Len(order) /\ order \in StartOrders
        /\ \A i \in 1 .. Len(order) : order[i] \in Service
    BY <1>1, <1>5 DEF StopSkip, StopSignal, WaitReap, TermExpired, Stopping, Waiting, CallInv
  <2>2. PICK s \in Service : s = order[idx] /\ Registered(s)
    BY <1>1, <2>1, OrderExact
  <2>3. expired' \in BOOLEAN
    BY <1>1, <1>5 DEF StopSkip, StopSignal, WaitReap, TermExpired, EnvInv
  <2>4. \/ UNCHANGED <<stop_requested, asked>>
        \/ /\ stop_requested' = [stop_requested EXCEPT ![s] = TRUE]
           /\ asked' = [asked EXCEPT ![s] = "noted"]
    BY <1>5, <2>2 DEF StopSkip, StopSignal, WaitReap, TermExpired, StopOK, StopLate
  <2>5. FlagInv' /\ EnvInv'
    BY <1>1, <1>2, <2>3, <2>4 DEF FlagInv, EnvInv, restartvars
  <2>6. /\ LifeInv'
        /\ \A q \in Record : host'[q] = "run" => host[q] = "run"
        /\ \A t \in Service : proc'[t] = proc[t] \/ (t = s /\ proc'[t] = NULL)
    <3>1. CASE WaitReap
      BY <1>1, <1>2, <2>2, <3>1, ReapLife DEF WaitReap, LifeInv
    <3>2. CASE StopSkip \/ StopSignal \/ TermExpired
      <4>1. UNCHANGED <<sstate, proc, rec, exit, queued>>
        BY <3>2 DEF StopSkip, StopSignal, TermExpired
      <4>2. CASE host' = host
        BY <1>1, <1>2, <4>1, <4>2 DEF LifeInv
      <4>3. CASE host' # host
        <5>1. /\ sstate[s] = "RUNNING"
              /\ host' = [host EXCEPT ![proc[s]] = IF @ = "run" THEN "failure" ELSE @]
          BY <2>2, <3>2, <4>3 DEF StopSkip, StopSignal, TermExpired, StopOK, StopLate, KillOK, Term
        <5>2. proc[s] \in Record
          BY <1>1, <2>2, <5>1 DEF LifeInv
        <5> QED BY <1>1, <1>2, <4>1, <5>1, <5>2, SignalLife
      <4> QED BY <4>2, <4>3
    <3> QED BY <1>5, <3>1, <3>2
  <2>7. RegistryInv'
    BY <1>1, <1>2, <2>2, <2>6, SameRegistry
  <2>8. \A t \in Service : Running(t)' => Running(t)
    BY <1>1, <2>6, NoneStarts
  <2>9. \/ pc' = "stop" /\ idx' = idx - 1
        \/ pc' \in {"term", "kill"} /\ idx' = idx
    BY <1>5 DEF StopSkip, StopSignal, WaitReap, TermExpired, GoOn
  <2>10. CallInv'
    BY <1>1, <1>2, <1>3, <2>1, <2>9 DEF CallInv
  <2>11. \A i \in 1 .. Len(order) : i > idx => ~Running(order[i])'
    BY <1>1, <1>2, <2>1, <2>8 DEF StopInv, Running
  <2>12. ASSUME pc' = "stop" \/ pc' = "kill" PROVE ~Running(s)'
    <3>1. CASE StopSkip
      <4>1. proc[s] # NULL => proc[s] \in Record /\ rec[proc[s]] = "TERMINATED"
        BY <1>1, <2>2, <3>1 DEF StopSkip, StopLate, LifeInv
      <4>2. proc' = proc /\ host' = host
        BY <3>1 DEF StopSkip, StopLate
      <4> QED BY <1>1, <4>1, <4>2 DEF LifeInv, Running
    <3>2. CASE StopSignal
      BY <2>12, <3>2 DEF StopSignal
    <3>3. CASE WaitReap
      BY <1>1, <2>2, <3>3 DEF WaitReap, Reap, LifeInv, Running
    <3>4. CASE TermExpired
      <4>1. CASE KillOK(s)
        <5>1. proc[s] \in Record /\ proc' = proc
          BY <1>1, <2>2, <3>4, <4>1 DEF TermExpired, KillOK, LifeInv
        <5> QED BY <1>1, <4>1, <5>1 DEF KillOK, LifeInv, Running
      <4>2. CASE Reapable(s) /\ host' = host
        <5>1. proc[s] \in Record /\ proc' = proc /\ rec[proc[s]] = "TERMINATED"
          BY <1>1, <2>2, <3>4, <4>2 DEF TermExpired, Reapable, LifeInv
        <5> QED BY <1>1, <4>2, <5>1 DEF LifeInv, Running
      <4> QED BY <2>2, <3>4, <4>1, <4>2 DEF TermExpired
    <3> QED BY <1>5, <3>1, <3>2, <3>3, <3>4
  <2>13. StopInv'
    <3>1. CASE pc' = "stop" /\ idx' = idx - 1
      <4>1. \A i \in 1 .. Len(order) : i > idx - 1 => ~Running(order[i])'
        BY <1>2, <2>1, <2>2, <2>11, <2>12, <3>1
      <4> QED BY <1>2, <3>1, <4>1 DEF StopInv, Running
    <3>2. CASE pc' \in {"term", "kill"} /\ idx' = idx
      BY <1>2, <2>2, <2>11, <2>12, <3>2 DEF StopInv, Running
    <3> QED BY <2>9, <3>1, <3>2
  <2> QED BY <2>5, <2>6, <2>7, <2>10, <2>13 DEF SupInv
<1> QED BY <1>4, <1>5

-----------------------------------------------------------------------------
(* The theorems.                                                           *)

\* The initial states satisfy the invariant.
LEMMA InitInv == Init => SupInv
<1> SUFFICES ASSUME Init PROVE SupInv
  OBVIOUS
<1>1. LifeInv /\ FlagInv
  BY DEF Init, LifeInv, FlagInv
<1>2. EnvInv
  BY ServicesAssumption DEF Init, EnvInv
<1>3. RegistryInv
  BY ServicesAssumption DEF Init, RegistryInv
<1>4. CallInv /\ StopInv
  BY DEF Init, CallInv, StopInv
<1> QED BY <1>1, <1>2, <1>3, <1>4 DEF SupInv

\* Every step keeps the invariant.
LEMMA StepInv == SupInv /\ [Next]_vars => SupInv'
<1> SUFFICES ASSUME SupInv, [Next]_vars PROVE SupInv'
  OBVIOUS
<1>1. CASE Client
  BY <1>1, ServiceCallKeeps, RegistrationKeeps, ControlKeeps DEF Client
<1>2. CASE Orchestrator
  BY <1>2, ControlKeeps, LoopKeeps, StopKeeps DEF Orchestrator
<1>3. CASE World
  BY <1>3, ControlKeeps, StopKeeps DEF World
<1>4. CASE UNCHANGED vars
  BY <1>4, ControlKeeps
<1> QED BY <1>1, <1>2, <1>3, <1>4 DEF Next

\* The inductive invariant holds in every reachable state.
THEOREM SupervisorCorrect == Spec => []SupInv
BY InitInv, StepInv, PTL DEF Spec

\* The invariant gives the types, the bound of the loop index among them.
LEMMA InvOneProcessEach == SupInv => OneProcessEach
<1> SUFFICES ASSUME SupInv PROVE OneProcessEach
  OBVIOUS
<1>1. /\ LifeInv /\ FlagInv /\ EnvInv /\ RegistryInv /\ CallInv
  BY DEF SupInv
<1>2. Len(registry) \in Nat /\ Len(registry) <= Len(Registry) /\ Len(Registry) \in Nat
  BY <1>1, RegistryBounded, ServicesAssumption
<1>3. pc # "idle" => Len(order) = Len(registry)
  BY <1>1, OrderExact DEF CallInv
<1>4. /\ idx \in 0 .. Len(Registry) + 1
      /\ pc \in {"idle", "start", "loop", "drain", "tick", "stop", "term", "kill"}
  BY <1>1, <1>2, <1>3 DEF CallInv
<1>5. TypeOK
  BY <1>1, <1>4 DEF TypeOK, LifeInv, FlagInv, EnvInv, RegistryInv, CallInv
<1> QED BY <1>1, <1>5 DEF OneProcessEach, LifeInv

\* No service of a start order is depended on by one that comes before it, and
\* a service that is not registered has no process.
LEMMA InvStopsDependentsFirst == SupInv => StopsDependentsFirst
<1> SUFFICES ASSUME SupInv, pc \in {"term", "kill"}, NEW d \in Service, order[idx] \in Deps[d]
             PROVE  ~Running(d)
  BY DEF StopsDependentsFirst
<1>1. /\ RegistryInv /\ order \in StartOrders /\ idx \in 1 .. Len(order)
  BY DEF SupInv, CallInv
<1>2. CASE ~Registered(d)
  BY <1>1, <1>2 DEF RegistryInv, Running
<1>3. CASE Registered(d)
  <2>1. PICK i \in 1 .. Len(order) : order[i] = d
    BY <1>1, <1>3, OrderExact
  <2>2. PICK j \in 1 .. i - 1 : order[j] = order[idx]
    <3>1. \A e \in Deps[order[i]] : \E j \in 1 .. i - 1 : order[j] = e
      BY <1>1, <2>1, OrderExact
    <3> QED BY <2>1, <3>1
  <2>3. Len(order) \in Nat /\ \A k, l \in 1 .. Len(order) : order[k] = order[l] => k = l
    BY <1>1, OrderExact
  <2>4. j = idx /\ i > idx
    BY <1>1, <2>1, <2>2, <2>3
  <2> QED BY <2>1, <2>4 DEF SupInv, StopInv
<1> QED BY <1>2, <1>3

\* Every service runs exactly one process, a process record that no service
\* owns is one whose service was unregistered while it ran, and a record that is
\* not TERMINATED has a host process whose end drain_one_event will see.
THEOREM ProcessesAccountedFor == Spec => []OneProcessEach
BY SupervisorCorrect, InvOneProcessEach, PTL

\* service_registry_stop_all signals a service only when no service that
\* depends on it has a running process.
THEOREM ShutdownOrder == Spec => []StopsDependentsFirst
BY SupervisorCorrect, InvStopsDependentsFirst, PTL

\* When service_registry_stop_all returns, no service's process is running.
THEOREM ShutdownComplete == Spec => StopAllLeavesNoneRunning
<1>1. SupInv /\ [Next]_vars =>
        [pc = "stop" /\ pc' = "idle" => \A s \in Service : ~Running(s)']_vars
  <2> SUFFICES ASSUME SupInv, Next, pc = "stop", pc' = "idle", NEW s \in Service
               PROVE  ~Running(s)'
    OBVIOUS
  <2>1. StopDone
    BY DEF Next, Client, Orchestrator, World, Idle, ServiceStart, ServiceStop,
           ServiceStopRefused, ServiceKill, ServiceReap, ServiceTick, ServiceUnregister,
           ServiceRegister, DrainOneEvent, Begin, StartNext, StartDone, LoopHead, LoopDrain,
           LoopDrained, LoopTick, LoopTicked, StopSkip, StopSignal, WaitReap, WaitDrain,
           TermExpired, KillExpired, GoOn, Waiting, HostExit, BackoffElapses, DeadlinePasses,
           RequestShutdown, ClearShutdown, callvars
  <2>2. idx = 0 /\ proc' = proc /\ host' = host
    BY <2>1 DEF StopDone, lifevars
  <2>3. RegistryInv /\ order \in StartOrders
    BY DEF SupInv, CallInv
  <2>4. ~Running(s)
    <3>1. CASE ~Registered(s)
      BY <2>3, <3>1 DEF RegistryInv, Running
    <3>2. CASE Registered(s)
      <4>1. PICK i \in 1 .. Len(order) : order[i] = s
        BY <2>3, <3>2, OrderExact
      <4>2. i > idx
        BY <2>2, <2>3, OrderExact
      <4> QED BY <4>1, <4>2 DEF SupInv, StopInv
    <3> QED BY <3>1, <3>2
  <2> QED BY <2>2, <2>4 DEF Running
<1> QED BY <1>1, SupervisorCorrect, PTL DEF Spec, StopAllLeavesNoneRunning
=============================================================================
