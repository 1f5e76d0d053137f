-------------------------- MODULE ServiceRegistry ---------------------------
(***************************************************************************)
(* service_registry.c, service_add_dependency of service.c and the depth   *)
(* first search of service_orchestrator.c that turns the registered        *)
(* services and the names they depend on into a start order.               *)
(*                                                                         *)
(* A service is its name.  A dependency is a name too: it may be registered *)
(* later, or never.                                                        *)
(***************************************************************************)
EXTENDS Naturals, Sequences, SequencesExt

CONSTANTS Name,             \* the names of services
          Capacity,         \* SERVICE_REGISTRY_INITIAL_CAPACITY
          MaxDependencies   \* SERVICE_MAX_DEPENDENCIES

ASSUME RegistryAssumption == Capacity \in Nat /\ MaxDependencies \in Nat

VARIABLES services,         \* the registered services, in the order of their slots
          dependencies,     \* Name -> the names the service depends on, as added
          result,           \* of service_registry_compute_start_order: "none" before a
                            \* call, "searching" in it, then "ok" or "failed"
          order,            \* out_order, up to out_index
          color,            \* Name -> ServiceSortColor
          path,             \* the services whose visit has not returned, outermost first
          followed,         \* Name -> how many of its dependencies its visit has followed
          root              \* the loop variable of service_registry_compute_start_order

registry == <<services, dependencies>>
locals == <<color, path, followed, root>>
vars == <<services, dependencies, result, order, color, path, followed, root>>

Registered == {services[i] : i \in 1 .. Len(services)}

Searching == result = "searching"

\* The colours and the counts before anything is visited.
AllWhite == [n \in Name |-> "WHITE"]
NoneFollowed == [n \in Name |-> 0]

Init ==
    /\ services = <<>>
    /\ dependencies = [n \in Name |-> <<>>]
    /\ result = "none"
    /\ order = <<>>
    /\ color = AllWhite
    /\ path = <<>>
    /\ followed = NoneFollowed
    /\ root = 1

-----------------------------------------------------------------------------
(* The registry.  Nothing else runs during a search, and a change makes    *)
(* what an earlier one found obsolete.                                     *)

Change ==
    /\ ~Searching
    /\ result' = "none" /\ order' = <<>>
    /\ UNCHANGED locals

\* service_registry_register.
Register(n) ==
    /\ Len(services) < Capacity
    /\ n \notin Registered
    /\ services' = Append(services, n)
    /\ Change
    /\ UNCHANGED dependencies

\* service_registry_unregister: the last service fills the hole, and the
\* service is destroyed with its dependencies.
Unregister(i) ==
    /\ i \in 1 .. Len(services)
    /\ services' = Front([services EXCEPT ![i] = Last(services)])
    /\ dependencies' = [dependencies EXCEPT ![services[i]] = <<>>]
    /\ Change

\* service_add_dependency, before or after registration.
AddDependency(n, d) ==
    /\ d # n
    /\ Len(dependencies[n]) < MaxDependencies
    /\ dependencies' = [dependencies EXCEPT ![n] = Append(@, d)]
    /\ Change
    /\ UNCHANGED services

-----------------------------------------------------------------------------
(* service_registry_compute_start_order: a depth first search.  The        *)
(* recursion of service_orchestrator_visit is the stack path.              *)

\* The search begins.
Begin ==
    /\ ~Searching
    /\ result' = "searching" /\ order' = <<>>
    /\ UNCHANGED <<registry, locals>>

\* The local variables are gone and the caller has the result.
Finish(r) ==
    /\ result' = r
    /\ color' = AllWhite
    /\ path' = <<>>
    /\ followed' = NoneFollowed
    /\ root' = 1

\* A call of service_orchestrator_visit for the service n.
Enter(n) ==
    /\ color' = [color EXCEPT ![n] = "GRAY"]
    /\ path' = Append(path, n)

\* A root of the search: a service not reached yet.
VisitRoot ==
    /\ Searching /\ path = <<>>
    /\ root <= Len(services)
    /\ color[services[root]] = "WHITE"
    /\ Enter(services[root])
    /\ root' = root + 1
    /\ UNCHANGED <<registry, result, order, followed>>

\* A service an earlier root has reached.
SkipRoot ==
    /\ Searching /\ path = <<>>
    /\ root <= Len(services)
    /\ color[services[root]] # "WHITE"
    /\ root' = root + 1
    /\ UNCHANGED <<registry, result, order, color, path, followed>>

\* The visit of n, the innermost one, is at its dependency d.
At(n, d) ==
    /\ Searching /\ path # <<>>
    /\ n = Last(path)
    /\ followed[n] < Len(dependencies[n])
    /\ d = dependencies[n][followed[n] + 1]

\* Mutant: a dependency that is not registered is visited all the same.
RefusesCycles(d) == color[d] = "GRAY"

\* d is not registered, or its visit has not returned: a cycle.
Refuses(d) == d \notin Registered \/ color[d] = "GRAY"

\* Every visit returns -1.
Refuse(n, d) ==
    /\ At(n, d)
    /\ Refuses(d)
    /\ Finish("failed")
    /\ order' = <<>>
    /\ UNCHANGED registry

\* A dependency not reached yet is visited first.
Descend(n, d) ==
    /\ At(n, d)
    /\ ~Refuses(d) /\ color[d] = "WHITE"
    /\ Enter(d)
    /\ followed' = [followed EXCEPT ![n] = @ + 1]
    /\ UNCHANGED <<registry, result, order, root>>

\* A dependency that is in the order already.
Pass(n, d) ==
    /\ At(n, d)
    /\ color[d] = "BLACK"
    /\ followed' = [followed EXCEPT ![n] = @ + 1]
    /\ UNCHANGED <<registry, result, order, color, path, root>>

\* Mutant: the order is filled from its end.
ListFirst(n) == order' = <<n>> \o order

\* The service takes the next place of out_order.
List(n) == order' = Append(order, n)

\* The innermost visit has followed all dependencies and returns 0.
Return ==
    /\ Searching /\ path # <<>>
    /\ LET n == Last(path) IN
         /\ followed[n] = Len(dependencies[n])
         /\ color' = [color EXCEPT ![n] = "BLACK"]
         /\ List(n)
    /\ path' = Front(path)
    /\ UNCHANGED <<registry, result, followed, root>>

\* All services are in the order.
Succeed ==
    /\ Searching /\ path = <<>>
    /\ root > Len(services)
    /\ Finish("ok")
    /\ UNCHANGED <<registry, order>>

-----------------------------------------------------------------------------
Client ==
    \/ \E n \in Name : Register(n)
    \/ \E i \in 1 .. Capacity : Unregister(i)
    \/ \E n, d \in Name : AddDependency(n, d)
    \/ Begin

Search ==
    \/ VisitRoot \/ SkipRoot
    \/ \E n, d \in Name : Refuse(n, d) \/ Descend(n, d) \/ Pass(n, d)
    \/ Return \/ Succeed

Next == Client \/ Search

Spec == Init /\ [][Next]_vars

-----------------------------------------------------------------------------
\* Type invariant: the registry holds each name at most once, within its
\* capacity, however services were registered and unregistered before.
TypeOK ==
    /\ services \in Seq(Name)
    /\ Len(services) <= Capacity
    /\ IsInjective(services)
    /\ dependencies \in [Name -> Seq(Name)]
    /\ result \in {"none", "searching", "ok", "failed"}
    /\ order \in Seq(Name)
    /\ color \in [Name -> {"WHITE", "GRAY", "BLACK"}]
    /\ path \in Seq(Name)
    /\ followed \in [Name -> Nat]
    /\ root \in Nat \ {0}

DependsOn == {e \in Name \X Name :
                e[1] \in Registered /\ \E i \in 1 .. Len(dependencies[e[1]]) :
                                          dependencies[e[1]][i] = e[2]}

\* What the search must find out, by definition: every dependency of a
\* registered service is registered, and no services wait for each other: any
\* set of them has one that depends on none of the set.
Startable ==
    /\ \A e \in DependsOn : e[2] \in Registered
    /\ \A S \in SUBSET Registered :
         S # {} => \E n \in S : \A d \in S : <<n, d>> \notin DependsOn

\* The search refuses exactly the cycles and the dependencies that are not
\* registered, in whatever order services and dependencies were added or
\* removed.
RefusesExactlyTheUnstartable ==
    /\ TypeOK
    /\ result = "ok" => Startable
    /\ result = "failed" => ~Startable

\* A start order lists every registered service once, each after all that it
\* depends on.
StartOrderIsTopological ==
    result = "ok" =>
      /\ Len(order) = Len(services)
      /\ {order[i] : i \in 1 .. Len(order)} = Registered
      /\ \A i, j \in 1 .. Len(order) : <<order[i], order[j]>> \in DependsOn => j < i
=============================================================================
