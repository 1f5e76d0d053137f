------------------------ MODULE ServiceRegistryProofs -----------------------
(***************************************************************************)
(* The depth first search of service_registry_compute_start_order is       *)
(* right, for every number of services and every dependency graph, with    *)
(* cycles, repeated edges and names nobody registered: it fails exactly    *)
(* when there is no start order, and otherwise returns one.                *)
(*                                                                         *)
(* The invariant says what the colours mean while the search runs.  The    *)
(* GRAY services are the stack of visits, each of which depends on the     *)
(* next; the BLACK ones are the order so far, in which every service comes *)
(* after its dependencies; and what a visit has followed is BLACK, but for *)
(* the dependency it is visiting.                                          *)
(***************************************************************************)
EXTENDS ServiceRegistry, FiniteSetTheorems, SequenceTheorems, WellFoundedInduction, TLAPS

USE RegistryAssumption

\* The dependencies of a service come before it in the order.
OrderInv ==
    /\ \A i \in 1 .. Len(order) : order[i] \in Registered
    /\ \A i, j \in 1 .. Len(order) : order[i] = order[j] => i = j
    /\ \A i \in 1 .. Len(order) : \A k \in 1 .. Len(dependencies[order[i]]) :
         \E j \in 1 .. i - 1 : order[j] = dependencies[order[i]][k]

\* The colours say who is on the stack and who is in the order.
ColorInv ==
    /\ \A n \in Name : color[n] = "GRAY" <=> \E i \in 1 .. Len(path) : path[i] = n
    /\ \A n \in Name : color[n] = "BLACK" <=> \E i \in 1 .. Len(order) : order[i] = n

\* The stack is a path of the dependency graph.
PathInv ==
    /\ \A i \in 1 .. Len(path) : path[i] \in Registered
    /\ \A i, j \in 1 .. Len(path) : path[i] = path[j] => i = j
    /\ \A i \in 1 .. Len(path) - 1 : <<path[i], path[i + 1]>> \in DependsOn

\* What a visit has followed is done, or is the visit it waits for.
FollowInv ==
    /\ \A i \in 1 .. Len(path) : \A k \in 1 .. followed[path[i]] :
         /\ k \in 1 .. Len(dependencies[path[i]])
         /\ \/ color[dependencies[path[i]][k]] = "BLACK"
            \/ i < Len(path) /\ path[i + 1] = dependencies[path[i]][k]
    /\ \A n \in Name : color[n] = "WHITE" => followed[n] = 0

\* The roots already tried are not WHITE.
RootInv == \A i \in 1 .. Len(services) : i < root => color[services[i]] # "WHITE"

\* The inductive invariant.
RegistryInv ==
    /\ TypeOK
    /\ OrderInv
    /\ Searching => ColorInv /\ PathInv /\ FollowInv /\ RootInv
    /\ ~Searching => color = AllWhite /\ path = <<>> /\ followed = NoneFollowed /\ root = 1
    /\ result \in {"none", "failed"} => order = <<>>
    /\ result = "ok" => \A n \in Registered : \E i \in 1 .. Len(order) : order[i] = n
    /\ result = "failed" => ~Startable

\* Registered, DependsOn and Startable depend on the registry only.
LEMMA SameRegistry ==
  ASSUME UNCHANGED registry
  PROVE  Registered' = Registered /\ DependsOn' = DependsOn /\ (Startable <=> Startable')
<1>1. Registered' = Registered
  BY DEF registry, Registered
<1>2. DependsOn' = DependsOn
  BY <1>1 DEF registry, DependsOn
<1> QED BY <1>1, <1>2 DEF Startable

\* A sequence without its last element.
LEMMA FrontFacts ==
  ASSUME NEW S, NEW s \in Seq(S), Len(s) > 0
  PROVE  /\ Front(s) \in Seq(S) /\ Len(Front(s)) = Len(s) - 1
         /\ \A i \in 1 .. Len(s) - 1 : Front(s)[i] = s[i]
<1>1. PICK m \in Nat : m = Len(s) - 1
  OBVIOUS
<1>2. \A i \in 1 .. m : s[i] \in S
  BY <1>1
<1>3. PICK f : f = SubSeq(s, 1, m)
  OBVIOUS
<1>4. /\ f \in Seq(S)
      /\ Len(f) = IF 1 <= m THEN m - 1 + 1 ELSE 0
      /\ \A i \in 1 .. m - 1 + 1 : f[i] = s[1 + i - 1]
  BY <1>2, <1>3, SubSeqProperties
<1>5. Len(f) = m /\ \A i \in 1 .. m : f[i] = s[i]
  BY <1>4
<1>6. Front(s) = f
  BY <1>1, <1>3, Zenon DEF Front
<1> QED BY <1>1, <1>4, <1>5, <1>6

-----------------------------------------------------------------------------
(* Changes of the registry.                                                *)

\* The registry keeps its types.
RegistryType ==
    /\ services \in Seq(Name) /\ Len(services) <= Capacity /\ IsInjective(services)
    /\ dependencies \in [Name -> Seq(Name)]

\* service_registry_register keeps names distinct.
LEMMA RegisterKeeps ==
  ASSUME RegistryType, NEW n \in Name, Register(n)
  PROVE  RegistryType'
<1>1. /\ services \in Seq(Name) /\ services' = Append(services, n)
      /\ Len(services) < Capacity /\ n \notin Registered
  BY DEF Register, RegistryType
<1>2. /\ services' \in Seq(Name) /\ Len(services') = Len(services) + 1
      /\ services'[Len(services) + 1] = n
      /\ \A i \in 1 .. Len(services) : services'[i] = services[i]
      /\ DOMAIN services' = 1 .. Len(services) + 1
  BY <1>1
<1>3. IsInjective(services')
  <2> SUFFICES ASSUME NEW i \in 1 .. Len(services) + 1, NEW j \in 1 .. Len(services) + 1,
                      services'[i] = services'[j]
               PROVE  i = j
    BY <1>2 DEF IsInjective
  <2>1. \A k \in 1 .. Len(services) : services[k] # n
    BY <1>1 DEF Registered
  <2>2. CASE i \in 1 .. Len(services) /\ j \in 1 .. Len(services)
    BY <1>1, <1>2, <2>2 DEF RegistryType, IsInjective
  <2>3. CASE i = Len(services) + 1 \/ j = Len(services) + 1
    BY <1>1, <1>2, <2>1, <2>3
  <2> QED BY <1>1, <2>2, <2>3
<1> QED BY <1>1, <1>2, <1>3 DEF RegistryType, Register

\* service_registry_unregister, which moves the last service, keeps names
\* distinct.
LEMMA UnregisterKeeps ==
  ASSUME RegistryType, NEW i \in 1 .. Capacity, Unregister(i)
  PROVE  RegistryType'
<1> DEFINE m == Len(services)
           moved == [services EXCEPT ![i] = services[m]]
<1>1. /\ services \in Seq(Name) /\ m \in Nat /\ i \in 1 .. m /\ m <= Capacity
      /\ services' = Front(moved)
  BY DEF Unregister, RegistryType, Last
<1>2. /\ moved \in Seq(Name) /\ Len(moved) = m
      /\ \A k \in 1 .. m : moved[k] = IF k = i THEN services[m] ELSE services[k]
  BY <1>1
<1>3. /\ services' \in Seq(Name) /\ Len(services') = m - 1
      /\ \A k \in 1 .. m - 1 : services'[k] = IF k = i THEN services[m] ELSE services[k]
      /\ DOMAIN services' = 1 .. m - 1
  <2> HIDE DEF moved
  <2>1. /\ services' \in Seq(Name) /\ Len(services') = m - 1
        /\ \A k \in 1 .. m - 1 : services'[k] = moved[k]
    BY <1>1, <1>2, FrontFacts
  <2> QED BY <1>1, <1>2, <2>1
<1>4. IsInjective(services')
  <2>1. \A k, l \in 1 .. m : services[k] = services[l] => k = l
    BY <1>1 DEF RegistryType, IsInjective
  <2>2. m \in Nat /\ i \in 1 .. m
    BY <1>1
  <2> HIDE DEF m
  <2>3. \A k, l \in 1 .. m - 1 : services'[k] = services'[l] => k = l
    BY <1>3, <2>1, <2>2
  <2> QED BY <1>3, <2>3 DEF IsInjective
<1>5. dependencies' \in [Name -> Seq(Name)]
  <2>1. services[i] \in Name /\ <<>> \in Seq(Name)
    BY <1>1
  <2> QED BY <2>1 DEF Unregister, RegistryType
<1> QED BY <1>1, <1>3, <1>4, <1>5 DEF RegistryType

\* Any change of the registry keeps the invariant: no search is on, and the
\* result of the last one is dropped.
LEMMA ChangeKeeps ==
  ASSUME RegistryInv, Change, RegistryType'
  PROVE  RegistryInv'
<1>1. /\ result' = "none" /\ order' = <<>> /\ ~Searching /\ ~Searching'
      /\ UNCHANGED <<color, path, followed, root>>
  BY DEF Change, locals, Searching
<1>2. TypeOK'
  BY <1>1 DEF RegistryInv, TypeOK, RegistryType
<1>3. OrderInv'
  BY <1>1 DEF OrderInv
<1>4. AllWhite' = AllWhite /\ NoneFollowed' = NoneFollowed
  BY DEF AllWhite, NoneFollowed
<1> QED BY <1>1, <1>2, <1>3, <1>4 DEF RegistryInv

\* Calls outside a search.
LEMMA ClientKeeps ==
  ASSUME RegistryInv, Client
  PROVE  RegistryInv'
<1>t. RegistryType
  BY DEF RegistryInv, TypeOK, RegistryType
<1>1. ASSUME NEW n \in Name, Register(n) PROVE RegistryInv'
  BY <1>t, <1>1, RegisterKeeps, ChangeKeeps DEF Register
<1>2. ASSUME NEW i \in 1 .. Capacity, Unregister(i) PROVE RegistryInv'
  BY <1>t, <1>2, UnregisterKeeps, ChangeKeeps DEF Unregister
<1>3. ASSUME NEW n \in Name, NEW d \in Name, AddDependency(n, d) PROVE RegistryInv'
  <2>1. RegistryType'
    BY <1>t, <1>3 DEF RegistryType, AddDependency
  <2> QED BY <1>3, <2>1, ChangeKeeps DEF AddDependency
<1>4. CASE Begin
  <2>1. /\ result' = "searching" /\ order' = <<>> /\ ~Searching /\ Searching'
        /\ UNCHANGED <<color, path, followed, root, services, dependencies>>
    BY <1>4 DEF Begin, locals, Searching, registry
  <2>2. color = AllWhite /\ path = <<>> /\ followed = NoneFollowed /\ root = 1
    BY <2>1 DEF RegistryInv
  <2>3. TypeOK'
    BY <2>1 DEF RegistryInv, TypeOK
  <2>4. OrderInv' /\ ColorInv' /\ PathInv' /\ FollowInv'
    BY <2>1, <2>2 DEF OrderInv, ColorInv, PathInv, FollowInv, AllWhite, NoneFollowed
  <2>5. RootInv'
    BY <2>1, <2>2 DEF RootInv
  <2> QED BY <2>1, <2>3, <2>4, <2>5 DEF RegistryInv
<1> QED BY <1>1, <1>2, <1>3, <1>4 DEF Client

-----------------------------------------------------------------------------
(* Steps of the search.                                                    *)

\* A service is visited, as a root or as the dependency the innermost visit is
\* at: it is pushed on the stack.
EnterStep(n) ==
    /\ n \in Registered /\ color[n] = "WHITE"
    /\ Enter(n)
    /\ \/ path = <<>> /\ followed' = followed /\ services[root] = n /\ root' = root + 1
       \/ /\ path # <<>> /\ At(Last(path), n)
          /\ followed' = [followed EXCEPT ![Last(path)] = @ + 1] /\ root' = root
    /\ UNCHANGED <<services, dependencies, result, order>>

\* The innermost visit is at a dependency of its service.
LEMMA AtFacts ==
  ASSUME RegistryInv, NEW n, NEW d, At(n, d)
  PROVE  /\ Searching /\ Len(path) \in Nat \ {0} /\ n = path[Len(path)]
         /\ n \in Name /\ d \in Name /\ followed[n] \in Nat
         /\ followed[n] + 1 \in 1 .. Len(dependencies[n])
         /\ d = dependencies[n][followed[n] + 1]
         /\ <<n, d>> \in DependsOn
<1>1. /\ Searching /\ path \in Seq(Name) /\ path # <<>> /\ n = path[Len(path)]
      /\ followed[n] < Len(dependencies[n]) /\ d = dependencies[n][followed[n] + 1]
  BY DEF At, RegistryInv, TypeOK, Last
<1>2. Len(path) \in Nat \ {0} /\ n \in Name
  BY <1>1
<1>3. followed[n] \in Nat /\ dependencies[n] \in Seq(Name)
  BY <1>2 DEF RegistryInv, TypeOK
<1>4. followed[n] + 1 \in 1 .. Len(dependencies[n]) /\ d \in Name
  BY <1>1, <1>3
<1>5. n \in Registered
  BY <1>1, <1>2 DEF RegistryInv, PathInv
<1> QED BY <1>1, <1>2, <1>3, <1>4, <1>5 DEF DependsOn

\* Such a step keeps the invariant.
LEMMA EnterKeeps ==
  ASSUME RegistryInv, Searching, NEW n \in Name, EnterStep(n)
  PROVE  RegistryInv'
<1> USE DEF RegistryInv
<1> DEFINE m == Len(path)
<1>1. /\ n \in Registered /\ color[n] = "WHITE" /\ color' = [color EXCEPT ![n] = "GRAY"]
      /\ path' = Append(path, n) /\ UNCHANGED <<services, dependencies, result, order>>
      /\ color \in [Name -> {"WHITE", "GRAY", "BLACK"}] /\ path \in Seq(Name)
      /\ followed \in [Name -> Nat] /\ root \in Nat \ {0}
      /\ order \in Seq(Name) /\ services \in Seq(Name)
      /\ dependencies \in [Name -> Seq(Name)]
  BY DEF EnterStep, Enter, TypeOK
<1>2. /\ m \in Nat /\ path' \in Seq(Name) /\ Len(path') = m + 1 /\ path'[m + 1] = n
      /\ \A i \in 1 .. m : path'[i] = path[i] /\ path[i] \in Name
  BY <1>1
<1>3. /\ Registered' = Registered /\ DependsOn' = DependsOn /\ Searching'
  BY <1>1, SameRegistry DEF registry, Searching
<1>4. \A i \in 1 .. m : path[i] # n /\ color[path[i]] = "GRAY"
  BY <1>1, <1>2 DEF ColorInv
<1>5. /\ followed' \in [Name -> Nat] /\ root' \in Nat \ {0}
      /\ m > 0 => /\ At(path[m], n) /\ path[m] \in Name
                  /\ followed' = [followed EXCEPT ![path[m]] = @ + 1]
      /\ m = 0 => followed' = followed
      /\ followed'[n] = 0
  <2>1. followed[n] = 0
    BY <1>1 DEF FollowInv
  <2>2. CASE path = <<>>
    BY <1>1, <2>1, <2>2 DEF EnterStep
  <2>3. CASE path # <<>>
    <3>1. m > 0 /\ Last(path) = path[m] /\ path[m] \in Name /\ path[m] # n
      BY <1>1, <1>2, <1>4, <2>3 DEF Last
    <3>2. At(path[m], n) /\ followed' = [followed EXCEPT ![path[m]] = @ + 1] /\ root' = root
      BY <2>3, <3>1 DEF EnterStep
    <3> QED BY <1>1, <2>1, <3>1, <3>2
  <2> QED BY <2>2, <2>3
<1>6. TypeOK'
  BY <1>1, <1>2, <1>5 DEF TypeOK
<1>7. OrderInv'
  BY <1>1, <1>3 DEF OrderInv
<1>8. ColorInv'
  <2>1. \A k \in Name : color'[k] = IF k = n THEN "GRAY" ELSE color[k]
    BY <1>1
  <2>2. \A k \in Name : (\E i \in 1 .. Len(path') : path'[i] = k)
                          <=> k = n \/ \E i \in 1 .. m : path[i] = k
    BY <1>2
  <2>3. ~\E i \in 1 .. Len(order) : order[i] = n
    BY <1>1 DEF ColorInv
  <2>4. \A k \in Name : color'[k] = "GRAY" <=> \E i \in 1 .. Len(path') : path'[i] = k
    BY <2>1, <2>2 DEF ColorInv
  <2>5. \A k \in Name : color'[k] = "BLACK" <=> \E i \in 1 .. Len(order) : order[i] = k
    BY <2>1, <2>3 DEF ColorInv
  <2>6. order' = order
    BY <1>1
  <2> HIDE DEF RegistryInv
  <2> QED BY <2>4, <2>5, <2>6 DEF ColorInv
<1>9. PathInv'
  <2>1. ASSUME NEW i \in 1 .. Len(path') PROVE path'[i] \in Registered
    <3>1. i = m + 1 \/ i \in 1 .. m
      BY <1>2
    <3>2. \A j \in 1 .. m : path[j] \in Registered
      BY DEF PathInv
    <3> QED BY <1>1, <1>2, <3>1, <3>2
  <2>2. \A i, j \in 1 .. Len(path') : path'[i] = path'[j] => i = j
    <3>1. \A i, j \in 1 .. m : path[i] = path[j] => i = j
      BY DEF PathInv
    <3> QED BY <1>2, <1>4, <3>1
  <2>3. ASSUME NEW i \in 1 .. Len(path') - 1 PROVE <<path'[i], path'[i + 1]>> \in DependsOn
    <3>1. CASE i = m
      <4>1. m > 0 /\ path'[i] = path[m] /\ path'[i + 1] = n
        BY <1>2, <2>3, <3>1
      <4> QED BY <1>5, <4>1, AtFacts
    <3>2. CASE i # m
      <4>1. i \in 1 .. m - 1 /\ path'[i] = path[i] /\ path'[i + 1] = path[i + 1]
        BY <1>2, <3>2
      <4> QED BY <4>1 DEF PathInv
    <3> QED BY <3>1, <3>2
  <2> QED BY <1>3, <2>1, <2>2, <2>3 DEF PathInv
<1>10. FollowInv'
  <2>0. \A k \in Name : color[k] = "BLACK" => color'[k] = "BLACK"
    BY <1>1
  <2>1. ASSUME NEW i \in 1 .. Len(path'), NEW k \in 1 .. followed'[path'[i]]
        PROVE  /\ k \in 1 .. Len(dependencies[path'[i]])
               /\ \/ color'[dependencies[path'[i]][k]] = "BLACK"
                  \/ i < Len(path') /\ path'[i + 1] = dependencies[path'[i]][k]
    <3>1. i # m + 1 /\ i \in 1 .. m /\ path'[i] = path[i] /\ path[i] \in Name
      BY <1>2, <1>5
    <3>2. CASE i = m /\ k = followed[path[m]] + 1
      <4>1. At(path[m], n)
        BY <1>5, <3>1, <3>2
      <4>2. k \in 1 .. Len(dependencies[path[m]]) /\ n = dependencies[path[m]][k]
        BY <3>2, <4>1, AtFacts
      <4>3. i < Len(path') /\ path'[i + 1] = n
        BY <1>2, <3>2
      <4> QED BY <3>1, <3>2, <4>2, <4>3
    <3>3. CASE ~(i = m /\ k = followed[path[m]] + 1)
      <4>1. k \in 1 .. followed[path[i]]
        <5>1. i # m => path[i] # path[m]
          BY <1>2, <3>1 DEF PathInv
        <5>2. m > 0 /\ path[m] \in Name /\ followed' = [followed EXCEPT ![path[m]] = @ + 1]
          BY <1>2, <1>5, <3>1
        <5>3. followed'[path[i]] = IF i = m THEN followed[path[i]] + 1 ELSE followed[path[i]]
          BY <1>1, <3>1, <5>1, <5>2
        <5>4. followed[path[i]] \in Nat /\ k \in 1 .. followed'[path[i]]
          BY <1>1, <2>1, <3>1
        <5> QED BY <3>3, <5>3, <5>4
      <4>2. /\ k \in 1 .. Len(dependencies[path[i]])
            /\ \/ color[dependencies[path[i]][k]] = "BLACK"
               \/ i < m /\ path[i + 1] = dependencies[path[i]][k]
        BY <3>1, <4>1 DEF FollowInv
      <4>3. dependencies[path[i]][k] \in Name
        <5>1. dependencies \in [Name -> Seq(Name)]
          BY DEF TypeOK
        <5> HIDE DEF RegistryInv
        <5> QED BY <3>1, <4>2, <5>1
      <4> QED BY <1>2, <2>0, <3>1, <4>2, <4>3
    <3> QED BY <3>2, <3>3
  <2>2. \A k \in Name : color'[k] = "WHITE" => followed'[k] = 0
    <3> SUFFICES ASSUME NEW k \in Name, color'[k] = "WHITE" PROVE followed'[k] = 0
      OBVIOUS
    <3>1. k # n /\ color[k] = "WHITE" /\ followed[k] = 0
      BY <1>1 DEF FollowInv
    <3>2. m > 0 => k # path[m]
      BY <1>2, <1>4, <3>1
    <3>3. followed'[k] = followed[k]
      <4>1. CASE m = 0
        BY <1>5, <4>1
      <4>2. CASE m > 0
        <5>1. followed' = [followed EXCEPT ![path[m]] = @ + 1]
          BY <1>5, <4>2
        <5> QED BY <1>1, <3>2, <4>2, <5>1
      <4> QED BY <1>2, <4>1, <4>2
    <3> QED BY <3>1, <3>3
  <2>3. dependencies' = dependencies
    BY <1>1
  <2> QED BY <2>1, <2>2, <2>3 DEF FollowInv
<1>11. RootInv'
  <2> SUFFICES ASSUME NEW i \in 1 .. Len(services), i < root' PROVE color'[services[i]] # "WHITE"
    BY <1>1 DEF RootInv
  <2>1. services[i] \in Name
    BY <1>1
  <2>2. CASE i < root
    BY <1>1, <2>1, <2>2 DEF RootInv
  <2>3. CASE ~(i < root)
    <3>1. i = root /\ services[root] = n
      BY <1>1, <2>3 DEF EnterStep
    <3> QED BY <1>1, <3>1
  <2> QED BY <2>2, <2>3
<1> QED BY <1>1, <1>3, <1>6, <1>7, <1>8, <1>9, <1>10, <1>11 DEF Searching

\* A dependency that is in the order already is passed over.
LEMMA PassKeeps ==
  ASSUME RegistryInv, NEW n \in Name, NEW d \in Name, Pass(n, d)
  PROVE  RegistryInv'
<1> USE DEF RegistryInv
<1>1. /\ At(n, d) /\ color[d] = "BLACK" /\ followed' = [followed EXCEPT ![n] = @ + 1]
      /\ UNCHANGED <<services, dependencies, result, order, color, path, root>>
  BY DEF Pass, registry
<1>2. /\ Searching /\ Len(path) \in Nat \ {0} /\ n = path[Len(path)]
      /\ followed[n] + 1 \in 1 .. Len(dependencies[n])
      /\ d = dependencies[n][followed[n] + 1]
  BY <1>1, AtFacts
<1>3. Searching' /\ Registered' = Registered /\ DependsOn' = DependsOn
  BY <1>1, <1>2, SameRegistry DEF registry, Searching
<1>4. /\ followed \in [Name -> Nat] /\ path \in Seq(Name)
      /\ \A k \in Name : followed'[k] = IF k = n THEN followed[k] + 1 ELSE followed[k]
  BY <1>1 DEF TypeOK
<1>5. TypeOK'
  <2>1. TypeOK
    OBVIOUS
  <2> HIDE DEF RegistryInv
  <2>2. followed' \in [Name -> Nat]
    BY <1>1, <1>4
  <2> QED BY <1>1, <2>1, <2>2 DEF TypeOK
<1>6. OrderInv' /\ ColorInv' /\ PathInv' /\ RootInv'
  <2>1. OrderInv /\ ColorInv /\ PathInv /\ RootInv
    BY <1>2
  <2> HIDE DEF RegistryInv
  <2>2. OrderInv' /\ ColorInv'
    BY <1>1, <1>3, <2>1 DEF OrderInv, ColorInv
  <2>3. PathInv' /\ RootInv'
    BY <1>1, <1>3, <2>1 DEF PathInv, RootInv
  <2> QED BY <2>2, <2>3
<1>7. FollowInv'
  <2>1. ASSUME NEW i \in 1 .. Len(path), NEW k \in 1 .. followed'[path[i]]
        PROVE  /\ k \in 1 .. Len(dependencies[path[i]])
               /\ \/ color[dependencies[path[i]][k]] = "BLACK"
                  \/ i < Len(path) /\ path[i + 1] = dependencies[path[i]][k]
    <3>1. path[i] \in Name /\ followed[path[i]] \in Nat
      BY <1>4
    <3>2. CASE path[i] = n /\ k = followed[n] + 1
      BY <1>1, <1>2, <3>2
    <3>3. CASE ~(path[i] = n /\ k = followed[n] + 1)
      <4>1. k \in 1 .. followed[path[i]]
        BY <1>4, <3>1, <3>3
      <4> QED BY <1>2, <4>1 DEF FollowInv
    <3> QED BY <3>2, <3>3
  <2>2. ASSUME NEW k \in Name, color[k] = "WHITE" PROVE followed'[k] = 0
    <3>1. color[n] = "GRAY"
      BY <1>2 DEF ColorInv
    <3> QED BY <1>2, <1>4, <2>2, <3>1 DEF FollowInv
  <2>3. color' = color /\ path' = path /\ dependencies' = dependencies
    BY <1>1
  <2> HIDE DEF RegistryInv
  <2> QED BY <2>1, <2>2, <2>3 DEF FollowInv
<1> QED BY <1>1, <1>2, <1>3, <1>5, <1>6, <1>7 DEF Searching

\* A root that an earlier one has reached is passed over.
LEMMA SkipKeeps ==
  ASSUME RegistryInv, SkipRoot
  PROVE  RegistryInv'
<1> USE DEF RegistryInv
<1>1. /\ Searching /\ color[services[root]] # "WHITE" /\ root' = root + 1
      /\ UNCHANGED <<services, dependencies, result, order, color, path, followed>>
  BY DEF SkipRoot, registry
<1>2. Searching' /\ Registered' = Registered /\ DependsOn' = DependsOn
  BY <1>1, SameRegistry DEF registry, Searching
<1>3. TypeOK' /\ root \in Nat /\ services \in Seq(Name)
  <2>1. TypeOK
    OBVIOUS
  <2> HIDE DEF RegistryInv
  <2> QED BY <1>1, <2>1 DEF TypeOK
<1>4. OrderInv' /\ ColorInv' /\ PathInv' /\ FollowInv'
  BY <1>1, <1>2 DEF OrderInv, ColorInv, PathInv, FollowInv
<1>5. RootInv'
  <2>1. \A i \in 1 .. Len(services) : i < root' => i < root \/ i = root
    BY <1>1, <1>3
  <2> QED BY <1>1, <2>1 DEF RootInv
<1> QED BY <1>1, <1>2, <1>3, <1>4, <1>5 DEF Searching

\* The innermost visit returns: its service follows all its dependencies in
\* the order.
LEMMA ReturnKeeps ==
  ASSUME RegistryInv, Return
  PROVE  RegistryInv'
<1> USE DEF RegistryInv
<1>0. /\ Searching /\ path # <<>> /\ path \in Seq(Name) /\ order \in Seq(Name)
      /\ color \in [Name -> {"WHITE", "GRAY", "BLACK"}]
      /\ dependencies \in [Name -> Seq(Name)] /\ followed \in [Name -> Nat]
      /\ services \in Seq(Name)
  BY DEF Return, TypeOK
<1> DEFINE m == Len(path)
<1>1. m \in Nat \ {0} /\ path[m] \in Name /\ Last(path) = path[m]
  BY <1>0 DEF Last
<1>2. PICK n \in Name : n = path[m]
  BY <1>1
<1>3. /\ followed[n] = Len(dependencies[n]) /\ color' = [color EXCEPT ![n] = "BLACK"]
      /\ order' = Append(order, n) /\ path' = Front(path)
      /\ UNCHANGED <<services, dependencies, result, followed, root>>
  BY <1>1, <1>2 DEF Return, List, registry
<1>4. /\ path' \in Seq(Name) /\ Len(path') = m - 1
      /\ \A i \in 1 .. m - 1 : path'[i] = path[i]
  <2>1. Len(path) > 0 /\ path' = Front(path)
    BY <1>1, <1>3
  <2>2. /\ Front(path) \in Seq(Name) /\ Len(Front(path)) = Len(path) - 1
        /\ \A i \in 1 .. Len(path) - 1 : Front(path)[i] = path[i]
    BY <1>0, <2>1, FrontFacts
  <2> QED BY <2>1, <2>2
<1>5. /\ order' \in Seq(Name) /\ Len(order') = Len(order) + 1 /\ Len(order) \in Nat
      /\ order'[Len(order) + 1] = n
      /\ \A i \in 1 .. Len(order) : order'[i] = order[i]
  BY <1>0, <1>3
<1>6. Searching' /\ Registered' = Registered /\ DependsOn' = DependsOn
  BY <1>0, <1>3, SameRegistry DEF registry, Searching
<1>7. \A k \in Name : color'[k] = IF k = n THEN "BLACK" ELSE color[k]
  BY <1>0, <1>3
<1> HIDE DEF m
<1>8. /\ \A i, j \in 1 .. m : path[i] = path[j] => i = j
      /\ \A i \in 1 .. m : path[i] \in Registered
      /\ \A i \in 1 .. m - 1 : <<path[i], path[i + 1]>> \in DependsOn
      /\ color[n] = "GRAY"
  BY <1>0, <1>1, <1>2 DEF PathInv, ColorInv, m
<1>9. \A i \in 1 .. Len(order) : order[i] # n
  BY <1>0, <1>8 DEF ColorInv
<1>10. \A k \in 1 .. Len(dependencies[n]) :
         \E j \in 1 .. Len(order) : order[j] = dependencies[n][k]
  <2> SUFFICES ASSUME NEW k \in 1 .. Len(dependencies[n])
               PROVE  \E j \in 1 .. Len(order) : order[j] = dependencies[n][k]
    OBVIOUS
  <2>1. m \in 1 .. Len(path) /\ ~(m < Len(path)) /\ k \in 1 .. followed[path[m]]
    BY <1>1, <1>2, <1>3 DEF m
  <2>2. color[dependencies[n][k]] = "BLACK"
    BY <1>0, <1>2, <2>1 DEF FollowInv
  <2>3. dependencies[n][k] \in Name
    BY <1>0
  <2> QED BY <1>0, <2>2, <2>3 DEF ColorInv
<1>11. TypeOK'
  BY <1>3, <1>4, <1>5 DEF TypeOK
<1>12. OrderInv'
  <2>1. ASSUME NEW i \in 1 .. Len(order') PROVE order'[i] \in Registered
    BY <1>1, <1>2, <1>5, <1>8 DEF OrderInv
  <2>2. \A i, j \in 1 .. Len(order') : order'[i] = order'[j] => i = j
    <3>1. \A i, j \in 1 .. Len(order) : order[i] = order[j] => i = j
      BY DEF OrderInv
    <3> QED BY <1>5, <1>9, <3>1
  <2>3. ASSUME NEW i \in 1 .. Len(order'), NEW k \in 1 .. Len(dependencies[order'[i]])
        PROVE  \E j \in 1 .. i - 1 : order'[j] = dependencies[order'[i]][k]
    <3>1. CASE i = Len(order) + 1
      <4>1. PICK j \in 1 .. Len(order) : order[j] = dependencies[n][k]
        BY <1>5, <1>10, <3>1
      <4> QED BY <1>5, <3>1, <4>1
    <3>2. CASE i \in 1 .. Len(order)
      <4>1. PICK j \in 1 .. i - 1 : order[j] = dependencies[order[i]][k]
        BY <1>5, <3>2 DEF OrderInv
      <4> QED BY <1>5, <3>2, <4>1
    <3> QED BY <1>5, <3>1, <3>2
  <2>4. dependencies' = dependencies
    BY <1>3
  <2> QED BY <1>6, <2>1, <2>2, <2>3, <2>4 DEF OrderInv
<1>13. ColorInv'
  <2>1. \A k \in Name : (\E i \in 1 .. Len(path') : path'[i] = k)
                          <=> k # n /\ \E i \in 1 .. m : path[i] = k
    <3>1. \A i \in 1 .. m : i \in 1 .. m - 1 \/ i = m
      BY <1>1
    <3>2. \A i \in 1 .. m - 1 : i \in 1 .. m /\ path[i] # n
      BY <1>1, <1>2, <1>8
    <3> QED BY <1>2, <1>4, <3>1, <3>2
  <2>2. \A k \in Name : (\E i \in 1 .. Len(order') : order'[i] = k)
                          <=> k = n \/ \E i \in 1 .. Len(order) : order[i] = k
    BY <1>5
  <2>3. ASSUME NEW k \in Name PROVE color'[k] = "GRAY" <=> \E i \in 1 .. Len(path') : path'[i] = k
    <3>1. color[k] = "GRAY" <=> \E i \in 1 .. m : path[i] = k
      BY <1>0 DEF ColorInv, m
    <3> HIDE DEF RegistryInv, m
    <3> QED BY <1>7, <2>1, <3>1
  <2>4. ASSUME NEW k \in Name
        PROVE  color'[k] = "BLACK" <=> \E i \in 1 .. Len(order') : order'[i] = k
    BY <1>0, <1>7, <2>2 DEF ColorInv
  <2> QED BY <2>3, <2>4 DEF ColorInv
<1>14. PathInv'
  BY <1>1, <1>4, <1>6, <1>8 DEF PathInv
<1>15. FollowInv'
  <2>1. ASSUME NEW i \in 1 .. Len(path'), NEW k \in 1 .. followed[path'[i]]
        PROVE  /\ k \in 1 .. Len(dependencies[path'[i]])
               /\ \/ color'[dependencies[path'[i]][k]] = "BLACK"
                  \/ i < Len(path') /\ path'[i + 1] = dependencies[path'[i]][k]
    <3>0. i \in 1 .. m - 1 /\ path'[i] = path[i] /\ i \in 1 .. m
      BY <1>1, <1>4
    <3>1. i \in 1 .. m - 1 /\ path'[i] = path[i] /\ i \in 1 .. m /\ path[i] \in Name
      BY <1>0, <3>0 DEF m
    <3>2. /\ k \in 1 .. Len(dependencies[path[i]])
          /\ \/ color[dependencies[path[i]][k]] = "BLACK"
             \/ i < m /\ path[i + 1] = dependencies[path[i]][k]
      <4>1. FollowInv /\ m = Len(path) /\ k \in 1 .. followed[path[i]]
        BY <1>0, <3>1 DEF m
      <4> HIDE DEF RegistryInv, m
      <4> QED BY <3>1, <4>1 DEF FollowInv
    <3>3. dependencies[path[i]][k] \in Name
      <4>1. dependencies \in [Name -> Seq(Name)]
        BY DEF TypeOK
      <4> HIDE DEF RegistryInv, m
      <4> QED BY <3>1, <3>2, <4>1
    <3>4. CASE i = m - 1 /\ path[i + 1] = dependencies[path[i]][k]
      <4>1. dependencies[path[i]][k] = n
        BY <1>1, <1>2, <3>4
      <4> QED BY <1>7, <3>1, <3>2, <3>3, <4>1
    <3>5. CASE i < m - 1
      <4>1. path'[i + 1] = path[i + 1] /\ i < Len(path')
        BY <1>1, <1>4, <3>1, <3>5
      <4> QED BY <1>7, <3>1, <3>2, <3>3, <4>1
    <3>6. CASE color[dependencies[path[i]][k]] = "BLACK"
      BY <1>7, <3>1, <3>2, <3>3, <3>6
    <3> QED BY <1>1, <3>1, <3>2, <3>4, <3>5, <3>6
  <2>2. \A k \in Name : color'[k] = "WHITE" => followed[k] = 0
    BY <1>0, <1>7 DEF FollowInv
  <2>3. followed' = followed /\ dependencies' = dependencies
    BY <1>3
  <2> QED BY <2>1, <2>2, <2>3 DEF FollowInv
<1>16. RootInv'
  <2>1. \A i \in 1 .. Len(services) : services[i] \in Name
    BY <1>0
  <2> QED BY <1>0, <1>3, <1>7, <2>1 DEF RootInv
<1> QED BY <1>0, <1>3, <1>6, <1>11, <1>12, <1>13, <1>14, <1>15, <1>16 DEF Searching

\* The search fails: a dependency is not registered, or the services on the
\* stack from its visit on wait for each other.
LEMMA RefuseKeeps ==
  ASSUME RegistryInv, NEW n \in Name, NEW d \in Name, Refuse(n, d)
  PROVE  RegistryInv'
<1> USE DEF RegistryInv
<1> DEFINE m == Len(path)
<1>1. /\ Searching /\ m \in Nat \ {0} /\ n = path[m] /\ <<n, d>> \in DependsOn
      /\ d \notin Registered \/ color[d] = "GRAY"
  BY AtFacts DEF Refuse, Refuses
<1>2. ~Startable
  <2>1. CASE d \notin Registered
    BY <1>1, <2>1 DEF Startable
  <2>2. CASE color[d] = "GRAY"
    <3>1. PICK j \in 1 .. m : path[j] = d
      BY <1>1, <2>2 DEF ColorInv
    <3>2. PICK S : S = {path[i] : i \in j .. m}
      OBVIOUS
    <3>3. S \in SUBSET Registered /\ S # {}
      BY <1>1, <3>1, <3>2 DEF PathInv
    <3>4. ASSUME NEW k \in S PROVE \E e \in S : <<k, e>> \in DependsOn
      <4>1. PICK i \in j .. m : path[i] = k
        BY <3>2, <3>4
      <4>2. CASE i = m
        <5>1. d \in S
          BY <3>1, <3>2
        <5>2. <<k, d>> \in DependsOn
          BY <1>1, <4>1, <4>2
        <5> QED BY <5>1, <5>2
      <4>3. CASE i # m
        <5>1. i \in 1 .. m - 1 /\ i + 1 \in j .. m
          BY <1>1, <3>1, <4>1, <4>3
        <5>2. path[i + 1] \in S
          BY <3>2, <5>1
        <5>3. <<path[i], path[i + 1]>> \in DependsOn
          BY <1>1, <5>1 DEF PathInv
        <5> QED BY <4>1, <5>2, <5>3
      <4> QED BY <4>2, <4>3
    <3> QED BY <3>3, <3>4 DEF Startable
  <2> QED BY <1>1, <2>1, <2>2
<1>3. /\ result' = "failed" /\ order' = <<>> /\ color' = AllWhite /\ path' = <<>>
      /\ followed' = NoneFollowed /\ root' = 1
      /\ UNCHANGED <<services, dependencies>>
  BY DEF Refuse, Finish, registry
<1>4. TypeOK'
  BY <1>3 DEF TypeOK, AllWhite, NoneFollowed
<1>5. OrderInv' /\ ~Searching'
  BY <1>3 DEF OrderInv, Searching
<1>6. ~Startable'
  BY <1>2, <1>3, SameRegistry DEF registry
<1>7. AllWhite' = AllWhite /\ NoneFollowed' = NoneFollowed
  BY DEF AllWhite, NoneFollowed
<1> QED BY <1>3, <1>4, <1>5, <1>6, <1>7

\* The search succeeds: nothing is on the stack and every root was tried, so
\* every service is in the order.
LEMMA SucceedKeeps ==
  ASSUME RegistryInv, Succeed
  PROVE  RegistryInv'
<1> USE DEF RegistryInv
<1>1. /\ Searching /\ path = <<>> /\ root > Len(services)
      /\ result' = "ok" /\ color' = AllWhite /\ path' = <<>>
      /\ followed' = NoneFollowed /\ root' = 1
      /\ UNCHANGED <<services, dependencies, order>>
  BY DEF Succeed, Finish, registry
<1>2. \A n \in Registered : \E i \in 1 .. Len(order) : order[i] = n
  <2> SUFFICES ASSUME NEW n \in Registered
               PROVE  \E i \in 1 .. Len(order) : order[i] = n
    OBVIOUS
  <2>1. PICK i \in 1 .. Len(services) : services[i] = n
    BY DEF Registered
  <2>2. n \in Name /\ i < root
    BY <1>1, <2>1 DEF TypeOK
  <2>3. color[n] # "WHITE" /\ color[n] # "GRAY" /\ color[n] \in {"WHITE", "GRAY", "BLACK"}
    BY <1>1, <2>1, <2>2 DEF RootInv, ColorInv, TypeOK
  <2> QED BY <1>1, <2>2, <2>3 DEF ColorInv
<1>3. TypeOK'
  BY <1>1 DEF TypeOK, AllWhite, NoneFollowed
<1>4. Registered' = Registered
  BY <1>1 DEF Registered
<1>5. OrderInv' /\ ~Searching'
  BY <1>1, <1>4 DEF OrderInv, Searching
<1>6. AllWhite' = AllWhite /\ NoneFollowed' = NoneFollowed
  BY DEF AllWhite, NoneFollowed
<1> QED BY <1>1, <1>2, <1>3, <1>4, <1>5, <1>6

\* The search keeps the invariant.
LEMMA SearchKeeps ==
  ASSUME RegistryInv, Search
  PROVE  RegistryInv'
<1>1. CASE VisitRoot
  <2>1. PICK n : n = services[root]
    OBVIOUS
  <2>2. /\ root \in 1 .. Len(services) /\ n \in Registered /\ n \in Name
    BY <1>1, <2>1 DEF VisitRoot, RegistryInv, TypeOK, Registered
  <2>3. Searching /\ EnterStep(n)
    BY <1>1, <2>1, <2>2 DEF VisitRoot, EnterStep, registry
  <2> QED BY <2>2, <2>3, EnterKeeps
<1>2. ASSUME NEW n \in Name, NEW d \in Name, Descend(n, d) PROVE RegistryInv'
  <2>1. Searching /\ path # <<>> /\ n = Last(path)
    BY <1>2 DEF Descend, At
  <2>2. EnterStep(d)
    BY <1>2, <2>1 DEF Descend, EnterStep, Refuses, registry
  <2> QED BY <2>1, <2>2, EnterKeeps
<1> QED BY <1>1, <1>2, SkipKeeps, RefuseKeeps, PassKeeps, ReturnKeeps, SucceedKeeps DEF Search

-----------------------------------------------------------------------------
(* What the invariant says of the result.                                  *)

\* The inductive invariant holds in every reachable state, during and between
\* the calls of service_registry_compute_start_order.
THEOREM RegistryCorrect == Spec => []RegistryInv
<1>1. Init => RegistryInv
  <2> SUFFICES ASSUME Init PROVE RegistryInv
    OBVIOUS
  <2>1. TypeOK
    BY DEF Init, TypeOK, AllWhite, NoneFollowed, IsInjective
  <2> QED BY <2>1 DEF Init, RegistryInv, OrderInv, Searching
<1>2. RegistryInv /\ [Next]_vars => RegistryInv'
  <2>1. RegistryInv /\ UNCHANGED vars => RegistryInv'
    <3> SUFFICES ASSUME RegistryInv, UNCHANGED vars PROVE RegistryInv'
      OBVIOUS
    <3>1. Registered' = Registered /\ DependsOn' = DependsOn /\ (Startable <=> Startable')
      BY SameRegistry DEF vars, registry
    <3>2. TypeOK'
      BY DEF vars, RegistryInv, TypeOK
    <3>3. OrderInv'
      BY <3>1 DEF vars, RegistryInv, OrderInv
    <3>4. Searching' => ColorInv' /\ PathInv' /\ FollowInv' /\ RootInv'
      BY <3>1 DEF vars, RegistryInv, ColorInv, PathInv, FollowInv, RootInv, Searching
    <3> QED BY <3>1, <3>2, <3>3, <3>4
            DEF vars, RegistryInv, Searching, AllWhite, NoneFollowed
  <2> QED BY <2>1, ClientKeeps, SearchKeeps DEF Next
<1> QED BY <1>1, <1>2, PTL DEF Spec

\* A set of natural numbers has a least element.
LEMMA LeastElement ==
  ASSUME NEW T, T \subseteq Nat, T # {}
  PROVE  \E i \in T : \A j \in T : ~(j < i)
<1>1. \E i \in T : \A j \in T : ~(<<j, i>> \in OpToRel(<, Nat))
  BY NatLessThanWellFounded, WFMin
<1> QED BY <1>1 DEF OpToRel

\* The order the search returns has every service after its dependencies, so
\* there is one that depends on no other in any set of services: the first.
LEMMA OrderedIsStartable ==
  ASSUME RegistryInv, result = "ok"
  PROVE  Startable
<1>1. order \in Seq(Name) /\ Len(order) \in Nat
  BY DEF RegistryInv, TypeOK
<1>2. ASSUME NEW n \in Name, NEW d \in Name, <<n, d>> \in DependsOn,
             NEW i \in 1 .. Len(order), order[i] = n
      PROVE  \E j \in 1 .. i - 1 : order[j] = d
  <2>1. PICK k \in 1 .. Len(dependencies[n]) : dependencies[n][k] = d
    BY <1>2 DEF DependsOn
  <2> QED BY <1>2, <2>1 DEF RegistryInv, OrderInv
<1>3. ASSUME NEW e \in DependsOn PROVE e[2] \in Registered
  <2>1. /\ e[1] \in Name /\ e[2] \in Name /\ e = <<e[1], e[2]>> /\ e[1] \in Registered
    BY DEF DependsOn
  <2>2. PICK i \in 1 .. Len(order) : order[i] = e[1]
    BY <2>1 DEF RegistryInv
  <2>3. PICK j \in 1 .. i - 1 : order[j] = e[2]
    BY <1>2, <1>3, <2>1, <2>2
  <2>4. j \in 1 .. Len(order)
    BY <1>1, <2>2, <2>3
  <2> QED BY <2>3, <2>4 DEF RegistryInv, OrderInv
<1>4. ASSUME NEW S \in SUBSET Registered, S # {}
      PROVE  \E n \in S : \A d \in S : <<n, d>> \notin DependsOn
  <2> DEFINE T == {i \in 1 .. Len(order) : order[i] \in S}
  <2>1. T \subseteq Nat /\ T # {}
    <3>1. PICK n \in S : TRUE
      BY <1>4
    <3> QED BY <1>1, <3>1 DEF RegistryInv
  <2>2. PICK i \in T : \A j \in T : ~(j < i)
    <3> HIDE DEF T
    <3> QED BY <2>1, LeastElement
  <2>3. ASSUME NEW d \in S, <<order[i], d>> \in DependsOn PROVE FALSE
    <3>1. order[i] \in Name /\ d \in Name
      BY <2>3 DEF DependsOn
    <3>2. PICK j \in 1 .. i - 1 : order[j] = d
      BY <1>2, <2>2, <2>3, <3>1
    <3>3. j \in T /\ j < i
      BY <1>1, <2>2, <2>3, <3>2
    <3> QED BY <2>2, <3>3
  <2> QED BY <2>2, <2>3
<1> QED BY <1>3, <1>4 DEF Startable

\* service_registry_compute_start_order fails exactly when a registered
\* service depends on a name that is not registered or services depend on
\* each other in a cycle.
THEOREM RefusalCorrect == Spec => []RefusesExactlyTheUnstartable
<1>1. RegistryInv => RefusesExactlyTheUnstartable
  BY OrderedIsStartable DEF RegistryInv, RefusesExactlyTheUnstartable
<1> QED BY <1>1, RegistryCorrect, PTL

\* An injective sequence is as long as the set of its elements is large.
LEMMA InjectiveLength ==
  ASSUME NEW S, NEW s \in Seq(S), \A i, j \in 1 .. Len(s) : s[i] = s[j] => i = j
  PROVE  Cardinality({s[i] : i \in 1 .. Len(s)}) = Len(s)
<1> DEFINE R == {s[i] : i \in 1 .. Len(s)}
<1>1. Len(s) \in Nat /\ s \in [1 .. Len(s) -> R]
  OBVIOUS
<1>2. s \in Injection(1 .. Len(s), R) /\ s \in Surjection(1 .. Len(s), R)
  BY <1>1 DEF Injection, IsInjective, Surjection
<1>3. IsFiniteSet(1 .. Len(s)) /\ Cardinality(1 .. Len(s)) = Len(s)
  <2>1. /\ IsFiniteSet(1 .. Len(s))
        /\ Cardinality(1 .. Len(s)) = IF 1 > Len(s) THEN 0 ELSE Len(s) - 1 + 1
    <3>1. Len(s) \in Int /\ 1 \in Int
      BY <1>1
    <3> QED BY <3>1, FS_Interval, Zenon
  <2> QED BY <1>1, <2>1
<1>4. IsFiniteSet(R)
  BY <1>2, <1>3, FS_Surjection
<1> HIDE DEF R
<1>5. Cardinality(1 .. Len(s)) = Cardinality(R)
  BY <1>2, <1>4, FS_Injection
<1> QED BY <1>3, <1>5 DEF R

\* The order service_registry_compute_start_order returns lists every service
\* once, after all that it depends on: service_registry_start_all starts
\* dependencies first, and service_registry_stop_all, which walks it
\* backwards, stops dependents first.
THEOREM OrderCorrect == Spec => []StartOrderIsTopological
<1>1. ASSUME RegistryInv, result = "ok"
      PROVE  /\ Len(order) = Len(services)
             /\ {order[i] : i \in 1 .. Len(order)} = Registered
             /\ \A i, j \in 1 .. Len(order) : <<order[i], order[j]>> \in DependsOn => j < i
  <2>1. {order[i] : i \in 1 .. Len(order)} = Registered
    BY <1>1 DEF RegistryInv, OrderInv
  <2>2. order \in Seq(Name) /\ services \in Seq(Name)
    BY <1>1 DEF RegistryInv, TypeOK
  <2>3. Cardinality({order[i] : i \in 1 .. Len(order)}) = Len(order)
    <3>1. \A i, j \in 1 .. Len(order) : order[i] = order[j] => i = j
      BY <1>1 DEF RegistryInv, OrderInv
    <3> QED BY <2>2, <3>1, InjectiveLength
  <2>4. Cardinality({services[i] : i \in 1 .. Len(services)}) = Len(services)
    <3>1. \A i, j \in 1 .. Len(services) : services[i] = services[j] => i = j
      <4>1. IsInjective(services) /\ DOMAIN services = 1 .. Len(services)
        BY <1>1, <2>2 DEF RegistryInv, TypeOK
      <4> QED BY <4>1 DEF IsInjective
    <3> QED BY <2>2, <3>1, InjectiveLength
  <2>5. Len(order) = Len(services)
    BY <2>1, <2>3, <2>4 DEF Registered
  <2>6. ASSUME NEW i \in 1 .. Len(order), NEW j \in 1 .. Len(order),
               <<order[i], order[j]>> \in DependsOn
        PROVE  j < i
    <3>1. PICK k \in 1 .. Len(dependencies[order[i]]) : dependencies[order[i]][k] = order[j]
      BY <2>6 DEF DependsOn
    <3>2. PICK l \in 1 .. i - 1 : order[l] = order[j]
      BY <1>1, <3>1 DEF RegistryInv, OrderInv
    <3>3. l \in 1 .. Len(order)
      BY <2>2, <3>2
    <3>4. l = j
      BY <1>1, <3>2, <3>3 DEF RegistryInv, OrderInv
    <3> QED BY <2>2, <3>2, <3>4
  <2> QED BY <2>1, <2>5, <2>6
<1>2. RegistryInv => StartOrderIsTopological
  BY <1>1 DEF StartOrderIsTopological
<1> QED BY <1>2, RegistryCorrect, PTL
=============================================================================
