--------------------------- MODULE PluginsProofs ---------------------------
(***************************************************************************)
(* Proofs about Plugins for any number of instances, systems and threads.  *)
(***************************************************************************)
EXTENDS Plugins, SequenceTheorems, TLAPS

Stages == {"uninitialized", "initializing", "initialized"}
AddingPcs == {"instantiating", "get_manifest", "init"}
SystemIds == [plugin : Nat, id : Nat]

Types ==
  /\ added \in 0 .. MaxInstances
  /\ plugins \in Seq(1 .. added)
  /\ stage \in [Instances -> Stages]
  /\ waiting \in [Instances -> Seq(Nat)]
  /\ registered \in [Instances -> Seq(Nat)]
  /\ owner \in [pc : AddingPcs \union {"idle", "resolving"}, plugin : Nat]
  /\ builder \in Seq(SystemIds)
  /\ scheduled \subseteq SystemIds /\ discarded \subseteq SystemIds
  /\ calling \in [Threads -> SystemIds]

\* What is registered is numbered from 0, waits until it is resolved, and nothing is
\* before init.
Registration ==
  \A p \in Instances :
    /\ Len(registered[p]) <= MaxSystems
    /\ \A i \in DOMAIN registered[p] : registered[p][i] = i - 1
    /\ stage[p] = "initializing" => waiting[p] = registered[p]
    /\ stage[p] = "uninitialized" => registered[p] = <<>>
    /\ p > added => stage[p] = "uninitialized"

\* The instance that is being added is the last one and not in the registry yet.
AddingLast ==
  owner.pc \in AddingPcs =>
    /\ owner.plugin = added /\ added \in Instances
    /\ \A i \in DOMAIN plugins : plugins[i] # added
    /\ stage[added] = IF owner.pc = "init" THEN "initializing" ELSE "uninitialized"

\* The registry has each plugin once, all of them through init; those that
\* resolve_systems has passed are resolved, and those before a resolved one.
InOrder ==
  /\ \A i, k \in DOMAIN plugins : plugins[i] = plugins[k] => i = k
  /\ \A i \in DOMAIN plugins : stage[plugins[i]] # "uninitialized"
  /\ \A i \in DOMAIN plugins : IsResolved(i) => \A k \in 1 .. i : IsResolved(k)
  /\ owner.pc = "resolving" =>
       owner.plugin >= 1 /\ \A k \in DOMAIN plugins : k < owner.plugin => IsResolved(k)

\* The systems of resolved plugins are in one place each, and only they are called.
Placed ==
  /\ \A s \in SystemIds :
       s \in ToSet(builder) \union scheduled \union discarded <=>
         \E i \in DOMAIN plugins :
           IsResolved(i) /\ s.plugin = plugins[i] /\ s.id \in ToSet(registered[s.plugin])
  /\ \A i, k \in DOMAIN builder : builder[i] = builder[k] => i = k
  /\ ToSet(builder) \intersect (scheduled \union discarded) = {}
  /\ scheduled \intersect discarded = {}
  /\ \A t \in Threads : calling[t] \in scheduled \union {NoSystem}

IInv == Types /\ Registration /\ AddingLast /\ InOrder /\ Placed

-----------------------------------------------------------------------------
\* The plugins of the registry are instances that add has made.
LEMMA PluginsAreInstances ==
  ASSUME IInv
  PROVE  \A i \in DOMAIN plugins : plugins[i] \in Instances /\ plugins[i] \in 1 .. added
<1>1. 1 .. added \subseteq Instances
  BY PluginsAssumption DEF IInv, Types, Instances
<1>2. \A i \in DOMAIN plugins : plugins[i] \in 1 .. added
  BY DEF IInv, Types
<1> QED
  BY <1>1, <1>2

\* Appending one vector of systems to another.
LEMMA Concatenation ==
  ASSUME NEW a \in Seq(SystemIds), NEW b \in Seq(SystemIds)
  PROVE  /\ a \o b \in Seq(SystemIds)
         /\ Len(a \o b) = Len(a) + Len(b) /\ Len(a) \in Nat /\ Len(b) \in Nat
         /\ DOMAIN a = 1 .. Len(a) /\ DOMAIN b = 1 .. Len(b) /\ DOMAIN (a \o b) = 1 .. Len(a \o b)
         /\ \A k \in 1 .. Len(a) : (a \o b)[k] = a[k]
         /\ \A k \in 1 .. Len(b) : (a \o b)[Len(a) + k] = b[k]
OBVIOUS

\* A registry without plugins satisfies the invariant.
LEMMA InitEstablishes == Init => IInv
<1> SUFFICES ASSUME Init
             PROVE  IInv
  OBVIOUS
<1> USE PluginsAssumption DEF Init
<1>1. Types
  BY DEF Types, Instances, Stages, AddingPcs, SystemIds, Idle, NoSystem, System, None
<1>2. Registration
  BY DEF Registration, Instances
<1>3. AddingLast
  BY DEF AddingLast, AddingPcs, Idle
<1>4. InOrder
  BY DEF InOrder, Idle
<1>5. Placed
  BY DEF Placed, ToSet, NoSystem
<1> QED
  BY <1>1, <1>2, <1>3, <1>4, <1>5 DEF IInv

\* Only calls of systems and their ends change: the systems stay where they are.
LEMMA CallsKeep ==
  ASSUME IInv, NEW t \in Threads, ThreadStep(t)
  PROVE  IInv'
<1>1. /\ UNCHANGED <<added, plugins, stage, waiting, registered, owner, builder, scheduled, discarded>>
      /\ \E s \in scheduled \union {NoSystem} : calling' = [calling EXCEPT ![t] = s]
  BY DEF ThreadStep, BeginCall, EndCall, CallPanics
<1>2. NoSystem \in SystemIds
  BY DEF NoSystem, System, SystemIds, None
<1>3. Types'
  BY <1>1, <1>2 DEF IInv, Types
<1>4. Registration'
  BY <1>1 DEF IInv, Registration
<1>5. AddingLast'
  BY <1>1 DEF IInv, AddingLast
<1>6. InOrder'
  BY <1>1 DEF IInv, InOrder, IsResolved
<1>7. Placed'
  BY <1>1 DEF IInv, Placed, IsResolved, Types
<1> QED
  BY <1>3, <1>4, <1>5, <1>6, <1>7 DEF IInv

\* In the steps of add, only init's end puts a plugin into the registry.
LEMMA AddKeeps ==
  ASSUME IInv, BeginAdd \/ Instantiated \/ HasManifest \/ Initialized \/ AddFails \/ AddPanics
  PROVE  IInv'
<1> USE PluginsAssumption DEF IInv, Idle, At, AddingPcs
<1>1. CASE BeginAdd
  <2>1. Types'
    <3>1. Seq(1 .. added) \subseteq Seq(1 .. added')
      BY <1>1 DEF BeginAdd, Types
    <3> QED
      BY <1>1, <3>1 DEF BeginAdd, Types
  <2>2. Registration'
    <3>1. added' = added + 1 /\ added \in Nat
      BY <1>1 DEF BeginAdd, Types
    <3>2. \A p \in Instances : p > added' => p > added
      BY <3>1 DEF Instances
    <3>3. UNCHANGED <<stage, waiting, registered>>
      BY <1>1 DEF BeginAdd
    <3> QED
      BY <3>2, <3>3 DEF Registration
  <2>3. AddingLast'
    <3>1. added \in Nat /\ added + 1 \in Instances
      BY <1>1 DEF BeginAdd, Types, Instances
    <3>2. \A i \in DOMAIN plugins : plugins[i] # added + 1
      BY DEF Types
    <3>3. stage[added + 1] = "uninitialized"
      BY <3>1 DEF Registration
    <3> QED
      BY <1>1, <3>1, <3>2, <3>3 DEF BeginAdd, AddingLast
  <2>4. InOrder'
    BY <1>1 DEF BeginAdd, InOrder, IsResolved
  <2>5. Placed'
    BY <1>1 DEF BeginAdd, Placed, IsResolved
  <2> QED
    BY <2>1, <2>2, <2>3, <2>4, <2>5
<1>2. CASE Instantiated \/ AddFails
  <2>1. Types'
    BY <1>2 DEF Instantiated, AddFails, Types, None
  <2>2. Registration'
    BY <1>2 DEF Instantiated, AddFails, Registration
  <2>3. AddingLast'
    BY <1>2 DEF Instantiated, AddFails, AddingLast
  <2>4. InOrder'
    BY <1>2 DEF Instantiated, AddFails, InOrder, IsResolved
  <2>5. Placed'
    BY <1>2 DEF Instantiated, AddFails, Placed, IsResolved
  <2> QED
    BY <2>1, <2>2, <2>3, <2>4, <2>5
<1>3. CASE HasManifest
  <2> DEFINE p == owner.plugin
  <2>1. p = added /\ p \in Instances /\ \A i \in DOMAIN plugins : plugins[i] # p
    BY <1>3 DEF HasManifest, AddingLast
  <2>2. stage[p] = "uninitialized" /\ registered[p] = <<>>
    BY <1>3, <2>1 DEF HasManifest, AddingLast, Registration
  <2>3. /\ stage' = [stage EXCEPT ![p] = "initializing"]
        /\ waiting' = [waiting EXCEPT ![p] = <<>>]
        /\ owner' = [pc |-> "init", plugin |-> p]
        /\ UNCHANGED <<added, plugins, registered, builder, scheduled, discarded, calling>>
    BY <1>3 DEF HasManifest
  <2> HIDE DEF p
  <2>4. Types'
    BY <2>1, <2>3 DEF Types, Stages, Instances
  <2>5. Registration'
    BY <2>1, <2>2, <2>3 DEF Registration, Types
  <2>6. AddingLast'
    BY <2>1, <2>3 DEF AddingLast, Types
  <2>7. \A i \in DOMAIN plugins : plugins[i] \in Instances /\ plugins[i] # p
    BY <2>1, PluginsAreInstances
  <2>8. \A i \in DOMAIN plugins : stage'[plugins[i]] = stage[plugins[i]]
    BY <2>3, <2>7 DEF Types
  <2>9. InOrder'
    BY <2>3, <2>8 DEF InOrder, IsResolved, Types
  <2>10. Placed'
    BY <2>3, <2>8 DEF Placed, IsResolved
  <2> QED
    BY <2>4, <2>5, <2>6, <2>9, <2>10
<1>4. CASE Initialized
  <2> DEFINE p == owner.plugin
  <2>1. p = added /\ p \in 1 .. added /\ p \in Instances
    BY <1>4 DEF Initialized, AddingLast, Instances
  <2>2. stage[p] = "initializing" /\ \A i \in DOMAIN plugins : plugins[i] # p
    BY <1>4, <2>1 DEF Initialized, AddingLast
  <2>3. /\ plugins' = Append(plugins, p)
        /\ owner' = [pc |-> "idle", plugin |-> None]
        /\ UNCHANGED <<added, stage, waiting, registered, builder, scheduled, discarded, calling>>
    BY <1>4 DEF Initialized
  <2>4. /\ DOMAIN plugins = 1 .. Len(plugins) /\ Len(plugins) \in Nat
        /\ DOMAIN plugins' = 1 .. Len(plugins) + 1
        /\ plugins'[Len(plugins) + 1] = p
        /\ \A i \in DOMAIN plugins : plugins'[i] = plugins[i]
    BY <2>1, <2>3 DEF Types
  <2> HIDE DEF p
  <2>5. Types'
    BY <2>1, <2>3 DEF Types, None
  <2>6. Registration'
    BY <2>3 DEF Registration
  <2>7. AddingLast'
    BY <2>3 DEF AddingLast
  <2>8. \A i \in DOMAIN plugins' : IsResolved(i)' <=> i \in DOMAIN plugins /\ IsResolved(i)
    BY <2>2, <2>3, <2>4 DEF IsResolved
  <2>9. InOrder'
    <3>1. \A i, k \in DOMAIN plugins' : plugins'[i] = plugins'[k] => i = k
      BY <2>2, <2>4 DEF InOrder
    <3>2. \A i \in DOMAIN plugins' : stage'[plugins'[i]] # "uninitialized"
      BY <2>2, <2>3, <2>4 DEF InOrder
    <3>3. ASSUME NEW i \in DOMAIN plugins', IsResolved(i)', NEW k \in 1 .. i
          PROVE  IsResolved(k)'
      <4>1. i \in DOMAIN plugins /\ IsResolved(i)
        BY <2>8, <3>3
      <4>2. k \in DOMAIN plugins /\ k \in DOMAIN plugins'
        BY <2>4, <3>3, <4>1
      <4> QED
        BY <2>8, <3>3, <4>1, <4>2 DEF InOrder
    <3> QED
      BY <2>3, <3>1, <3>2, <3>3 DEF InOrder
  <2>10. Placed'
    BY <2>3, <2>4, <2>8 DEF Placed
  <2> QED
    BY <2>5, <2>6, <2>7, <2>9, <2>10
<1>5. CASE AddPanics
  <2>1. Types'
    BY <1>5 DEF AddPanics, Types, None
  <2>2. Registration'
    BY <1>5 DEF AddPanics, Registration
  <2>3. AddingLast'
    BY <1>5 DEF AddPanics, AddingLast
  <2>4. InOrder'
    BY <1>5 DEF AddPanics, InOrder, IsResolved
  <2>5. Placed'
    BY <1>5 DEF AddPanics, Placed, IsResolved
  <2> QED
    BY <2>1, <2>2, <2>3, <2>4, <2>5
<1> QED
  BY <1>1, <1>2, <1>3, <1>4, <1>5

\* A system is registered with the next number, by a plugin that is not resolved.
LEMMA RegisterKeeps ==
  ASSUME IInv, NEW p \in Instances, RegisterSystem(p)
  PROVE  IInv'
<1> DEFINE n == Len(registered[p])
<1>1. stage[p] = "initializing" /\ n < MaxSystems /\ n \in Nat /\ waiting[p] = registered[p]
  BY DEF RegisterSystem, IInv, Types, Registration
<1>2. /\ waiting' = [waiting EXCEPT ![p] = Append(waiting[p], n)]
      /\ registered' = [registered EXCEPT ![p] = Append(registered[p], n)]
      /\ UNCHANGED <<added, plugins, stage, owner, builder, scheduled, discarded, calling>>
  BY <1>1 DEF RegisterSystem
<1>3. \A q \in Instances : q # p => registered'[q] = registered[q] /\ waiting'[q] = waiting[q]
  BY <1>2 DEF IInv, Types
<1>4. /\ registered'[p] = Append(registered[p], n) /\ waiting'[p] = registered'[p]
      /\ registered[p] \in Seq(Nat)
  BY <1>1, <1>2 DEF IInv, Types
<1> HIDE DEF n
<1>5. Types'
  BY <1>1, <1>2 DEF IInv, Types
<1>6. Registration'
  <2>1. Len(registered'[p]) = n + 1 /\ \A i \in 1 .. n : registered'[p][i] = registered[p][i]
    BY <1>4 DEF n
  <2>2. registered'[p][n + 1] = n /\ DOMAIN registered'[p] = 1 .. n + 1 /\ DOMAIN registered[p] = 1 .. n
    BY <1>4 DEF n
  <2>3. \A i \in DOMAIN registered'[p] : registered'[p][i] = i - 1
    BY <1>1, <2>1, <2>2 DEF IInv, Registration
  <2>4. Len(registered'[p]) <= MaxSystems
    BY <1>1, <2>1, PluginsAssumption
  <2> QED
    BY <1>1, <1>2, <1>3, <1>4, <2>3, <2>4 DEF IInv, Registration
<1>7. AddingLast'
  BY <1>2 DEF IInv, AddingLast
<1>8. InOrder'
  BY <1>2 DEF IInv, InOrder, IsResolved
<1>9. \A i \in DOMAIN plugins : IsResolved(i) => plugins[i] # p /\ plugins[i] \in Instances
  <2>1. \A i \in DOMAIN plugins : plugins[i] \in 1 .. added /\ 1 .. added \subseteq Instances
    BY PluginsAssumption DEF IInv, Types, Instances
  <2> QED
    BY <1>1, <2>1 DEF IsResolved
<1>10. Placed'
  BY <1>2, <1>3, <1>9 DEF IInv, Placed, IsResolved
<1> QED
  BY <1>5, <1>6, <1>7, <1>8, <1>10 DEF IInv

-----------------------------------------------------------------------------
\* The steps of resolve_systems that resolve nothing.
LEMMA ResolveEndsKeep ==
  ASSUME IInv, BeginResolve \/ EndResolve
  PROVE  IInv'
<1>1. /\ UNCHANGED <<added, plugins, stage, waiting, registered, builder, scheduled, discarded, calling>>
      /\ owner' \in {Idle, At("resolving", 1)}
  BY DEF BeginResolve, EndResolve
<1>2. owner'.pc \notin AddingPcs /\ (owner'.pc = "resolving" => owner'.plugin = 1)
  BY <1>1 DEF Idle, At, AddingPcs
<1>3. Types'
  BY <1>1 DEF IInv, Types, Idle, At, None
<1>4. Registration'
  BY <1>1 DEF IInv, Registration
<1>5. AddingLast'
  BY <1>2 DEF AddingLast
<1>6. InOrder'
  <2>1. \A k \in DOMAIN plugins : ~(k < 1)
    BY DEF IInv, Types
  <2> QED
    BY <1>1, <1>2, <2>1 DEF IInv, InOrder, IsResolved
<1>7. Placed'
  BY <1>1 DEF IInv, Placed, IsResolved
<1> QED
  BY <1>3, <1>4, <1>5, <1>6, <1>7 DEF IInv

\* The systems of one plugin move from it to the builder, and the plugin is resolved.
LEMMA ResolveKeeps ==
  ASSUME IInv, ResolvePlugin
  PROVE  IInv'
<1> DEFINE i == owner.plugin
           p == plugins[i]
           moved == [k \in DOMAIN registered[p] |-> System(p, registered[p][k])]
<1>1. /\ owner.pc = "resolving" /\ i \in DOMAIN plugins /\ stage[p] = "initializing"
      /\ owner' = [pc |-> "resolving", plugin |-> i + 1]
      /\ stage' = [stage EXCEPT ![p] = "initialized"]
      /\ waiting' = [waiting EXCEPT ![p] = <<>>]
      /\ UNCHANGED <<added, plugins, registered, scheduled, discarded, calling>>
  BY DEF ResolvePlugin, At
<1>2. p \in Instances /\ p \in Nat /\ i \in Nat /\ i >= 1 /\ DOMAIN plugins = 1 .. Len(plugins)
  <2>1. p \in Instances /\ Instances \subseteq Nat
    BY <1>1, PluginsAreInstances, PluginsAssumption DEF Instances
  <2>2. DOMAIN plugins = 1 .. Len(plugins) /\ Len(plugins) \in Nat
    BY DEF IInv, Types
  <2>3. i \in DOMAIN plugins
    BY <1>1
  <2> HIDE DEF i
  <2>4. i \in Nat /\ i >= 1
    BY <2>2, <2>3
  <2> QED
    BY <2>1, <2>2, <2>4, Zenon
<1>3. waiting[p] = registered[p]
  BY <1>1, <1>2 DEF IInv, Registration
<1>4. builder' = builder \o moved
  BY <1>3 DEF ResolvePlugin
<1>5. /\ registered[p] \in Seq(Nat) /\ DOMAIN registered[p] = 1 .. Len(registered[p])
      /\ Len(registered[p]) \in Nat
      /\ \A k \in DOMAIN registered[p] : registered[p][k] = k - 1
  BY <1>2 DEF IInv, Types, Registration
<1>6. moved \in Seq(SystemIds) /\ Len(moved) = Len(registered[p]) /\ DOMAIN moved = DOMAIN registered[p]
  <2>1. \A k \in 1 .. Len(registered[p]) : System(p, registered[p][k]) \in SystemIds
    BY <1>2, <1>5 DEF System, SystemIds
  <2> QED
    BY <1>5, <2>1
<1>7. \A k \in DOMAIN moved : moved[k] = System(p, k - 1)
  BY <1>5, <1>6
<1>8. ToSet(moved) = {System(p, n) : n \in ToSet(registered[p])}
  BY <1>5, <1>6 DEF ToSet
<1>9. \A k \in DOMAIN plugins : IsResolved(k)' <=> IsResolved(k) \/ k = i
  <2>1. \A k \in DOMAIN plugins : plugins[k] \in Instances /\ (plugins[k] = p <=> k = i)
    BY <1>1, PluginsAreInstances DEF IInv, InOrder
  <2>2. \A k \in DOMAIN plugins :
          stage'[plugins[k]] = IF k = i THEN "initialized" ELSE stage[plugins[k]]
    BY <1>1, <2>1 DEF IInv, Types
  <2> QED
    BY <1>1, <2>2 DEF IsResolved
<1>10. \A s \in SystemIds : s.plugin = p => s \notin ToSet(builder) \union scheduled \union discarded
  <2>1. ASSUME NEW k \in DOMAIN plugins, IsResolved(k)
        PROVE  plugins[k] # p
    BY <1>1, <2>1 DEF IsResolved
  <2> QED
    BY <2>1 DEF IInv, Placed
<1> HIDE DEF i, p, moved
<1>11. Types'
  <2>1. builder' \in Seq(SystemIds)
    BY <1>4, <1>6 DEF IInv, Types
  <2>2. stage' \in [Instances -> Stages] /\ waiting' \in [Instances -> Seq(Nat)]
    BY <1>1, <1>2 DEF IInv, Types, Stages
  <2> QED
    BY <1>1, <1>2, <2>1, <2>2 DEF IInv, Types
<1>12. Registration'
  <2>1. ASSUME NEW q \in Instances
        PROVE  /\ stage'[q] = IF q = p THEN "initialized" ELSE stage[q]
               /\ q # p => waiting'[q] = waiting[q]
    BY <1>1, <2>1 DEF IInv, Types
  <2>2. p <= added /\ \A q \in Instances : q > added => q # p
    BY <1>1, <1>2 DEF IInv, Registration, Types, Instances
  <2> QED
    BY <1>1, <2>1, <2>2 DEF IInv, Registration
<1>13. AddingLast'
  BY <1>1 DEF AddingLast, AddingPcs
<1>14. InOrder'
  <2>1. \A k \in DOMAIN plugins : k < i => IsResolved(k)
    BY <1>1 DEF IInv, InOrder, i
  <2>2. \A k \in DOMAIN plugins : k < i + 1 => IsResolved(k)'
    BY <1>2, <1>9, <2>1
  <2>3. ASSUME NEW k \in DOMAIN plugins, IsResolved(k)', NEW j \in 1 .. k
        PROVE  IsResolved(j)'
    <3>1. j \in DOMAIN plugins /\ (k = i => j < i + 1)
      BY <1>2, <2>3
    <3>2. CASE k = i
      BY <2>2, <3>1, <3>2
    <3>3. CASE IsResolved(k)
      BY <1>9, <3>1, <3>3 DEF IInv, InOrder
    <3> QED
      BY <1>9, <2>3, <3>2, <3>3
  <2>4. \A k \in DOMAIN plugins : stage'[plugins[k]] # "uninitialized"
    <3>1. \A k \in DOMAIN plugins : IsResolved(k)' => stage'[plugins[k]] # "uninitialized"
      BY <1>1 DEF IsResolved
    <3>2. \A k \in DOMAIN plugins : ~IsResolved(k)' => stage'[plugins[k]] = stage[plugins[k]]
      <4>1. \A k \in DOMAIN plugins : plugins[k] \in Instances /\ (k # i => plugins[k] # p)
        BY <1>1, PluginsAreInstances DEF IInv, InOrder, p
      <4> QED
        BY <1>1, <1>9, <4>1 DEF IInv, Types
    <3> QED
      BY <1>1, <3>1, <3>2 DEF IInv, InOrder
  <2>5. DOMAIN plugins' = DOMAIN plugins /\ plugins' = plugins
    BY <1>1
  <2>6. \A k, j \in DOMAIN plugins' : plugins'[k] = plugins'[j] => k = j
    BY <2>5 DEF IInv, InOrder
  <2>7. owner'.plugin >= 1 /\ \A k \in DOMAIN plugins' : k < owner'.plugin => IsResolved(k)'
    BY <1>1, <1>2, <2>2, <2>5
  <2>8. \A k \in DOMAIN plugins' : IsResolved(k)' => \A j \in 1 .. k : IsResolved(j)'
    BY <2>3, <2>5
  <2> QED
    BY <2>4, <2>5, <2>6, <2>7, <2>8 DEF InOrder
<1>15. Placed'
  <2> builder \in Seq(SystemIds)
    BY DEF IInv, Types
  <2>0. /\ Len(builder') = Len(builder) + Len(moved)
        /\ \A k \in 1 .. Len(builder) : builder'[k] = builder[k]
        /\ \A k \in 1 .. Len(moved) : builder'[Len(builder) + k] = moved[k]
        /\ Len(builder) \in Nat /\ Len(moved) \in Nat
        /\ DOMAIN builder = 1 .. Len(builder) /\ DOMAIN moved = 1 .. Len(moved)
        /\ DOMAIN builder' = 1 .. Len(builder')
    BY <1>4, <1>6, Concatenation, Zenon
  <2>1. ToSet(builder') = ToSet(builder) \union ToSet(moved)
    <3>2. ASSUME NEW k \in DOMAIN builder'
          PROVE  builder'[k] \in ToSet(builder) \union ToSet(moved)
      <4>1. k \in 1 .. Len(builder) \/ k - Len(builder) \in 1 .. Len(moved)
        BY <2>0
      <4>2. CASE k \in 1 .. Len(builder)
        BY <2>0, <4>2 DEF ToSet
      <4>3. CASE k - Len(builder) \in 1 .. Len(moved)
        <5>1. builder'[Len(builder) + (k - Len(builder))] = moved[k - Len(builder)]
          BY <2>0, <4>3
        <5>2. Len(builder) + (k - Len(builder)) = k
          BY <2>0
        <5> QED
          BY <2>0, <4>3, <5>1, <5>2 DEF ToSet
      <4> QED
        BY <4>1, <4>2, <4>3
    <3>3. \A k \in 1 .. Len(moved) : Len(builder) + k \in DOMAIN builder'
      BY <2>0
    <3>4. \A k \in DOMAIN builder : builder[k] \in ToSet(builder')
      BY <2>0 DEF ToSet
    <3>5. \A k \in DOMAIN moved : moved[k] \in ToSet(builder')
      BY <2>0, <3>3 DEF ToSet
    <3> QED
      BY <3>2, <3>4, <3>5 DEF ToSet
  <2>2. \A s \in SystemIds : s \in ToSet(moved) <=> s.plugin = p /\ s.id \in ToSet(registered[p])
    <3>1. \A s \in SystemIds : s = System(s.plugin, s.id)
      BY DEF System, SystemIds
    <3>2. \A n : System(p, n).plugin = p /\ System(p, n).id = n
      BY DEF System
    <3> QED
      BY <1>8, <3>1, <3>2
  <2>3. ToSet(moved) \subseteq SystemIds
    BY <1>6 DEF ToSet
  <2>4. ToSet(moved) \intersect (ToSet(builder) \union scheduled \union discarded) = {}
    BY <1>10, <2>2, <2>3
  <2>5. ASSUME NEW s \in SystemIds
        PROVE  s \in ToSet(builder') \union scheduled' \union discarded' <=>
                 \E k \in DOMAIN plugins' :
                   IsResolved(k)' /\ s.plugin = plugins'[k] /\ s.id \in ToSet(registered'[s.plugin])
    <3>1. s \in ToSet(builder') \union scheduled' \union discarded' <=>
            \/ s \in ToSet(builder) \union scheduled \union discarded
            \/ s.plugin = p /\ s.id \in ToSet(registered[p])
      BY <1>1, <2>1, <2>2
    <3>2. i \in DOMAIN plugins /\ plugins[i] = p
      BY <1>1 DEF p
    <3>3. s \in ToSet(builder) \union scheduled \union discarded <=>
            \E k \in DOMAIN plugins :
              IsResolved(k) /\ s.plugin = plugins[k] /\ s.id \in ToSet(registered[s.plugin])
      BY DEF IInv, Placed
    <3> QED
      BY <1>1, <1>9, <3>1, <3>2, <3>3
  <2>6. \A k, j \in DOMAIN builder' : builder'[k] = builder'[j] => k = j
    <3> DEFINE n == Len(builder)
    <3>2. \A k \in DOMAIN builder' :
            \/ k \in DOMAIN builder /\ builder'[k] = builder[k] /\ builder[k] \in ToSet(builder)
            \/ k - n \in DOMAIN moved /\ builder'[k] = moved[k - n] /\ moved[k - n] \in ToSet(moved)
      <4>1. \A k \in DOMAIN builder' : k \in 1 .. n \/ (k - n \in 1 .. Len(moved) /\ n + (k - n) = k)
        BY <2>0
      <4> QED
        BY <2>0, <4>1 DEF ToSet
    <3>3. \A k, j \in DOMAIN moved : moved[k] = moved[j] => k = j
      <4>1. \A k, j \in DOMAIN moved : System(p, k - 1) = System(p, j - 1) => k - 1 = j - 1
        BY DEF System
      <4>2. \A k \in DOMAIN moved : k \in Int
        BY <1>5, <1>6
      <4> QED
        BY <1>7, <4>1, <4>2
    <3>4. \A k, j \in DOMAIN builder : builder[k] = builder[j] => k = j
      BY DEF IInv, Placed
    <3>5. n \in Int /\ \A k \in DOMAIN builder' : k \in Int
      BY <2>0
    <3> HIDE DEF n
    <3> SUFFICES ASSUME NEW k \in DOMAIN builder', NEW j \in DOMAIN builder', builder'[k] = builder'[j]
                 PROVE  k = j
      OBVIOUS
    <3>6. CASE k \in DOMAIN builder /\ j \in DOMAIN builder /\ builder'[k] = builder[k] /\ builder'[j] = builder[j]
      BY <3>4, <3>6
    <3>7. CASE k - n \in DOMAIN moved /\ j - n \in DOMAIN moved /\ builder'[k] = moved[k - n] /\ builder'[j] = moved[j - n]
      <4>1. k - n = j - n
        BY <3>3, <3>7
      <4> QED
        BY <3>5, <4>1
    <3>8. ~(builder'[k] \in ToSet(builder) /\ builder'[j] \in ToSet(moved))
          /\ ~(builder'[j] \in ToSet(builder) /\ builder'[k] \in ToSet(moved))
      BY <2>4
    <3> QED
      BY <3>2, <3>6, <3>7, <3>8
  <2> QED
    BY <1>1, <2>1, <2>4, <2>5, <2>6 DEF IInv, Placed
<1> QED
  BY <1>11, <1>12, <1>13, <1>14, <1>15 DEF IInv

\* A builder is built or dropped: its systems go to one place together.
LEMMA BuilderKeeps ==
  ASSUME IInv, Schedule \/ DropBuilder
  PROVE  IInv'
<1>1. /\ UNCHANGED <<added, plugins, stage, waiting, registered, owner, calling>>
      /\ builder' = <<>>
      /\ \/ scheduled' = scheduled \union ToSet(builder) /\ discarded' = discarded
         \/ discarded' = discarded \union ToSet(builder) /\ scheduled' = scheduled
  BY DEF Schedule, DropBuilder
<1>2. ToSet(builder) \subseteq SystemIds
  BY DEF IInv, Types, ToSet
<1>3. Types'
  BY <1>1, <1>2 DEF IInv, Types
<1>4. Registration'
  BY <1>1 DEF IInv, Registration
<1>5. AddingLast'
  BY <1>1 DEF IInv, AddingLast
<1>6. InOrder'
  BY <1>1 DEF IInv, InOrder, IsResolved
<1>7. Placed'
  <2>1. builder' = <<>> /\ ToSet(builder') = {} /\ DOMAIN builder' = {}
    BY <1>1 DEF ToSet
  <2>2. /\ scheduled' \union discarded' = ToSet(builder) \union scheduled \union discarded
        /\ scheduled' \intersect discarded' = {} /\ scheduled \subseteq scheduled'
    BY <1>1 DEF IInv, Placed
  <2> QED
    BY <1>1, <2>1, <2>2 DEF IInv, Placed, IsResolved
<1> QED
  BY <1>3, <1>4, <1>5, <1>6, <1>7 DEF IInv

\* The invariant holds throughout.
LEMMA Inductive == Spec => []IInv
<1>1. Init => IInv
  BY InitEstablishes
<1>2. ASSUME IInv, [Next]_vars
      PROVE  IInv'
  <2>1. CASE UNCHANGED vars
    BY <1>2, <2>1 DEF vars, IInv, Types, Registration, AddingLast, InOrder, Placed, IsResolved
  <2>2. CASE OwnerStep
    BY <1>2, <2>2, AddKeeps, ResolveEndsKeep, ResolveKeeps, BuilderKeeps DEF OwnerStep
  <2>3. ASSUME NEW p \in Instances, RegisterSystem(p)
        PROVE  IInv'
    BY <1>2, <2>3, RegisterKeeps
  <2>4. ASSUME NEW t \in Threads, ThreadStep(t)
        PROVE  IInv'
    BY <1>2, <2>4, CallsKeep
  <2> QED
    BY <1>2, <2>1, <2>2, <2>3, <2>4 DEF Next
<1> QED
  BY <1>1, <1>2, PTL DEF Spec

\* For any number of plugins, systems and threads: register_system accepts systems
\* of a plugin whose code runs if and only if add is in init of it.
THEOREM RegistersInInitOnly == Spec => []RegisteredInInitOnly
<1>1. ASSUME IInv
      PROVE  RegisteredInInitOnly
  <2> SUFFICES ASSUME NEW p \in Instances, Runs(p)
               PROVE  stage[p] = "initializing" <=> owner = At("init", p)
    BY DEF RegisteredInInitOnly
  <2>1. CASE owner.pc \in AddingPcs /\ owner.plugin = p
    <3>1. owner = [pc |-> owner.pc, plugin |-> p] /\ p = added
      BY <1>1, <2>1 DEF IInv, Types, AddingLast
    <3>2. stage[p] = IF owner.pc = "init" THEN "initializing" ELSE "uninitialized"
      BY <1>1, <2>1, <3>1 DEF IInv, AddingLast
    <3> QED
      BY <3>1, <3>2 DEF At
  <2>2. CASE HeldByThread(p)
    <3>1. PICK t \in Threads : calling[t].plugin = p
      BY <2>2 DEF HeldByThread
    <3>2. calling[t] # NoSystem
      BY <3>1, PluginsAssumption DEF NoSystem, System, None, Instances
    <3>3. calling[t] \in scheduled /\ calling[t] \in SystemIds
      BY <1>1, <3>2 DEF IInv, Placed, Types
    <3>4. PICK i \in DOMAIN plugins : IsResolved(i) /\ p = plugins[i]
      BY <1>1, <3>1, <3>3 DEF IInv, Placed
    <3>5. stage[p] = "initialized"
      BY <3>4 DEF IsResolved
    <3>6. owner # At("init", p)
      <4>1. CASE owner = At("init", p)
        <5>1. owner.pc = "init" /\ owner.plugin = p
          BY <4>1 DEF At
        <5>2. p = added /\ stage[added] = "initializing"
          BY <1>1, <5>1 DEF IInv, AddingLast, AddingPcs
        <5> QED
          BY <3>5, <5>2
      <4> QED
        BY <4>1
    <3> QED
      BY <3>5, <3>6
  <2> QED
    BY <2>1, <2>2 DEF Runs, AddingPcs
<1> QED
  BY <1>1, Inductive, PTL

\* For any number of plugins, systems and threads: no system is lost or doubled on
\* its way from a plugin to a schedule.
THEOREM SystemsAlwaysAccounted == Spec => []SystemsAccounted
<1>1. ASSUME IInv
      PROVE  SystemsAccounted
  <2>1. \A i \in DOMAIN plugins : plugins[i] \in Instances
    BY <1>1, PluginsAreInstances
  <2>2. ASSUME NEW i \in DOMAIN plugins
        PROVE  /\ IsInjective(registered[plugins[i]])
               /\ ~IsResolved(i) => waiting[plugins[i]] = registered[plugins[i]]
               /\ IsResolved(i) => \A k \in 1 .. i : IsResolved(k)
    <3> DEFINE p == plugins[i]
    <3>1. p \in Instances /\ registered[p] \in Seq(Nat)
      BY <1>1, <2>1 DEF IInv, Types
    <3>2. \A k \in DOMAIN registered[p] : k \in Int /\ registered[p][k] = k - 1
      BY <1>1, <3>1 DEF IInv, Registration
    <3>3. IsInjective(registered[p])
      BY <3>2 DEF IsInjective
    <3>4. ~IsResolved(i) => stage[p] = "initializing"
      BY <1>1, <3>1 DEF IInv, Types, InOrder, Stages, IsResolved
    <3> QED
      BY <1>1, <3>1, <3>3, <3>4 DEF IInv, Registration, InOrder
  <2>3. \A s \in SystemIds :
          s \in ToSet(builder) \union scheduled \union discarded <=> s \in Resolved
    <3>1. [plugin : Instances, id : 0 .. MaxSystems] \subseteq SystemIds
      BY PluginsAssumption DEF SystemIds, Instances
    <3>2. ASSUME NEW s \in SystemIds, NEW i \in DOMAIN plugins,
                 s.plugin = plugins[i], s.id \in ToSet(registered[s.plugin])
          PROVE  s \in [plugin : Instances, id : 0 .. MaxSystems]
      <4>1. s.plugin \in Instances /\ registered[s.plugin] \in Seq(Nat)
        BY <1>1, <2>1, <3>2 DEF IInv, Types
      <4>2. PICK k \in DOMAIN registered[s.plugin] : registered[s.plugin][k] = s.id
        BY <3>2 DEF ToSet
      <4>3. k \in 1 .. Len(registered[s.plugin]) /\ Len(registered[s.plugin]) \in Nat
        BY <4>1, <4>2
      <4>4. s.id = k - 1 /\ Len(registered[s.plugin]) <= MaxSystems
        BY <1>1, <4>1, <4>2 DEF IInv, Registration
      <4>5. s.id \in 0 .. MaxSystems
        BY <4>3, <4>4, PluginsAssumption
      <4> QED
        BY <4>1, <4>5 DEF SystemIds
    <3> QED
      BY <1>1, <3>1, <3>2 DEF IInv, Placed, Resolved
  <2>4. ToSet(builder) \union scheduled \union discarded \subseteq SystemIds
    BY <1>1 DEF IInv, Types, ToSet
  <2>5. Resolved \subseteq SystemIds
    BY PluginsAssumption DEF Resolved, SystemIds, Instances
  <2>6. IsInjective(builder)
    BY <1>1 DEF IInv, Placed, IsInjective
  <2> QED
    BY <1>1, <2>2, <2>3, <2>4, <2>5, <2>6 DEF IInv, Placed, SystemsAccounted
<1> QED
  BY <1>1, Inductive, PTL

=============================================================================
