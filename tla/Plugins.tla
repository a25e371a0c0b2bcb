------------------------------ MODULE Plugins ------------------------------
(***************************************************************************)
(* Plugins of WebAssembly: plugins/registry.rs and plugins/system.rs.  The *)
(* owner of a PluginRegistry adds plugins, moves the systems that they     *)
(* registered into a ScheduleBuilder, and builds schedules; the threads of *)
(* schedulers call systems, also while the owner goes on.  A plugin's code *)
(* may call the host, trap, or return, at any time that it runs; wasmtime  *)
(* itself is external, and a panic of the host unwinds through it.         *)
(*                                                                         *)
(* An instance is one PluginStore with its Mutex<Plugin>: one for each     *)
(* call of PluginRegistry::add, in the order of the calls.                 *)
(***************************************************************************)
EXTENDS Naturals, SequencesExt

CONSTANTS
  Threads,       \* the threads that call systems
  MaxInstances,  \* bound on the calls of PluginRegistry::add
  MaxSystems     \* bound on the systems that an instance registers

ASSUME PluginsAssumption == MaxInstances \in Nat /\ MaxSystems \in Nat

Instances == 1 .. MaxInstances
None == 0
Owner == "owner"  \* the thread that owns the registry, as the holder of a lock

ASSUME OwnerAssumption == Owner \notin Threads

VARIABLES
  added,      \* how many times add was called
  plugins,    \* PluginRegistry::plugins
  stage,      \* PluginStore::stage of each instance
  waiting,    \* PluginStoreStage::Initializing::systems
  registered, \* PluginStore::system_map: the IDs that register_system gave out, in order
  poisoned,   \* whether the mutex of an instance is poisoned
  owner,      \* what the owner does
  builder,    \* the systems in its ScheduleBuilder
  scheduled,  \* the systems in schedulers
  discarded,  \* the systems of builders that were dropped
  calling     \* the system that each thread is in

vars == <<added, plugins, stage, waiting, registered, poisoned, owner, builder, scheduled,
          discarded, calling>>

System(p, id) == [plugin |-> p, id |-> id]
NoSystem == System(None, None)

Idle == [pc |-> "idle", plugin |-> None]
At(pc, p) == [pc |-> pc, plugin |-> p]

\* A thread keeps the mutex of its system's plugin until the call ends.
HeldByThread(p) == \E t \in Threads : calling[t].plugin = p

Init ==
  /\ added = 0
  /\ plugins = <<>>
  /\ stage = [p \in Instances |-> "uninitialized"]
  /\ waiting = [p \in Instances |-> <<>>]
  /\ registered = [p \in Instances |-> <<>>]
  /\ poisoned = [p \in Instances |-> FALSE]
  /\ owner = Idle
  /\ builder = <<>>
  /\ scheduled = {} /\ discarded = {}
  /\ calling = [t \in Threads |-> NoSystem]

-----------------------------------------------------------------------------
(* PluginRegistry::add, and what the plugin does in it.                     *)

\* Mutant: the stage is set before the manifest is asked for.
BeginAddInitializing ==
  /\ owner = Idle /\ added < MaxInstances
  /\ added' = added + 1
  /\ stage' = [stage EXCEPT ![added + 1] = "initializing"]
  /\ owner' = At("instantiating", added + 1)
  /\ UNCHANGED <<plugins, waiting, registered, poisoned, builder, scheduled, discarded, calling>>

BeginAdd ==
  /\ owner = Idle /\ added < MaxInstances
  /\ added' = added + 1
  /\ owner' = At("instantiating", added + 1)
  /\ UNCHANGED <<plugins, stage, waiting, registered, poisoned, builder, scheduled, discarded,
                 calling>>

Instantiated ==
  /\ owner.pc = "instantiating"
  /\ owner' = At("get_manifest", owner.plugin)
  /\ UNCHANGED <<added, plugins, stage, waiting, registered, poisoned, builder, scheduled,
                 discarded, calling>>

HasManifest ==
  /\ owner.pc = "get_manifest"
  /\ stage' = [stage EXCEPT ![owner.plugin] = "initializing"]
  /\ waiting' = [waiting EXCEPT ![owner.plugin] = <<>>]
  /\ owner' = At("init", owner.plugin)
  /\ UNCHANGED <<added, plugins, registered, poisoned, builder, scheduled, discarded, calling>>

Initialized ==
  /\ owner.pc = "init"
  /\ plugins' = Append(plugins, owner.plugin)
  /\ owner' = Idle
  /\ UNCHANGED <<added, stage, waiting, registered, poisoned, builder, scheduled, discarded,
                 calling>>

\* An error or a trap: add returns before it pushes the plugin.
AddFails ==
  /\ owner.pc \in {"instantiating", "get_manifest", "init"}
  /\ owner' = Idle
  /\ UNCHANGED <<added, plugins, stage, waiting, registered, poisoned, builder, scheduled,
                 discarded, calling>>

\* The host panics and add with it; the guard of the lock poisons the mutex.
AddPanics ==
  /\ owner.pc \in {"instantiating", "get_manifest", "init"}
  /\ poisoned' = [poisoned EXCEPT ![owner.plugin] = owner.pc # "instantiating"]
  /\ owner' = Idle
  /\ UNCHANGED <<added, plugins, stage, waiting, registered, builder, scheduled, discarded,
                 calling>>

-----------------------------------------------------------------------------
(* The host functions, called by a plugin whose code runs.                  *)

Runs(p) ==
  \/ owner.pc \in {"instantiating", "get_manifest", "init"} /\ owner.plugin = p
  \/ HeldByThread(p)

\* register_system.  In any other stage it returns OutsideInit and changes nothing.
RegisterSystem(p) ==
  LET id == Len(waiting[p])
  IN  /\ Runs(p) /\ stage[p] = "initializing"
      /\ Len(registered[p]) < MaxSystems
      /\ waiting' = [waiting EXCEPT ![p] = Append(@, id)]
      /\ registered' = [registered EXCEPT ![p] = Append(@, id)]
      /\ UNCHANGED <<added, plugins, stage, poisoned, owner, builder, scheduled, discarded, calling>>

-----------------------------------------------------------------------------
(* PluginRegistry::resolve_systems, one plugin after the other.  What the   *)
(* owner does with its builder does not depend on the result.               *)

BeginResolve ==
  /\ owner = Idle
  /\ owner' = At("resolving", 1)
  /\ UNCHANGED <<added, plugins, stage, waiting, registered, poisoned, builder, scheduled,
                 discarded, calling>>

\* Mutant: the systems are moved and the stage stays.
ResolveQuietly ==
  LET p == plugins[owner.plugin]
  IN  /\ owner.pc = "resolving" /\ owner.plugin \in DOMAIN plugins
      /\ ~HeldByThread(p) /\ ~poisoned[p] /\ stage[p] = "initializing"
      /\ owner' = At("resolving", owner.plugin + 1)
      /\ builder' = builder \o [i \in DOMAIN waiting[p] |-> System(p, waiting[p][i])]
      /\ waiting' = [waiting EXCEPT ![p] = <<>>]
      /\ UNCHANGED <<added, plugins, stage, registered, poisoned, scheduled, discarded, calling>>

ResolvePlugin ==
  LET p == plugins[owner.plugin]
  IN  /\ owner.pc = "resolving" /\ owner.plugin \in DOMAIN plugins
      /\ ~HeldByThread(p) /\ ~poisoned[p] /\ stage[p] = "initializing"
      /\ owner' = At("resolving", owner.plugin + 1)
      /\ builder' = builder \o [i \in DOMAIN waiting[p] |-> System(p, waiting[p][i])]
      /\ waiting' = [waiting EXCEPT ![p] = <<>>]
      /\ stage' = [stage EXCEPT ![p] = "initialized"]
      /\ UNCHANGED <<added, plugins, registered, poisoned, scheduled, discarded, calling>>

\* The end of the loop, or Poisoned or AlreadyInitialized at the next plugin: the
\* plugins before it have been resolved, and those behind it are not.
EndResolve ==
  /\ owner.pc = "resolving"
  /\ owner.plugin \in DOMAIN plugins =>
       LET p == plugins[owner.plugin]
       IN  ~HeldByThread(p) /\ (poisoned[p] \/ stage[p] # "initializing")
  /\ owner' = Idle
  /\ UNCHANGED <<added, plugins, stage, waiting, registered, poisoned, builder, scheduled,
                 discarded, calling>>

Schedule ==
  /\ owner = Idle /\ builder # <<>>
  /\ scheduled' = scheduled \union ToSet(builder)
  /\ builder' = <<>>
  /\ UNCHANGED <<added, plugins, stage, waiting, registered, poisoned, owner, discarded, calling>>

DropBuilder ==
  /\ owner = Idle /\ builder # <<>>
  /\ discarded' = discarded \union ToSet(builder)
  /\ builder' = <<>>
  /\ UNCHANGED <<added, plugins, stage, waiting, registered, poisoned, owner, scheduled, calling>>

-----------------------------------------------------------------------------
(* WasmSystem::call.  A thread that finds the mutex poisoned panics at once. *)

BeginCall(t, s) ==
  /\ calling[t] = NoSystem
  /\ ~HeldByThread(s.plugin) /\ ~poisoned[s.plugin]
  /\ calling' = [calling EXCEPT ![t] = s]
  /\ UNCHANGED <<added, plugins, stage, waiting, registered, poisoned, owner, builder, scheduled,
                 discarded>>

\* The plugin returns, or traps, which is only logged.
EndCall(t) ==
  /\ calling[t] # NoSystem
  /\ calling' = [calling EXCEPT ![t] = NoSystem]
  /\ UNCHANGED <<added, plugins, stage, waiting, registered, poisoned, owner, builder, scheduled,
                 discarded>>

\* The plugin calls a host function that is a todo!.
CallPanics(t) ==
  /\ calling[t] # NoSystem
  /\ poisoned' = [poisoned EXCEPT ![calling[t].plugin] = TRUE]
  /\ calling' = [calling EXCEPT ![t] = NoSystem]
  /\ UNCHANGED <<added, plugins, stage, waiting, registered, owner, builder, scheduled, discarded>>

OwnerStep ==
  \/ BeginAdd \/ Instantiated \/ HasManifest \/ Initialized \/ AddFails \/ AddPanics
  \/ BeginResolve \/ ResolvePlugin \/ EndResolve
  \/ Schedule \/ DropBuilder

ThreadStep(t) == (\E s \in scheduled : BeginCall(t, s)) \/ EndCall(t) \/ CallPanics(t)

Next ==
  \/ OwnerStep
  \/ \E p \in Instances : RegisterSystem(p)
  \/ \E t \in Threads : ThreadStep(t)

Spec == Init /\ [][Next]_vars

-----------------------------------------------------------------------------
\* wit/api.wit:51 "This function can only be called during initialization, all calls
\* outside of `init` will fail": whenever code of a plugin runs, in add or in a call of
\* one of its systems, register_system accepts systems if and only if add is in init.
RegisteredInInitOnly ==
  \A p \in Instances :
    Runs(p) => (stage[p] = "initializing" <=> owner = At("init", p))

IsResolved(i) == stage[plugins[i]] = "initialized"

\* The systems of the plugins that resolve_systems has reached.
Resolved ==
  {s \in [plugin : Instances, id : 0 .. MaxSystems] :
     \E i \in DOMAIN plugins :
       IsResolved(i) /\ s.plugin = plugins[i] /\ s.id \in ToSet(registered[s.plugin])}

\* No system is lost or doubled between the plugins and the schedules: those of a
\* plugin wait until resolve_systems has reached it and then are each in one place, a
\* builder or a schedule, if no builder was dropped.  IDs are unique in their plugin.
\* A call of resolve_systems that failed half way has resolved the plugins before.
SystemsAccounted ==
  /\ \A i \in DOMAIN plugins :
       /\ IsInjective(registered[plugins[i]])
       /\ ~IsResolved(i) => waiting[plugins[i]] = registered[plugins[i]]
       /\ IsResolved(i) => \A k \in 1 .. i : IsResolved(k)
  /\ ToSet(builder) \union scheduled \union discarded = Resolved
  /\ IsInjective(builder)
  /\ ToSet(builder) \intersect (scheduled \union discarded) = {}
  /\ scheduled \intersect discarded = {}

=============================================================================
