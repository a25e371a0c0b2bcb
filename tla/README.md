# Verification of bedrock-ecs

`bedrock-ecs` is an archetype-based entity component system written in Rust. This
directory holds TLA+ modules that model it, configurations with which TLC checks
them on small instances, and proofs that TLAPS checks for every value of the
constants. Paths below are relative to `crates/`; a line number is of the commit
that the modules were written from.

## 1. The system

### Parts

| Part | Source | State | Operations | Modelled in |
|---|---|---|---|---|
| Entity registry | `core/src/entity/registry.rs`, `handle.rs` | `next_id`, `freelist`, `generations`, `sparse`, `dense` | `allocate`, `spawn`, `despawn`, `get_meta`, `is_alive`, `set_meta`, `set_row_meta`, `alive_count` | `EntityRegistry`, `Entities`, `LiveHandles` |
| Tables, columns | `core/src/table/table.rs`, `column.rs` | `entities`, `entity_lookup`, `columns`, `signature` | `new_subset`, `insert`, `remove`, column `push`, `copy_component`, `swap_remove` | `Tables` |
| Component bundles | `core/src/component/component.rs`, `registry.rs` | type IDs given on first use | signatures, `new_table`, `new_joined_table`, `insert_into` | `Tables` |
| Archetypes | `core/src/archetype/registry.rs` | `tables`, `lookup`, `lookup_array`, `generation` | `spawn`, `insert`, `remove`, `despawn`, `has_components`, `cache_tables` | `World`; `cache_tables` in `Queries` |
| World | `core/src/world.rs`, `entity/entity.rs` | registry, archetypes, resources, command pool, `current_tick` | `spawn`, `despawn`, `get_entity_mut` with `insert`, `remove`, `despawn`, `has` | `World`, `EcsMap` |
| Scheduler | `core/src/scheduler/{graph,schedule,scheduler}.rs` | dependency graph, static and current in-degrees | `schedule`, `run`, `run_system` | `Scheduler`, `SystemOrder` |
| Systems | `core/src/system/{system,args}.rs` | the state of each argument, `last_ran` | `init`, `call`, `access` | `Systems`, `Accesses`; one query as the argument in `Queries`; a call is an interval of `Scheduler` |
| Resources | `core/src/resource/{registry,resource}.rs` | `storage`, a map of boxes | `insert`, `get`, `get_ptr`, the arguments `Res` and `ResMut` | `Systems` |
| Messages | `core/src/message/{mailbox,inbox}.rs` | `current`, `previous`, `prev_index`, `next_index`; the index of each inbox | `send`, `get`, `count_unread`, the arguments `Inbox` and `Outbox` | `Mailboxes`, `Systems`, `SystemsMessages`, `MessageLog` |
| `Local`, `Time` | `core/src/local.rs`, `time.rs` | a value; the ticks of a system | the arguments `Local` and `TickInfo` | `Systems` |
| Signatures | `core/src/archetype/signature.rs` | words of bits | `set`, `unset`, `union`, `remove`, `contains`, `is_disjoint` | `Signatures`, `ComponentSets`; sets of component types in `Tables` |
| Change tracking | `core/src/table/change.rs` | added and changed tick of each row | `resize`, `Mut::deref_mut`, the filters `Added` and `Changed` | `ChangeTicks` |
| Queries | `core/src/query/*.rs` | cached tables, `next_scan`, `generation`, `last_run_tick` | `new`, `before_update`, iteration from both ends and in parallel, filters | `Queries`, `Filters` |
| Commands | `core/src/command/*.rs` | queues of boxed commands, deferred IDs | none that changes the world | not modelled |
| Borrow enforcer | `core/src/util.rs` | two atomic counters, the mutexes of `holder` and `last_call` | `read`, `write`, copies and drops of guards | `BorrowEnforcer` |
| Plugins | `core/src/plugins/*.rs` | the plugins; stage, waiting systems and mutex of each | `add`, `register_system`, `resolve_systems`, `call` | `Plugins` |
| Sparse set | `core/src/sparse/set.rs` | two vectors | get, insert, remove | not modelled |
| Derives, reflection | `derive`, `reflect` | none | code generation; a stub of `todo!` | not modelled |

### How the parts interact

A `World` owns everything. `World::spawn` allocates a handle, asks `Archetypes`
for the table of the bundle's signature (added if there is none), appends a row to
it and records table and row in the registry. `EntityMut::insert` and `remove`
copy the row into the table of the other signature, remove it from the old one by
`swap_remove`, and set the metadata; because the swap moves another entity,
`Table::remove` writes the registry too. All of these take `&mut World`, so that
they exclude each other: what is hard in them is not concurrency but that four
structures (the registry's `dense`, its `sparse`, the table's `entity_lookup`, the
columns) must agree after any sequence of calls.

A schedule is built once from the accesses the systems declare. `Scheduler::run`
resets the in-degrees and, in a `rayon::scope`, looks at them one after another to
spawn the systems that wait for nothing; each task calls its system and lowers the
in-degrees of its dependents, spawning those that reach 0. The loop and the tasks
run concurrently and share the counters.

A call of a system fetches its arguments (`before_update`), runs the body, and ends
them (`after_update`). `Res`, `ResMut`, `Inbox` and `Outbox` reach into the world's
map of resources through references and raw pointers that nothing checks: that two
calls do not meet on one resource follows from the accesses that the arguments
declare and from the scheduler's order. A mailbox is a resource too. Its messages are
appended by `Outbox::send`, or through `ResMut`, and read at the index that each
`Inbox` keeps over calls. A panic in a system ends its task, and `rayon::scope`
resumes it when all others have ended.

Queries keep a cache of matching tables, refreshed when the generation of
`Archetypes` differs from the one they saw.

A `PluginRegistry` has an owner, who adds plugins and moves the systems that they
registered into a `ScheduleBuilder`. Such a system calls its plugin under the
plugin's mutex, on the threads of a scheduler, and the plugin's code calls back into
the host: in `add`, or in a call of a system.

### What is hard to get right, and what makes each part correct

* **Handles.** An index is recycled; the generation must keep an old handle from
  reaching the new entity, through a freelist and two vectors that despawning
  permutes. Correct: a handle is live from its spawn to its despawn and never again.
* **Moves.** A move touches two tables, the registry entry of the moved entity and
  that of the entity that fills the hole, which may be the same. Correct: every
  entity is in one row of one table, its metadata names that row, and all columns
  of the row hold its values.
* **Archetypes.** Tables are created by four different paths. Correct: one table
  per signature, with the columns of its signature, found by `lookup`, counted by
  `generation`.
* **Schedules.** The builder keeps the last writers and the readers since; a
  forgotten edge shows only if threads overlap. Correct: conflicting systems are
  called one after the other in schedule order, everything else may overlap, and a
  run ends having called every system once.
* **The seeding race.** The loop reads counters that tasks are lowering.
* **Queries.** Correct: a cache holds exactly the matching tables, an iteration
  yields every matching row once, and the parts of a split are disjoint.
* **Change ticks.** They lie in vectors beside a column and are resized by pushes
  only, while rows are swapped and removed. Correct: a row has the ticks of its
  component, and the filters miss no change between two calls of a system.
* **Signatures.** Vectors of words of different lengths stand for sets. Correct: each
  operation is that on sets, and one set has one signature.
* **A run with a panic.** Correct: what must wait for the system that panicked is
  skipped, all else is called, and the next run starts anew.
* **Arguments.** Steps of calls that overlap read and write resources through
  pointers. Correct: no update is lost, and what a call sees through a shared reference
  stays as it is.
* **Messages.** The indices of readers outlive calls, runs and panics. Correct: a reader
  receives every message once, in order, and knows how many there are left.
* **Plugins.** A plugin's code runs in several functions and on several threads, fails
  in each, and may call the host in each. Correct: it can register systems in `init`
  only, and each that it registered is in one place, waiting, in a builder or in a
  schedule.
* **Borrow enforcer.** Checks and updates of two atomics and two mutexes that are
  not one step, in threads that panic. Correct: a writer excludes every other thread,
  and nothing fails that conflicts with nothing.

`PROJECT.json` lists the hazards, each at its line, with the properties about it.

## 2. Modules

```
LiveHandles     what the registry promises           EcsMap        what World promises
     ^ refined by                                        ^ refined by
EntityRegistry -> Entities -> EntitiesProofs         Tables -> World -> MCWorld
     |  (operators)   |             |                    ^       |
     |                +-> MCEntities                     |       v
     +---------------------------------------------------+    Queries -> MCQueries
                                    |                         ^  |
                                    |             Filters ----+  v
                                    +----------------------> WorldProofs
SystemOrder     what a schedule promises              ComponentSets what signatures promise
     ^ refined by                                        ^ refined by
Scheduler -> MCScheduler, SchedulerProofs            Signatures -> MCSignatures, SignaturesProofs

Accesses -> Scheduler, Systems                       MessageLog    what a mailbox promises
Mailboxes, SystemOrder (INSTANCE) -> Systems             ^ refined by
Systems -> SystemsProofs                             Systems -> SystemsMessages -> MCSystems

BorrowEnforcer -> MCBorrowEnforcer, BorrowEnforcerProofs
ChangeTicks -> MCChangeTicks, ChangeTicksProofs
Plugins -> MCPlugins, PluginsProofs
```

`EntityRegistry` and `Tables` are operators on the value of a registry and of a
table: each method of the code that changes it is an operator that returns the
value after the call. They have no variables, so that one step of `World` can
compose several calls, as the code does. `Entities` is the registry as a machine
of its own, driven by the calls its users make. `EntitiesProofs` has lemmas on the
operators, which `WorldProofs` uses too, and theorems about the machine.

### EntityRegistry, Entities

Vectors are sequences that begin at 1, and `None` is 0. `Allocate`, `SpawnMeta`,
`DespawnMeta`, `SetMeta`, `SetRowMeta`, `HasMeta`, `GetMeta`, `IsAlive` are the
methods; `AllocatedHandle` is what `allocate` returns. The generation of a recycled
index is advanced when it is allocated again. `Issued` is defined from the
generations: an index has had every generation up to its present one.

`GenerationCount` is 2^32 in the code. `MayAllocate` bounds a behaviour to those in
which no generation wraps: after a wrap the oldest handle of the index is alive
again, which no counter of this width can prevent, and `Issued` could not tell the
two uses apart. `MaxEntities` bounds the indices.

### Tables, World, EcsMap

A table has the fields of `Table`; a column is its type and its values. A value is
identified by the entity it was given to: that is enough to tell whether a row of a
column still belongs to the entity of the row. Signatures are sets of types: with at
most 64 types a signature is one word, and `Signatures` shows when words and sets
agree beyond that.

`Spawn`, `Despawn`, `InsertBundle` and `RemoveBundle` are the operations of `World`
and `EntityMut`, each the whole call: looking up or adding the table, the copy, the
push, the removal from the old table, and the metadata in the order in which the
code writes it. Conditions under which the code panics (a `todo!`, an `expect`, an
assertion of the debug build, an index out of bounds) are disjuncts of their own
that set `panicked`; what such a call had written is not modelled, and no step
follows. `released` holds the values that the last operation dropped and those that it
returned: `Table::remove` drops or forgets a row, as its caller says.

`EcsMap` is a map from live entities to components. `World` is compared with it
twice: *by signature* (which components an entity has) and *by data* (what the
columns hold in the row that the metadata names).

### Filters, Queries

A filter is a tree and `Applies` its evaluation on a signature. `Queries` extends
`World` and adds to its variables one query, its `QueryState` (cache, `next_scan`, `generation`)
and what the system that owns it is doing. `WorldStep` is any step of `World`; it
is possible only between two calls of the system, since a call borrows the world.
`InitQuery`, `BeforeUpdate` and `AfterUpdate` are the methods of `SysArg`; `Iter`,
`NextItem` and `NextBackItem` are the iterator, with the caller free to stop, or to
take rows from either end, at any time; `ParIter`, `Split` and `Fold` are the
parallel iterator, with rayon free to split or fold any producer in any order. Raw
pointers become *windows*: the base is a number of rows from the start of the table.
`yielded` is a history variable: how often each row was returned in this iteration.
A newly cached table without a column of the query (`MissesColumn`; a removal makes
such tables) makes `InitQuery` or `BeforeUpdate` panic.

### Scheduler, SystemOrder

`EdgesOf` is `ScheduleBuilder::schedule`: a fold over systems and their accesses
that keeps the writers and readers of each type, like the hash maps in the code.
`Run`, `Seed`, `Finish` are `Scheduler::run`: the reset, one iteration of the loop,
the end of the scope. `Begin`, `Return`, `Release`, `Retire` are a task of
`run_system` on a worker: the store of `u32::MAX` and the call, the return, one
`fetch_sub` with its spawn, the end. `Panic` is a system that panics: its task ends
without a `fetch_sub`, and the call of `Scheduler::run` ends, when all other tasks
have, without a new tick (`Finish`). The closure of the scope occupies worker
`Seeder` until its loop is done, as in rayon. The pool is chosen at the start.
`overtaken` is a history variable: a task has lowered to 0 a counter that the loop
had yet to look at.

The release build is modelled: `fetch_sub` wraps. Atomics are sequentially
consistent; the code uses `Relaxed`, so the model has fewer behaviours than weakly
ordered hardware allows (see section 6).

`SystemOrder` is the promise: in a run each system begins at most once, after all
earlier systems that it conflicts with have returned. A call may fail, and then those
that must wait for it do not begin. `Accesses` is when two declared accesses conflict.

### Systems, Mailboxes, SystemsMessages, MessageLog

A world with a schedule, and `run_system` beside it (system 0). A system is the
sequence of its arguments; `Access` is what each declares. A run is the promise of
`SystemOrder` (`BeginRun`, `BeginCall`, `EndRun`) and no longer the counters: which
calls may overlap is decided there, and `Scheduler` shows when its code keeps to it.
`EndCall` returns or fails.

A call is several steps: `BeforeUpdate` of all arguments, any number of `Receive`
(`Inbox::next`), `BeginUpdate` and `EndUpdate`, and `AfterUpdate`, or `Panic` in
between. An update is two steps because it reads before it writes: a value that is
counted up, a message that is pushed behind as many as there were. Where two calls may
update one resource at once, one of the updates is lost. The steps of different calls
interleave. `AddResource`, `UpdateResource`, `Build` and `RunSystem` are what the owner
of the world does, and `BeforeUpdate` panics where a resource was never added.
`AfterUpdate` panics at the `todo!` of the first `Inbox` or `Outbox`.

`Mailboxes` has the methods of a mailbox as operators. A message is the number of the
update that sent it. `written`, `received` and `replaced` are history: the updates of
each resource, what each inbox has received since its `init`, and the mailboxes that
were replaced after a reader had begun. `MessageLog` promises the readers of a mailbox
every message, once and in order; `SystemsMessages` maps each mailbox with its inboxes
to one.

### Plugins

An instance is one `PluginStore` with its mutex, made by one call of `add`. The owner's
`BeginAdd`, `Instantiated`, `HasManifest`, `Initialized` are the parts of `add` between
which the plugin's code runs, and `AddFails` and `AddPanics` its other ends;
`BeginResolve`, one `ResolvePlugin` for each plugin, and `EndResolve` are
`resolve_systems`, which waits for the mutex of each. `Schedule` and `DropBuilder` are
what may become of the builder. `BeginCall`, `EndCall` and `CallPanics` are
`WasmSystem::call` on a thread. Wherever code of the plugin runs (`Runs`), it may call
`register_system`. Wasmtime is external: a trap is an error that `add` returns and a
call logs, and a panic of the host (most host functions are a `todo!`) poisons the
mutex. Owner and threads run concurrently: nothing in the code ties the registry to
the scheduler.

### Signatures, ComponentSets

A word is the set of its bits, and a signature a sequence of words, as long as the
code's vector. `SetBit`, `Union`, `Without`, `Contains` and `IsDisjoint` are the
methods of `Signature`; `unset` and `count_ones` are called by nothing. `Signatures`
drives them as `Archetypes` does: a bundle is put together type by type, then
spawned, inserted into or removed from an archetype whose signature is looked up
among the tables with the equality of vectors. A bundle that overlaps the archetype
is inserted where a table for both is known (`Insert`). `Width` is 64 in the code.
`ComponentSets` is the same on plain sets. `ActsOnSets` refines it but for one step
(`RemovesPart`): a removal whose bundle `contains` wrongly finds in the table takes
away the part that is there, where the promise is to refuse it.

### BorrowEnforcer

Each thread is at a place in `read`, `write` or the drop of a guard, and each access
to `shared`, `exclusive`, or one of the mutexes is a step; `holder`'s mutex is held
from its lock to the end of `write`. A failed assertion poisons the mutexes that are
locked while it panics (the message reads `last_call`) and unwinds: the thread drops
its guards and goes on, as a worker of rayon does after it has caught the panic. A
second panic while unwinding aborts. `raced` and `uncovered` are history variables:
two calls overlapped between one's check and update; a thread dropped one of several
write guards.

### ChangeTicks

One component type, its columns in the tables that have it, the tick of the world and
the ticks of one query with an `Added` or a `Changed` filter. `Push` and `SwapRemove`
are the methods of `Column` with what they do, or fail to do, to the two vectors of
ticks; `Resize` is `Vec::resize`, which leaves old entries as they are. The three ways
in which a component comes and goes are `AddComponent`, `RemoveComponent` and
`MoveComponent` (another component is inserted or removed, and the row is copied to
another table), all outside a run. `Write` is a write through `Mut`, by a system of the
run or by one that `World::run_system` calls between two runs, in the tick of the next
one. `BeforeUpdate`, `IterateWithoutTicks` and `AfterUpdate` are the query's system,
called in a run: `run_system` makes a state of its own for each call. The
filter is no declared access, so writes interleave with that system. `EndRun` advances
the tick. `FailRun` is the end of a run in which a system panicked: the tick stays
(`scheduler.rs:211` is skipped), and if it was the query's system, its call has ended
without `after_update`. So one tick may have any number of runs, calls and abandoned
calls; what a call has seen counts from `after_update` on. A type without a
size has no ticks: the start of an iteration panics, a write goes to a dangling
pointer. `addedAt`, `changedAt` and the sets below them are history, against which the
ticks and `Passes` (the filters' `apply_dynamic`) are compared. `Passes` is no action:
every iterator stops with a `todo!` at the first row of such a query.

## 3. What the runs check

| Run | Instance | Shows |
|---|---|---|
| `entities` | 3 indices, 3 generations, 2 tables, 2 rows | the vectors agree, the freelist is exact, `get_meta` and `is_alive` agree, dead handles stay dead, and `Entities` implements `LiveHandles` |
| `world` | 3 indices, 3 handles, 2 generations, spawns of `<A>`, `<B>` and `<B,A>`, inserts and removals of B | there is one table per archetype, each entity is in one table where `entity_lookup` finds its row, `has` is exact, `World` implements `EcsMap` by signature, and every step outside the known misplacements acts on the values as `EcsMap` does, and drops or returns exactly those that leave it |
| `world_removed_row` | 2 indices | violates `RowStoresComponents` |
| `queries` | 4 indices without reuse, spawns of 3 kinds, removals of B, 8 queries with all archetypal filters | the cache follows the tables, or panics at one without a queried column; from either end or in parallel each matching row is returned once; `len` is exact |
| `queries_empty_table` | 3 indices, tables `{A}` and `{A,B}` | violates `IteratesOverAll` |
| `scheduler` | every schedule of 3 systems from a list of 6, any of which may panic, pools of 1, 2 and 3 workers, 2 ticks | conflicts exclude each other, no counter wraps and the order is kept unless a task overtakes the loop, which it cannot on one worker; every run ends, and skips exactly what waits for itself or for a system that panicked |
| `scheduler_threads` | 3 systems, 3 workers | violates `OneThreadPerSystem` |
| `signatures` | words of 2 bits, IDs 0 to 3, up to 3 tables | the operations act on sets but for a removal that `contains` misjudges, `contains` errs only beyond the words of the table, and an archetype has one table until a removal |
| `change_ticks` | 3 entities, 2 tables, 2 ticks, any number of runs that fail, both filters, a type with and one without a size | the ticks are those of the component but for the known mislabelled rows; the filters miss no event and are quiet about what is settled; only a type without a size ends the program |
| `borrow_enforcer` | 3 threads with up to 2 guards each | readers meet a writer only through a race, two threads write only after an inner guard was dropped, and no call fails without a cause |
| `systems` | 10 schedules of 2 or 3 systems with up to 2 arguments each, one more system for `run_system`, a value and a message type, 3 updates of each, 2 ticks | no update is lost, what is shared stays still, mailboxes and inboxes implement `MessageLog`, and `len` of an inbox is exact |
| `plugins` | 3 instances with up to 2 systems each, 2 threads | systems are registered in `init` only, and none is lost or doubled |

**The bounds.** Three indices are the least for which a `swap_remove` in `dense` moves
an entry that is neither the removed one nor the only other; three generations recycle
an index twice. In `World`, two entities in a table show every relation of a moved
entity to the one that fills the hole (itself, the other, none), and two types give the
four kinds of tables (`{}`, `{A}`, `{B}`, `{A,B}`), with both column orders. With two
rows, closing up the rows and swapping in the last are the same, so there are three;
`MaxHandles` bounds the spawns, so that an index is recycled beside one that lives, but
three entities that live at once are the first three. Three systems make a chain, a fork
and a join, and the third is the one that the seeding loop reaches late; three workers
let the seeding worker be busy while two others call the system that was spawned twice.
The second run starts from counters that the first one used up. `CounterMax` stands for
`u32::MAX`: any number above the number of systems behaves alike.

Four rows in one table, or up to three in several (`FourInOneTable`), split into
halves of 2 and 2 or of 2 and 1, either of them again into 1 and 1; the right half of
four is the least that begins behind the start of its table and is split; the entities
of three tables make an iteration jump twice, over a table that was left empty.
Filters are nested up to two deep.

Words of two bits and four types make signatures of no, one and two words, with every
word empty, half full and full: each loop over words runs over signatures of
different lengths, and three tables hold both operands of an operation and its
result. Three rows and two tables give `ChangeTicks` a moved component between two
others and ticks left behind by one or two removals in either table; in the second
tick the query has a last call that a component may be older than, as old as, or
newer than; a run that fails leaves the tick, so that their number is not bounded. Two guards are the least for which dropping one leaves a thread covered
by another, and three threads let two others meet while one fails.

In `Systems` the schedules have two systems that read a mailbox beside each other and
after a writer, two writers, a reader of the whole world, and writers at both ends of
the schedule. With three updates the reader of a mailbox that was replaced can be ahead
of it, level with it and behind it. A call that fails leaves the tick as it is, so that
there is no bound on the runs. Three instances are one that was resolved before, one
that is resolved, and one behind a failure; two systems of each are in an order; two
threads wait for one mutex.

Deadlock is not checked where the bounded system stops: when the bound on runs, ticks or
tables is reached, or when an operation of `World` has panicked or the process has
ended. In `systems` and `plugins` the owner may also have nothing left to do; what a
system must wait for is in the guards of `EndRun`. `entities` never stops.

**Preconditions.** `SafeStepsImplementMap` is about steps from a sound world that
are not one of the known misplacements. What it excludes is named
(`RemoveMisplaces`, `InsertMisplaces`, an insertion of a component that is already
there) and each exclusion is a divergence in section 5; the mutants of that
property show that what is left is not vacuous. `NoCounterWraps`
and `OrderKept` hold up to the first overtaking; `RunIsComplete` and `RunEnds` also
after it. `ActsOnSets` has another effect for the removal of a bundle from a table that
`contains` misjudges about it (`RemovesPart`), and checks every other step;
`OverlapsAreRaces` and `WritersExclude` hold up to `raced` and
`uncovered`, the properties of `ChangeTicks` leave out the components in
`foreignAdded` and `foreignChanged`, and `ImplementsLog` the mailboxes in `replaced`.
Each of these is a divergence in section 5.

**Fairness.** Only `RunEnds` needs it: weak fairness of the loop, of the end of the
scope and of each worker of the pool. Rayon's workers take queued tasks as long as
there are any and a scope joins all of them; that a worker's call returns or
panics is an assumption on the systems. Nothing is assumed about which queued task is taken
first, and no fairness is assumed of `Run`: the program may stop calling it.

Every property has a mutant: a plausible change of the code's operator, kept beside
it under the comment `Mutant`, under which TLC finds the property violated.

## 4. What is proved

`EntitiesProofs`, for any number of indices and
generations, any tables and rows (`RegistryAssumption`: there is a generation, and
the bound on indices is a natural number):

* `RegistryTypeCorrect`: `RegistrySpec => []RegistryTypeOK`.
* `SparseDenseAlwaysAgree`, `FreelistAlwaysExact`, `LookupsAlwaysAgree`: the safety
  invariants of the run `entities`.
* `DeadHandlesStayDead`: the action property.
* `RegistryImplementsLiveHandles`: `RegistrySpec => ImplementsLiveHandles`.

The inductive invariant is the type invariant with `WellFormed`: `SparseDenseAgree`
alone is not inductive, because allocating takes the last entry of the freelist and
would break it if that index were alive or in the list twice; and the freelist is
only exact if despawning finds a `sparse` entry that leads to the metadata of that
very index. `WellFormed` is the conjunction of the six parts, and
the lemmas show for each operator that it preserves each of them. The
refinement needs in addition what each operator does to `Issued` and `Live`.

`WorldProofs`, for any components, any bundles, and any number of indices,
generations and tables (`TablesAssumption`: there are finitely many types, so that a
bundle is a vector; `WorldAssumption`, `RegistryAssumption`):

* `WorldTypes` (states `TypeOK`), `OneTableForEachArchetype` (states
  `OneTablePerArchetype`), `EntitiesResideInOneTable` (states `ResidesInOneTable`),
  `HasComponentsIsExact` (states `HasComponentsExact`);
* `WorldImplementsMap`: `Spec => ImplementsMapBySignature`, the refinement of `EcsMap`;
* `SafeStepsAreSound`: `Spec => SafeStepsImplementMap`, the same by data, for the steps
  from a sound world that are not one of the known misplacements.

The inductive invariant, `WorldInv`, is that the registry is well formed (with the
lemmas of `EntitiesProofs`), that `lookup` and the vector of tables are inverse to each
other (`ArchetypesOK`), and that the live entities are exactly those in the tables, each
in the one that its metadata names, where `entity_lookup` finds its row (`Placed`). None
of the three is inductive alone: a spawn is only an arrival because the handle that the
registry returns is in no table, and a move only takes one entity because no other table
has it. `Archetypes::insert` and `remove` may add a table first and then use two of them;
that the others are not disturbed rests on the injectivity of `lookup`. Each operation is
split into an effect on the registry, on one table, on the vector of tables, and, in
`ArrivesOK`, `LeavesOK` and `MovesOK`, what these come to together. The *row* in the
metadata is not part of the invariant, since the code gets it wrong
(`world_removed_row`); `entity_lookup` is right all the same, and this is what
`has` and every removal use.

`SafeStepsAreSound` is about worlds where the metadata's row and the columns are right as
well (`SoundAt`). That such a step keeps them right is shown for one table
(`SoundInsert`, `SoundCopy`, `SoundRemove`), for the row of an entity that a swap_remove
moves (`RowMoves`), and for all of them in `ArrivesSound`, `LeavesSound` and
`MovesSound`. In a sound world the data are what the signatures promise (`SoundData`), so
that a step of the map by signature is one by data; which values leave the map follows
from the step of the map alone (`MapValues`), and what is dropped and returned from the
operation. That the step does not panic needs one thing more, which is not part of `Sound`:
the assertion of `new_joined_table` counts columns, and the row of an insertion is read
from the first one. `ColumnsOnce` is that, while every table has the columns of its
signature, each has them once and none is without columns. It is invariant because the
only operation that repeats or loses a column, a removal that makes a table, makes one
that has not the columns of its signature (`NewSubsetMismatched`), and tables are never
taken away.

The same module has the theorems about `Queries`, for any queries and filters over any
such world (`QueryAssumption`):

* `QueriesTyped` (states `QueryTypeOK`); and, where no `Xor` holds more than one filter
  (`SingleXors`), `CacheIsCurrent` (states `CacheCurrent`), `RowsAreAccounted` (states
  `RowsAccounted`) and `IterationIsComplete` (states `IterationComplete`).

`SingleXors` is a hypothesis of these three and of nothing else: for an `Xor` of several
filters the code accepts other tables than `filter.rs` says (section 5), and the
properties speak of the tables that it should accept. `FiltersAsDescribed` is that
everywhere else, however deep filters are nested, the two agree. The inductive invariant,
`QueryInv`, does not need it. It adds to `WorldInv`: the cache lists the matching ones of
the first `generation` tables, each once, and the next scan begins after them
(`CacheOK`); and the rows of the cached tables are divided, without overlap, into those
returned and those in the iterator's window and in the tables after it, or in the
producers (`RowsOK`). That a scan of the new tables only is enough rests on what the
steps of `World` do to the tables (`TablesKept`: none is removed, and none changes its
signature). `len` adds up numbers of rows; that this is the cardinality of the set of
rows left needs that the tables are different ones and do not overlap (`LenOK`).

`SchedulerProofs`, for every schedule, every pool and any number of runs
(`SchedulerAssumption`):

* `AloneOvertakesNever`: on a pool of one worker no task overtakes the seeding loop.
  The inductive invariant, `QuietUntilSeeded`, adds that the worker is idle until
  the loop has looked at every system, and that nothing is queued between runs.
* `SchedulerTypes` (states `TypeOK`), `CountersNeverWrap` (states `NoCounterWraps`),
  `RunsComplete` (states `RunIsComplete`) and the action property `RunsInOrder` (states
  `OrderKept`, the refinement of `SystemOrder` up to an overtaking).

The proof has two parts. The graph: `EdgesOrder` says that no edge leads backwards and
that of two systems that conflict the later one is reached from the earlier one by a
path, though the builder adds no edge of its own for most such pairs. Its invariant
(`GraphOK`) is kept by every access that `AddAccess` adds: whatever was accessed before is
reached by one of the writers and readers that the maps still hold (`Holders`). Paths are
not defined by recursion: there is a path from p to q if every set that contains q and,
with a system, all those with an edge to it, contains p (`Reaches`). The run: the
count of a system that was not spawned is the number of those it waits for
(`CountsExact`, until an overtaking; `CountsOK` is what is left after one), where a
system is waited for until it has returned and its task has lowered the count. Then a
system that begins is not waiting, those that it conflicts with are further up on a path
and so have returned, and, when no task is left, whoever was not called waits for a
system that was not called, down to one that waits for itself or for a panic.

`BorrowEnforcerProofs`, for any threads and any number of guards
(`EnforcerAssumption`: "no thread" is not a thread):

* `TypeCorrect` (the counters never go below 0), `OverlapsAlwaysRaces`,
  `WritersAlwaysExclude`, `HolderAlwaysWrites`, and the action property
  `FailsOnlyForCause`.

The inductive invariant adds: the counters count guards (`Counted`: that the guards
are finitely many is needed to count them); who has the mutex is between its lock and
its release (`MutexOwned`); a thread with write guards is the holder, unless
`uncovered` (`HolderCovers`); readers, writers and calls in progress exclude each
other, unless `raced` (`RaceFree`); and a poisoned mutex of `holder` implies a
poisoned `last_call` (`FailureMarked`).

`SignaturesProofs`, for words of any width, any component IDs and any number of
tables (`SignatureAssumption`):

* lemmas on the operators: the positions of `SetBit`, `Union` and `Without`, what
  `IsDisjoint` and `Contains` mean, when equal sets are equal vectors (both without
  empty words at the end);
* `TypeCorrect`, `ContainsOnlyErrsBeyondWords`, `DisjointIsExact`,
  `OneTablePerArchetype` (states `OneTableUntilRemoval`) and
  `OperationsActOnSets` (states `ActsOnSets`, the refinement of `ComponentSets` but for
  the step `RemovesPart`), for bundles of any number of words beside tables of any other.

The inductive invariant adds that the bundle, and until a removal every table, has no
empty word at the end, and that no signature is in the tables twice. Within one word
nothing is beyond the words of a table and no vector but the empty one ends in an
empty word: this is what lets `Tables` and `World`, with at most 64 types, take
signatures as sets.

`ChangeTicksProofs`, for any entities, any tables and any bound on the tick
(`TicksAssumption`: there is a first tick):

* lemmas on the methods of a column: what `Push`, `SwapRemove` and `Touch` do to each
  row and its ticks;
* `TypeCorrect`, `TicksAlwaysExact`, `NothingMissed` (states `NoneMissed`),
  `SettledStaysQuiet` (states `QuietIsQuiet`) and `OnlyZeroSizedCrashes`.

`TicksExact` speaks of rows and of components at once, and both move. It is inductive
only together with: a component is in one row of one table (`Alone`), so that changing
one row changes no other's component; and the vectors of ticks are of one length and
not shorter than the data (`Tracked`), so that `resize` and a write find the tick of a
row. `Timely` bounds the history by the tick, the ticks of the query and whether it is
being called: what a filter says of a component follows from it and `TicksExact`
(`PassesMeans`). A run that fails keeps it because nothing in it depends on a new tick for
each run (`FailRunKeeps`).

`SystemsProofs`, for any resources, any schedules of systems with any arguments and any
bounds on updates and ticks (`SystemsAssumption`, `AccessesAssumption`):

* `NoUpdateIsLost` (states `NoUpdateLost`), `LenIsExact` (states `LenExact`) and the
  action property `SharedAlwaysStaysStill` (states `SharedStaysStill`).

The inductive invariant says why an update that was begun finds what it read: no two
calls in progress conflict (`NoOverlap`, from the guards of `SystemOrder!Begin`), only
called systems are in progress (`CalledInRun`), and so an update in progress has seen
all updates that ended (`Updating`). What a call shares nobody else in progress can
write (`Exclusive`), and the owner of the world does nothing while a call is in
progress (`NotBusy`). The proofs rest on `Access`, what the arguments declare; with the
accesses of the build without `generics` (section 5) they would not hold.

`PluginsProofs`, for any threads, any number of plugins and of systems
(`PluginsAssumption`, `OwnerAssumption`):

* `RegistersInInitOnly` (states `RegisteredInInitOnly`) and `SystemsAlwaysAccounted`
  (states `SystemsAccounted`).

The inductive invariant ties the stage of a plugin to where its code can run
(`Registration`): a system that a thread can call is of a plugin that was resolved, and
what `add` has in hand is in no one else's. `InOrder` is that the plugins are resolved
from the front, which `resolve_systems` keeps because it stops at the first that it
cannot resolve; `Placed` that the systems of the resolved ones are each in one place.

`DisjointIsExact` and `HolderAlwaysWrites` state properties that no run checks, and
`WorldTypes` one that `queries` checks as a part of `QueryTypeOK`.

Only checked with TLC: `ImplementsLog` and `RunEnds`. Liveness under fairness and
`ENABLED` are out of the prover's reach. `ImplementsLog` maps every mailbox by an `INSTANCE` with a parameter,
which tlapm 1.4.5 does not read; therefore it has a module of its own.
The library's induction theorems cannot be used, because they take an operator as a
parameter. Where a definition recurses over numbers (the builder over systems and their
accesses, `new_subset` over columns, `cache_tables` and `len` over tables) it is a
recursive function, and `SchedulerProofs` and
`WorldProofs` each prove what they need of it from the well-founded order of the natural
numbers: a set of numbers has a least element (`LeastNumber`), so what is kept by each
step holds at the end (`UpTo`), and a function with the steps exists
(`RecursionExists`).

## 5. Where the code and its documents disagree

With a run that shows it:

* `Archetypes::remove` sets the metadata and then calls `Table::remove`, which
  overwrites the row when the entity was the last of several in its old table
  (`world_removed_row`; `entity.rs:101` promises the row of its table).
* With two or more workers a system can be spawned by the seeding loop and by a task
  and then be called on two threads (`scheduler_threads`; `system.rs:133`).

* An iterator that jumps to a table that has lost its rows takes a row that is not
  there (`queries_empty_table`; `query.rs:89`). Only an empty *first* table is passed.

Modelled as the code has them, without a run of their own:

* `Table::new_subset` keeps the columns that it should drop (`table.rs:45`): a table
  that a removal creates has the columns of the removed components and no others
  (`RemoveMisplaces`). Their values are then in that table and returned as well. A query
  that matches such a table by its signature panics when it caches it (`group.rs:308`).
* `Archetypes::insert` reads the row from the first column before the bundle is
  written: if that column belongs to the bundle the row is one short, and for an
  empty table the subtraction underflows (`InsertMisplaces`).
* `new_joined_table` is a `todo!` if the entity has one of the components
  (`component.rs:173`). Where the table for both is known already, there is no such
  check, and a bundle that overlaps is inserted. It takes the wrong columns above, and
  three types, to get there. An entity with A loses A and is given `<C, D>`: its table has
  the signature `{C, D}` and the columns A, C, D. An entity with A and C loses A: its table
  has the signature `{C}` and the column A. If this one is given `<C, D>` too, it moves to
  the first table, and every assertion on the way holds. By signature it has C and D, as
  in a map that replaces what it has (`EcsMap!Insert`); the proof of `WorldImplementsMap`
  covers this case, the run with two types cannot reach it.
* `Table::remove` puts the removed entity back into `entity_lookup` if it was the
  last of several, against the comment at `table.rs:156`. The entry is never used.
* `alive_count` is the number of indices ever created, not of the living
  (`world.rs:120`).
* `next_back` does not go on to the next table, so that an iteration from the back
  ends with the first one, and `next` may return rows after `next_back` returned
  `None`, although `QueryIter` is a `FusedIterator`.
* `Xor` over several filters holds if all of them do, not if an odd number does
  (`filter.rs:310`): `FilterGroup::apply_archetypal` returns their conjunction.
* `Added` and `Changed` cannot be iterated over (`iter.rs:119`, `par_iter.rs:112` are
  `todo!`), nor can a query be asked for one entity (`group.rs:467`), and `Has` cannot
  be iterated over (`has.rs:54`).
* `Column::swap_remove` leaves the ticks where they are. The component that fills the
  hole has the removed one's ticks, and a component pushed where a removal left a tick
  keeps that one, against `change.rs:91` ("The tick during which this component was
  added"): a filter may miss it, or return it without a change. A component that is
  copied to another table counts as added and changed.
* A filter on a type without a size panics when an iteration starts (`change.rs:128`),
  and writing such a component through `Mut` writes to a dangling pointer, since
  `changed_base_ptr_mut` asserts nothing (`column.rs:254`).
* `Signature::contains` (`signature.rs:84`, "Whether `other` is a subset of `self`")
  ignores the words of `other` that `self` does not have: a query or a removal of a
  component with an ID from 64 matches every table with one word.
* After a removal a signature may end in empty words; equality and hashing compare
  them, so that one archetype gets a second table.
* `BorrowEnforcer::write` lets a thread write that writes already, against
  `util.rs:304`; when it drops the inner guard, `holder` is cleared and another thread
  may write beside it. `read` and `write` check one counter and change the other in
  two steps, so that a reader and a writer may pass each other.
* A failed assertion of the enforcer poisons `last_call`, and in `write` perhaps the
  mutex of `holder`: if the panic is caught, every later `read` and `write` of the same
  enforcer fails, and dropping a write guard panics, or aborts while unwinding.
* A system that lists two conflicting accesses, or `&World` next to any other, waits
  for itself and is never called, nor is any that depends on it (`Blocked`). So a system
  of `(Inbox<T>, Outbox<T>)` is never scheduled. `World::run_system` calls it all the
  same, and its inbox then returns messages after a `None`, although it is a
  `FusedIterator` (`inbox.rs:63`, "Messages cannot be sent to the mailbox while this
  iterator exists").
* `after_update` of `Inbox` and `Outbox` is a `todo!`: every system with one panics when
  its body is done, so that the systems ordered after it are skipped in every run and the
  tick stands still. A `TickInfo` after such an argument never updates `last_run`.
* Nothing swaps `current` into `previous`, against `mailbox.rs:34` ("At the end of the
  tick"): a mailbox only grows.
* `World::add_resources` replaces a mailbox that exists and leaves the indices of its
  readers as they are: they skip its first messages (`replaced`).
* The doc of `Mailbox::count_unread` (`mailbox.rs:68`) says that it counts the messages
  "with a higher index than the given one". It counts the one at the given index as well,
  which is what `Inbox::len` needs, since an inbox's index is that of the next message.
  `LenExact` holds of the code, not of the doc.
* `allocate` is public: an index that is allocated without a push makes every later index
  that `send` returns one too high. The model reaches this when a call panics between
  the two steps of an update.
* Only a system of several arguments notes in `last_ran` when it ran.
* `resolve_systems` returns at the first plugin that it resolved before
  (`plugins/registry.rs:262`). Called a second time, it never reaches the plugins that
  were added in between, and their systems are never called.
* A plugin whose `init` fails after it registered a system is never freed: it keeps the
  system, which keeps the plugin. Reference counts are not modelled.

Seen in the source and not modelled:

* Without the feature `generics`, `ResMut` declares that it reads (`resource.rs:179`), and
  inboxes and outboxes name a type that does not exist. The model has the accesses of the
  default build.
* `Resources::remove` leaks what it removes; nothing calls it.
* Deferred IDs of commands begin at 0 on each thread, so that two entities would share one.

## 6. Not modelled, and the plan

Left to model: the counters of the scheduler with the `Relaxed` ordering.

Not modelled, because there is nothing to model yet:

* **Commands.** Every call that would push a command is commented out
  (`command/command.rs:100`, `command/entity.rs:60`, `74`, `80`): the queues are always
  empty, and `World::apply_commands` applies nothing.
* **Sparse set.** No other part uses it.
* **`World::spawn_batch`, iteration over `Has`, `Added` and `Changed`**: each is a `todo!`.
* **Reflection and derives.** A stub and code generation.

Left out for good: column allocation and pointers (the code's `unsafe` layer; a
column is its values), the `inspect` timings, miri's sequential loop, Wasmtime and
the component ABI. The registry's `is_alive` is not asked about indices that were never
created, where it would panic. Release builds of `World` skip the assertions that the
model treats as panics; what an operation of `World` wrote before it panicked is not
modelled. The `Relaxed` ordering of the counters is not modelled: with two predecessors,
only the release of the last one is ordered before the dependent, and only by rayon's
own queues.

`Systems` takes from `Scheduler` that a run keeps to `SystemOrder`; with several workers
this holds unless a task overtakes the seeding loop (`scheduler_threads`), and what two
calls of one system do to each other's arguments is not modelled. A caller of
`Scheduler::run` and of `World::run_system` is free to catch the panic of a system and go
on; one that does not only ends sooner. The body of a system is any sequence of what its
arguments allow; a `Local` is the system's own and holds nothing that others see.
