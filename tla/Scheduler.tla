----------------------------- MODULE Scheduler -----------------------------
(***************************************************************************)
(* The schedule builder and the scheduler: scheduler/graph.rs, schedule.rs *)
(* and scheduler.rs, not under miri.  ScheduleBuilder::schedule turns the  *)
(* accesses of the systems into a dependency graph; Scheduler::run counts  *)
(* in-degrees down in a rayon scope and spawns a task for each system      *)
(* whose count reaches 0.                                                  *)
(*                                                                         *)
(* A schedule is a sequence with the access descriptors of each system.    *)
(* Atomics are sequentially consistent here.  A release build is modelled: *)
(* the counters wrap around.                                               *)
(***************************************************************************)
EXTENDS Accesses, Integers, Sequences, FiniteSetsExt

CONSTANTS
  Schedules,   \* the schedules that may be built
  Workers,     \* threads of the largest rayon pool
  Pools,       \* the pools that may be used: sets of workers
  Seeder,      \* the worker that runs the closure of rayon::scope
  CounterMax,  \* u32::MAX, above the number of systems
  MaxTicks     \* bound on the number of runs

ASSUME SchedulerAssumption ==
  /\ Schedules \subseteq Seq(Seq(AccessDescs))
  /\ \A p \in Pools : Seeder \in p /\ p \subseteq Workers
  /\ CounterMax \in Nat /\ \A a \in Schedules : Len(a) < CounterMax
  /\ MaxTicks \in Nat

VARIABLES
  pool,      \* the workers there are
  access,    \* the accesses of each system of the schedule
  edges,     \* ScheduleGraph::edges
  degree,    \* Scheduler::curr_in_degrees
  seeding,   \* next system that the loop in Scheduler::run looks at; 0 between runs
  queued,    \* how many spawned tasks of each system no worker has taken
  worker,    \* what each worker does
  tick,      \* World::current_tick
  called, returned,  \* the systems whose calls began and returned in this run
  panicked,  \* and those whose calls panicked
  overtaken  \* a task lowered an in-degree to 0 that the loop has yet to look at

vars == <<pool, access, edges, degree, seeding, queued, worker, tick, called, returned, panicked,
          overtaken>>

Systems == DOMAIN access

-----------------------------------------------------------------------------
(* ScheduleBuilder::schedule.  All edges to a system are pushed before those *)
(* to the next one, so dedup leaves each edge once: edges[s] is a set.       *)

Conflicting(p, s) ==
  \E i \in DOMAIN access[p], k \in DOMAIN access[s] :
    Conflicts(access[p][i], access[s][k]) \/ Conflicts(access[s][k], access[p][i])

NoAccess == [t \in AccessTypes |-> {}]

\* Mutant: a writer does not wait for the readers before it.
EarlierWriters(g, d) ==
  g.writers[WorldAccess] \union
    (IF d.ty = WorldAccess THEN UNION {g.writers[t] \union g.readers[t] : t \in AccessTypes}
     ELSE g.writers[d.ty])

\* The systems that must run before one with access d, given those that last
\* wrote and since then read each type.
Earlier(g, d) ==
  g.writers[WorldAccess] \union
    (IF d.ty = WorldAccess THEN UNION {g.writers[t] \union g.readers[t] : t \in AccessTypes}
     ELSE g.writers[d.ty] \union (IF d.mutable THEN g.readers[d.ty] ELSE {}))

AddAccess(g, s, d) ==
  LET world == d.ty = WorldAccess
  IN  [edges   |-> [p \in DOMAIN g.edges |->
                      IF p \in Earlier(g, d) THEN g.edges[p] \union {s} ELSE g.edges[p]],
       writers |-> IF world THEN [NoAccess EXCEPT ![WorldAccess] = {s}]
                   ELSE IF d.mutable THEN [g.writers EXCEPT ![d.ty] = {s}] ELSE g.writers,
       readers |-> IF world THEN NoAccess
                   ELSE [g.readers EXCEPT ![d.ty] = IF d.mutable THEN {} ELSE @ \union {s}]]

\* The accesses ds of system s, one after the other.
AddSystem(g, s, ds) ==
  LET added[k \in 0 .. Len(ds)] ==
        IF k = 0 THEN g ELSE AddAccess(added[k - 1], s, ds[k])
  IN  added[Len(ds)]

NoEdges(a) == [edges |-> [s \in DOMAIN a |-> {}], writers |-> NoAccess, readers |-> NoAccess]

EdgesOf(a) ==
  LET graph[s \in 0 .. Len(a)] ==
        IF s = 0 THEN NoEdges(a) ELSE AddSystem(graph[s - 1], s, a[s])
  IN  graph[Len(a)].edges

\* Mutant: a system waits for one of its predecessors.
InDegreeAny(s) == IF \E p \in Systems : s \in edges[p] THEN 1 ELSE 0

InDegree(s) == Cardinality({p \in Systems : s \in edges[p]})

-----------------------------------------------------------------------------
Idle == [pc |-> "idle", system |-> 0, left |-> {}]

Init ==
  /\ pool \in Pools
  /\ access \in Schedules
  /\ edges = EdgesOf(access)
  /\ degree = [s \in Systems |-> InDegree(s)]
  /\ seeding = 0
  /\ queued = [s \in Systems |-> 0]
  /\ worker = [w \in Workers |-> Idle]
  /\ tick = 1
  /\ called = {} /\ returned = {} /\ panicked = {}
  /\ overtaken = FALSE

Seeding == seeding \in Systems

\* Scheduler::run is called: reset_in_degrees, and the scope begins.
Run ==
  /\ seeding = 0
  /\ tick <= MaxTicks
  /\ degree' = [s \in Systems |-> InDegree(s)]
  /\ seeding' = 1
  /\ called' = {} /\ returned' = {} /\ panicked' = {}
  /\ UNCHANGED <<pool, access, edges, queued, worker, tick, overtaken>>

\* One iteration of the loop: the load, and the spawn if it found 0.
Seed ==
  /\ Seeding
  /\ queued' = [queued EXCEPT ![seeding] = IF degree[seeding] = 0 THEN @ + 1 ELSE @]
  /\ seeding' = seeding + 1
  /\ UNCHANGED <<pool, access, edges, degree, worker, tick, called, returned, panicked, overtaken>>

\* Mutant: the loop of Scheduler::run is on a thread that is not of the pool.
BeginAnyTime(w, s) ==
  /\ worker[w].pc = "idle" /\ queued[s] > 0
  /\ queued' = [queued EXCEPT ![s] = @ - 1]
  /\ degree' = [degree EXCEPT ![s] = CounterMax]
  /\ worker' = [worker EXCEPT ![w] = [pc |-> "calling", system |-> s, left |-> {}]]
  /\ called' = called \union {s}
  /\ UNCHANGED <<pool, access, edges, seeding, tick, returned, panicked, overtaken>>

\* A free worker takes a task of run_system: it stores MAX and calls the system.
Begin(w, s) ==
  /\ worker[w].pc = "idle" /\ queued[s] > 0
  /\ w = Seeder => ~Seeding
  /\ queued' = [queued EXCEPT ![s] = @ - 1]
  /\ degree' = [degree EXCEPT ![s] = CounterMax]
  /\ worker' = [worker EXCEPT ![w] = [pc |-> "calling", system |-> s, left |-> {}]]
  /\ called' = called \union {s}
  /\ UNCHANGED <<pool, access, edges, seeding, tick, returned, panicked, overtaken>>

\* The system returns.
Return(w) ==
  LET s == worker[w].system
  IN  /\ worker[w].pc = "calling"
      /\ worker' = [worker EXCEPT ![w] = [pc |-> "releasing", system |-> s, left |-> edges[s]]]
      /\ returned' = returned \union {s}
      /\ UNCHANGED <<pool, access, edges, degree, seeding, queued, tick, called, panicked, overtaken>>

\* Mutant: the counts of the dependents are lowered by a guard that is dropped.
PanicReleasing(w) ==
  LET s == worker[w].system
  IN  /\ worker[w].pc = "calling"
      /\ worker' = [worker EXCEPT ![w] = [pc |-> "releasing", system |-> s, left |-> edges[s]]]
      /\ panicked' = panicked \union {s}
      /\ UNCHANGED <<pool, access, edges, degree, seeding, queued, tick, called, returned, overtaken>>

\* The system panics: the task ends there, and lowers no counter.
Panic(w) ==
  /\ worker[w].pc = "calling"
  /\ worker' = [worker EXCEPT ![w] = Idle]
  /\ panicked' = panicked \union {worker[w].system}
  /\ UNCHANGED <<pool, access, edges, degree, seeding, queued, tick, called, returned, overtaken>>

\* Mutant: the counter is a signed integer.
LoweredUnbounded(n) == n - 1

\* fetch_sub wraps around.
Lowered(n) == (n - 1) % (CounterMax + 1)

\* Mutant: the value before fetch_sub is compared with 0.
IsFreeLate(now) == now = CounterMax

IsFree(now) == now = 0

\* fetch_sub on the next dependent, in the order of the systems, and the spawn
\* if nothing is left to wait for.
Release(w) ==
  LET d   == Min(worker[w].left)
      now == Lowered(degree[d])
  IN  /\ worker[w].pc = "releasing" /\ worker[w].left # {}
      /\ degree' = [degree EXCEPT ![d] = now]
      /\ worker' = [worker EXCEPT ![w].left = @ \ {d}]
      /\ queued' = [queued EXCEPT ![d] = IF IsFree(now) THEN @ + 1 ELSE @]
      /\ overtaken' = (overtaken \/ (IsFree(now) /\ Seeding /\ seeding <= d))
      /\ UNCHANGED <<pool, access, edges, seeding, tick, called, returned, panicked>>

\* The task ends.
Retire(w) ==
  /\ worker[w].pc = "releasing" /\ worker[w].left = {}
  /\ worker' = [worker EXCEPT ![w] = Idle]
  /\ UNCHANGED <<pool, access, edges, degree, seeding, queued, tick, called, returned, panicked, overtaken>>

\* Mutant: the scope also waits for systems that were never spawned.
FinishAll ==
  /\ seeding = Len(access) + 1
  /\ called = Systems
  /\ \A s \in Systems : queued[s] = 0
  /\ \A w \in Workers : worker[w].pc = "idle"
  /\ seeding' = 0
  /\ tick' = IF panicked = {} THEN tick + 1 ELSE tick
  /\ UNCHANGED <<pool, access, edges, degree, queued, worker, called, returned, panicked, overtaken>>

\* The scope ends when its closure and all tasks have, and resumes their panic:
\* then the call of Scheduler::run ends before it advances the tick.
Finish ==
  /\ seeding = Len(access) + 1
  /\ \A s \in Systems : queued[s] = 0
  /\ \A w \in Workers : worker[w].pc = "idle"
  /\ seeding' = 0
  /\ tick' = IF panicked = {} THEN tick + 1 ELSE tick
  /\ UNCHANGED <<pool, access, edges, degree, queued, worker, called, returned, panicked, overtaken>>

WorkerStep(w) == (\E s \in Systems : Begin(w, s)) \/ Return(w) \/ Panic(w) \/ Release(w) \/ Retire(w)

Next ==
  \/ Run \/ Seed \/ Finish
  \/ \E w \in pool : WorkerStep(w)

\* Rayon runs every task that was spawned, and every system returns or panics.
Fairness == WF_vars(Seed) /\ WF_vars(Finish) /\ \A w \in Workers : WF_vars(w \in pool /\ WorkerStep(w))

Spec == Init /\ [][Next]_vars
FairSpec == Spec /\ Fairness

-----------------------------------------------------------------------------
\* Type invariant.
TypeOK ==
  /\ pool \in Pools /\ access \in Schedules
  /\ edges \in [Systems -> SUBSET Systems]
  /\ degree \in [Systems -> 0 .. CounterMax]
  /\ seeding \in 0 .. Len(access) + 1
  /\ queued \in [Systems -> Nat]
  /\ worker \in [Workers -> [pc : {"idle", "calling", "releasing"},
                             system : Systems \union {0}, left : SUBSET Systems]]
  /\ tick \in 1 .. MaxTicks + 1
  /\ called \subseteq Systems /\ returned \union panicked \subseteq called
  /\ overtaken \in BOOLEAN

\* On a pool of one worker no task runs before the loop of Scheduler::run has looked at
\* every system.
AloneNeverOvertaken == pool = {Seeder} => ~overtaken

\* No fetch_sub finds a counter at 0, where a debug build would panic in the
\* subtraction after it, as long as no task overtakes the loop.
NoCounterWraps ==
  ~overtaken =>
    \A w \in Workers :
      worker[w].pc = "releasing" /\ worker[w].left # {} => degree[Min(worker[w].left)] > 0

Order == INSTANCE SystemOrder WITH
  systems <- Systems, failed <- panicked,
  conflicts <- {e \in Systems \X Systems : Conflicting(e[1], e[2])}

\* As long as no task overtakes the loop, every step is one that the promised
\* order allows: one call of each system, after those it conflicts with have
\* returned, so none after one that panicked; and no two calls that overlap conflict.
OrderKept == [][~overtaken' => [Order!Next]_(Order!vars)]_vars

\* A system whose own accesses are ordered after each other waits for itself:
\* `&World` next to any other access, or a mutable access next to another of its
\* type.  Those that depend on it, or on a system that panicked, wait with it.
Blocked ==
  LET Waiting(b) == {s \in Systems : s \in edges[s] \/ \E p \in b \union panicked : s \in edges[p]}
  IN  {s \in Systems : \A b \in SUBSET Systems : Waiting(b) \subseteq b => s \in b}

\* A run that ends has called every system that waits neither for itself nor for one
\* that panicked, even if a task overtook the loop; unless one did, it called no
\* other.  Every other call of a run with a panic goes on to its end.
RunIsComplete ==
  seeding = 0 /\ (tick > 1 \/ panicked # {}) =>
    /\ Systems \ Blocked \subseteq returned \union panicked
    /\ ~overtaken => called = Systems \ Blocked

\* A run that begins ends: no counter is left above 0 by the tasks that can run.
RunEnds == seeding > 0 ~> seeding = 0

\* system.rs:133 "At the same time a system can be used on only one thread at a time."
OneThreadPerSystem ==
  \A v, w \in Workers :
    v # w /\ worker[v].pc = "calling" /\ worker[w].pc = "calling" =>
      worker[v].system # worker[w].system

=============================================================================
