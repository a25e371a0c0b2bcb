----------------------------- MODULE ChangeTicks -----------------------------
(***************************************************************************)
(* Change detection for one component type: the ticks beside its columns   *)
(* (table/change.rs, table/column.rs), the world's tick, and the ticks of  *)
(* a query with an Added or a Changed filter (query/query.rs, filter.rs).  *)
(* The world is changed between the runs of a scheduler; systems write     *)
(* components in a run, where the query's system is called too, and in     *)
(* World::run_system between two runs.  A filter declares no access, so a  *)
(* write may fall anywhere in that call.  A run in which a system panics   *)
(* does not advance the tick: the next one has the same.                   *)
(*                                                                         *)
(* The iterators give up at the first row of a query with such a filter    *)
(* (todo!), so what the filter says of a row is an operator, Passes, that  *)
(* the properties evaluate.                                                *)
(***************************************************************************)
EXTENDS Integers, SequencesExt

CONSTANTS
  Entities,
  Tables,   \* the tables with the component
  MaxTick   \* bound on World::current_tick

ASSUME TicksAssumption == MaxTick \in Nat /\ MaxTick > 0

VARIABLES
  zeroSized,      \* the component type has no size
  filter,         \* the query's filter: "added" or "changed"
  tick, running,  \* World::current_tick, and whether a run is under way
  tables,         \* the tables that exist
  columns,        \* their columns: data, and the two vectors of ticks
  query,          \* the query's system: idle, called, or done for this run
  current, lastRun,  \* QueryState::current_tick and last_run_tick
  crashed,
  \* History: the ticks of the last addition and of the last change of each
  \* component, and the components whose row has the ticks of another one.
  addedAt, changedAt, foreignAdded, foreignChanged,
  \* History: the components with an event for the filter since the query's last
  \* call that came to its end began, since its call under way began, and in this
  \* tick; and those without one in the tick of that last call or after.
  pending, during, recent, quiet

vars == <<zeroSized, filter, tick, running, tables, columns, query, current, lastRun, crashed,
          addedAt, changedAt, foreignAdded, foreignChanged, pending, during, recent, quiet>>
kinds == <<zeroSized, filter>>
queryState == <<query, current, lastRun>>
labels == <<addedAt, changedAt, foreignAdded, foreignChanged>>
news == <<pending, during, recent, quiet>>

EmptyColumn == [data |-> <<>>, added |-> <<>>, changed |-> <<>>]

Present == UNION {ToSet(columns[t].data) : t \in Tables}
TableOf(e) == CHOOSE t \in Tables : e \in ToSet(columns[t].data)
RowOf(t, e) == CHOOSE i \in DOMAIN columns[t].data : columns[t].data[i] = e

-----------------------------------------------------------------------------
(* Column and ChangeTracker.                                                *)

\* Vec::resize: what stays keeps its value.
Resize(v, n, x) == [i \in 1 .. n |-> IF i <= Len(v) THEN v[i] ELSE x]

\* Mutant: the ticks are resized before the length is raised.
PushLate(c, e) ==
  LET n == Len(c.data)
  IN  [data    |-> Append(c.data, e),
       added   |-> IF zeroSized THEN c.added ELSE Resize(c.added, n, tick),
       changed |-> IF zeroSized THEN c.changed ELSE Resize(c.changed, n, tick)]

\* Column::push and push_from_ptr: no ticks for a type without a size.
Push(c, e) ==
  LET n == Len(c.data) + 1
  IN  [data    |-> Append(c.data, e),
       added   |-> IF zeroSized THEN c.added ELSE Resize(c.added, n, tick),
       changed |-> IF zeroSized THEN c.changed ELSE Resize(c.changed, n, tick)]

\* Column::swap_remove leaves the ticks as they are.
SwapRemove(c, row) ==
  [c EXCEPT !.data = Front(IF row = Len(@) THEN @ ELSE [@ EXCEPT ![row] = Last(c.data)])]

\* Mutant: a write counts as an addition.
TouchAdded(c, row) == [c EXCEPT !.added = [@ EXCEPT ![row] = tick]]

\* Mut::deref_mut.
Touch(c, row) == [c EXCEPT !.changed = [@ EXCEPT ![row] = tick]]

\* A row pushed where swap_remove left a tick keeps that tick.
KeepsOldTick(c) == Len(c.added) > Len(c.data)

\* The component that swap_remove puts into the row, if there is one.
Moved(c, row) == {Last(c.data)} \ {c.data[row]}

\* ChangeTracker::added_base_ptr and changed_base_ptr assert that there are ticks.
HasTicks(c) == c.added # <<>>

\* Mutant: a component is new only when it is newer than the query's last call.
PassesStrictly(c, row) ==
  IF filter = "added" THEN c.added[row] > lastRun ELSE c.changed[row] > lastRun

\* Added::apply_dynamic and Changed::apply_dynamic.
Passes(c, row) ==
  IF filter = "added" THEN c.added[row] >= lastRun ELSE c.changed[row] >= lastRun

-----------------------------------------------------------------------------
(* History.                                                                 *)

\* An event for the filter, and none for those in gone.
Report(new, gone) ==
  /\ pending' = (pending \union new) \ gone
  /\ during' = IF query = "called" THEN (during \union new) \ gone ELSE {}
  /\ recent' = (recent \union new) \ gone
  /\ quiet' = quiet \ (new \union gone)

Stamp(e) ==
  /\ addedAt' = [addedAt EXCEPT ![e] = tick]
  /\ changedAt' = [changedAt EXCEPT ![e] = tick]

\* The components in moved got another's ticks; those in own got theirs.
Mislabel(moved, own) ==
  /\ foreignAdded' = (foreignAdded \union moved) \ own
  /\ foreignChanged' = (foreignChanged \union moved) \ own

-----------------------------------------------------------------------------
Init ==
  /\ zeroSized \in BOOLEAN /\ filter \in {"added", "changed"}
  /\ tick = 1 /\ running = FALSE
  /\ tables = {} /\ columns = [t \in Tables |-> EmptyColumn]
  /\ query = "idle" /\ current = 1 /\ lastRun = 0
  /\ crashed = FALSE
  /\ addedAt = [e \in Entities |-> 0] /\ changedAt = [e \in Entities |-> 0]
  /\ foreignAdded = {} /\ foreignChanged = {}
  /\ pending = {} /\ during = {} /\ recent = {} /\ quiet = {}

(* World::spawn, and EntityMut::insert of this component.                   *)
AddComponent(e, t) ==
  LET old == KeepsOldTick(columns[t])
  IN  /\ ~running /\ e \notin Present
      /\ tables' = tables \union {t}
      /\ columns' = [columns EXCEPT ![t] = Push(@, e)]
      /\ Stamp(e)
      /\ Mislabel(IF old THEN {e} ELSE {}, IF old THEN {} ELSE {e})
      /\ Report({e}, {})
      /\ UNCHANGED <<kinds, tick, running, queryState, crashed>>

(* World::despawn, and EntityMut::remove of this component.                 *)
RemoveComponent(e) ==
  LET t == TableOf(e)
      row == RowOf(t, e)
  IN  /\ ~running /\ e \in Present
      /\ columns' = [columns EXCEPT ![t] = SwapRemove(@, row)]
      /\ Mislabel(Moved(columns[t], row), {e})
      /\ Report({}, {e})
      /\ addedAt' = [addedAt EXCEPT ![e] = 0]
      /\ changedAt' = [changedAt EXCEPT ![e] = 0]
      /\ UNCHANGED <<kinds, tick, running, tables, queryState, crashed>>

(* EntityMut::insert or remove of another component: copy_component pushes  *)
(* the component on the other table's column as a new one, and swap_remove  *)
(* takes it from this one.                                                  *)
MoveComponent(e, u) ==
  LET t == TableOf(e)
      row == RowOf(t, e)
      old == KeepsOldTick(columns[u])
  IN  /\ ~running /\ e \in Present /\ u # TableOf(e)
      /\ tables' = tables \union {u}
      /\ columns' = [columns EXCEPT ![u] = Push(@, e), ![t] = SwapRemove(@, row)]
      /\ Stamp(e)
      /\ Mislabel(Moved(columns[t], row) \union (IF old THEN {e} ELSE {}),
                  IF old THEN {} ELSE {e})
      /\ Report({e}, {})
      /\ UNCHANGED <<kinds, tick, running, queryState, crashed>>

(* Scheduler::run, up to its first systems.                                 *)
Run ==
  /\ ~running
  /\ running' = TRUE
  /\ UNCHANGED <<kinds, tick, tables, columns, queryState, crashed, labels, news>>

(* A system, of the run or one that World::run_system calls, writes through *)
(* the Mut that a query returned.  Without a tick for the row it writes at  *)
(* an address that is none, and the process is killed.                      *)
Write(e) ==
  LET t == TableOf(e)
      row == RowOf(t, e)
  IN  /\ e \in Present
      /\ \/ /\ row \in DOMAIN columns[t].changed
            /\ columns' = [columns EXCEPT ![t] = Touch(@, row)]
            /\ changedAt' = [changedAt EXCEPT ![e] = tick]
            /\ foreignChanged' = foreignChanged \ {e}
            /\ Report(IF filter = "changed" THEN {e} ELSE {}, {})
            /\ UNCHANGED crashed
         \/ /\ row \notin DOMAIN columns[t].changed
            /\ crashed' = TRUE
            /\ UNCHANGED <<columns, changedAt, foreignChanged, news>>
      /\ UNCHANGED <<kinds, tick, running, tables, queryState, addedAt, foreignAdded>>

(* Query::before_update.                                                    *)
BeforeUpdate ==
  /\ running /\ query = "idle"
  /\ query' = "called" /\ current' = tick
  /\ during' = {}
  /\ UNCHANGED <<kinds, tick, running, tables, columns, lastRun, crashed, labels,
                 pending, recent, quiet>>

(* An iterator starts, sequential or parallel: set_dynamic_state takes the  *)
(* ticks of a table.  When there are any, nothing changes.                  *)
IterateWithoutTicks ==
  /\ query = "called"
  /\ \E t \in tables : ~HasTicks(columns[t])
  /\ crashed' = TRUE
  /\ UNCHANGED <<kinds, tick, running, tables, columns, queryState, labels, news>>

\* Mutant: the query has seen the tick that is still to come.
AfterUpdateAhead ==
  /\ query = "called"
  /\ query' = "done" /\ lastRun' = current + 1
  /\ pending' = during /\ during' = {}
  /\ quiet' = Present \ recent
  /\ UNCHANGED <<kinds, tick, running, tables, columns, current, crashed, labels, recent>>

\* Mutant: the tick of the call is not kept.
AfterUpdateForgets ==
  /\ query = "called"
  /\ query' = "done"
  /\ pending' = during /\ during' = {}
  /\ quiet' = Present \ recent
  /\ UNCHANGED <<kinds, tick, running, tables, columns, current, lastRun, crashed, labels, recent>>

(* Query::after_update.                                                     *)
AfterUpdate ==
  /\ query = "called"
  /\ query' = "done" /\ lastRun' = current
  /\ pending' = during /\ during' = {}
  /\ quiet' = Present \ recent
  /\ UNCHANGED <<kinds, tick, running, tables, columns, current, crashed, labels, recent>>

(* The end of Scheduler::run.  The query need not be in the scheduler.      *)
EndRun ==
  /\ running /\ query # "called" /\ tick < MaxTick
  /\ running' = FALSE /\ query' = "idle"
  /\ tick' = tick + 1
  /\ recent' = {}
  /\ UNCHANGED <<kinds, tables, columns, current, lastRun, crashed, labels,
                 pending, during, quiet>>

(* A system has panicked: the scope resumes its panic, and the tick is not  *)
(* advanced.  If it is the query's, its call ends without after_update.     *)
FailRun ==
  /\ running
  /\ running' = FALSE /\ query' = "idle"
  /\ during' = {}
  /\ UNCHANGED <<kinds, tick, tables, columns, current, lastRun, crashed, labels,
                 pending, recent, quiet>>

Next ==
  /\ ~crashed
  /\ \/ \E e \in Entities, t \in Tables : AddComponent(e, t) \/ MoveComponent(e, t)
     \/ \E e \in Entities : RemoveComponent(e) \/ Write(e)
     \/ Run \/ BeforeUpdate \/ IterateWithoutTicks \/ AfterUpdate \/ EndRun \/ FailRun

Spec == Init /\ [][Next]_vars

-----------------------------------------------------------------------------
Ticks == 1 .. MaxTick

\* Type invariant.
TypeOK ==
  /\ zeroSized \in BOOLEAN /\ filter \in {"added", "changed"}
  /\ tick \in Ticks /\ running \in BOOLEAN
  /\ tables \subseteq Tables
  /\ \A t \in Tables :
       /\ columns[t].data \in Seq(Entities) /\ IsInjective(columns[t].data)
       /\ columns[t].added \in Seq(Ticks) /\ columns[t].changed \in Seq(Ticks)
  /\ query \in {"idle", "called", "done"}
  /\ current \in Ticks /\ lastRun \in 0 .. tick
  /\ crashed \in BOOLEAN
  /\ addedAt \in [Entities -> 0 .. MaxTick] /\ changedAt \in [Entities -> 0 .. MaxTick]
  /\ foreignAdded \subseteq Present /\ foreignChanged \subseteq Present
  /\ pending \subseteq Present /\ during \subseteq Present /\ recent \subseteq Present
  /\ quiet \subseteq Present

\* P holds of every component of a type with a size: P takes its table's column and
\* its row.
Everywhere(P(_, _)) ==
  ~zeroSized => \A t \in Tables : \A i \in DOMAIN columns[t].data : P(columns[t], i)

\* Through any sequence of additions, moves, removals and writes, the ticks of a row
\* are those of the last addition and the last change of its component, but for the
\* components that a swap_remove moved into a row or that were pushed where one left
\* a tick; and a write repairs the tick of the last change.
TicksExact ==
  Everywhere(LAMBDA c, i :
    /\ c.data[i] \notin foreignAdded => c.added[i] = addedAt[c.data[i]]
    /\ c.data[i] \notin foreignChanged => c.changed[i] = changedAt[c.data[i]])

Foreign == IF filter = "added" THEN foreignAdded ELSE foreignChanged

\* The filter misses no event since the query's last call that came to its end began,
\* be it in the same tick, in the middle of that call or before the first one: a call
\* that panics has taken no event from the next one, also when runs that fail make
\* several calls in one tick.
NoneMissed ==
  Everywhere(LAMBDA c, i : c.data[i] \in pending \ Foreign => Passes(c, i))

\* The filter is quiet about a component without an event in the tick of the query's
\* last call that came to its end or after it, however many runs that tick had.
QuietIsQuiet ==
  Everywhere(LAMBDA c, i : c.data[i] \in quiet \ Foreign => ~Passes(c, i))

\* Every row of a type with a size has its ticks, so that neither a write nor the
\* start of an iteration fails: only a type without a size ends the program.
OnlyZeroSizedCrash ==
  crashed => zeroSized
=============================================================================
