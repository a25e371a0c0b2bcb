-------------------------- MODULE ChangeTicksProofs --------------------------
(***************************************************************************)
(* What holds of change detection for any entities, tables and ticks.  The *)
(* inductive invariant says that a component is in one row (Alone), that a *)
(* row of a type with a size has ticks (Tracked), which ones they are      *)
(* (TicksExact), and how the history relates to the ticks of the query.    *)
(***************************************************************************)
EXTENDS ChangeTicks, TLAPS

Columns == [data : Seq(Entities), added : Seq(Ticks), changed : Seq(Ticks)]

\* There is a tick for each row.
Covered(c) == Len(c.data) <= Len(c.added) /\ Len(c.added) = Len(c.changed)

-----------------------------------------------------------------------------
(* The methods of a column.                                                 *)

\* Resize extends with the tick, or cuts off, and keeps what stays.
LEMMA ResizeTicks ==
  ASSUME NEW v \in Seq(Ticks), NEW n \in Nat, NEW x \in Ticks
  PROVE  /\ Resize(v, n, x) \in Seq(Ticks)
         /\ Len(Resize(v, n, x)) = n
         /\ \A i \in 1 .. n : Resize(v, n, x)[i] = IF i <= Len(v) THEN v[i] ELSE x
<1> DEFINE w == Resize(v, n, x)
<1>1. w \in [1 .. n -> Ticks]
  BY DEF Resize
<1>2. w \in Seq(Ticks) /\ Len(w) = n
  BY <1>1
<1>3. \A i \in 1 .. n : w[i] = IF i <= Len(v) THEN v[i] ELSE x
  BY DEF Resize
<1> QED
  BY <1>2, <1>3

\* Push adds a row.  The rows before it keep their ticks, and the new one gets this
\* tick, unless one was left there.
LEMMA PushColumn ==
  ASSUME NEW c \in Columns, NEW e \in Entities, tick \in Ticks, zeroSized \in BOOLEAN
  PROVE  /\ Push(c, e) \in Columns
         /\ Len(Push(c, e).data) = Len(c.data) + 1
         /\ \A i \in 1 .. Len(c.data) : Push(c, e).data[i] = c.data[i]
         /\ Push(c, e).data[Len(c.data) + 1] = e
         /\ ~zeroSized /\ Covered(c) =>
              /\ Covered(Push(c, e)) /\ HasTicks(Push(c, e))
              /\ \A i \in 1 .. Len(c.data) : /\ Push(c, e).added[i] = c.added[i]
                                             /\ Push(c, e).changed[i] = c.changed[i]
              /\ ~KeepsOldTick(c) => /\ Push(c, e).added[Len(c.data) + 1] = tick
                                     /\ Push(c, e).changed[Len(c.data) + 1] = tick
<1> DEFINE n == Len(c.data) + 1
           d == Push(c, e)
<1>1. /\ c.data \in Seq(Entities) /\ c.added \in Seq(Ticks) /\ c.changed \in Seq(Ticks)
      /\ n \in Nat /\ n = Len(c.data) + 1 /\ Len(c.data) \in Nat
  BY DEF Columns
<1>2. /\ d.data = Append(c.data, e)
      /\ d.added = IF zeroSized THEN c.added ELSE Resize(c.added, n, tick)
      /\ d.changed = IF zeroSized THEN c.changed ELSE Resize(c.changed, n, tick)
  BY DEF Push
<1>3. d = [data |-> d.data, added |-> d.added, changed |-> d.changed]
  BY DEF Push
<1>4. /\ d.data \in Seq(Entities) /\ Len(d.data) = n
      /\ \A i \in 1 .. Len(c.data) : d.data[i] = c.data[i]
      /\ d.data[n] = e
  <2> DEFINE s == c.data
  <2>1. s \in Seq(Entities) /\ d.data = Append(s, e)
    BY <1>1, <1>2
  <2> HIDE DEF s, d
  <2>2. /\ Append(s, e) \in Seq(Entities) /\ Len(Append(s, e)) = Len(s) + 1
        /\ \A i \in 1 .. Len(s) : Append(s, e)[i] = s[i]
        /\ Append(s, e)[Len(s) + 1] = e
    BY <2>1
  <2> QED
    BY <2>1, <2>2 DEF s
<1> HIDE DEF d, n
<1>5. d.added \in Seq(Ticks) /\ d.changed \in Seq(Ticks)
  <2>1. c.added \in Seq(Ticks) /\ c.changed \in Seq(Ticks) /\ n \in Nat /\ tick \in Ticks
    BY <1>1
  <2>2. Resize(c.added, n, tick) \in Seq(Ticks) /\ Resize(c.changed, n, tick) \in Seq(Ticks)
    BY <2>1, ResizeTicks, Zenon
  <2> QED
    BY <1>2, <2>1, <2>2
<1>6. ASSUME ~zeroSized, Covered(c)
      PROVE  /\ Covered(d) /\ HasTicks(d)
             /\ \A i \in 1 .. Len(c.data) : d.added[i] = c.added[i] /\ d.changed[i] = c.changed[i]
             /\ ~KeepsOldTick(c) => d.added[n] = tick /\ d.changed[n] = tick
  <2>1. /\ Len(d.added) = n /\ Len(d.changed) = n
        /\ \A i \in 1 .. n : /\ d.added[i] = IF i <= Len(c.added) THEN c.added[i] ELSE tick
                             /\ d.changed[i] = IF i <= Len(c.changed) THEN c.changed[i] ELSE tick
    <3>1. d.added = Resize(c.added, n, tick) /\ d.changed = Resize(c.changed, n, tick)
      BY <1>2, <1>6
    <3>2. c.added \in Seq(Ticks) /\ c.changed \in Seq(Ticks)
      BY <1>1
    <3>3. n \in Nat /\ tick \in Ticks
      BY <1>1
    <3>4. /\ Len(Resize(c.added, n, tick)) = n
          /\ \A i \in 1 .. n : Resize(c.added, n, tick)[i] = IF i <= Len(c.added) THEN c.added[i] ELSE tick
      <4>1. Len(Resize(c.added, n, tick)) = n
        BY <3>2, <3>3, ResizeTicks, Zenon
      <4>2. \A i \in 1 .. n : Resize(c.added, n, tick)[i] = IF i <= Len(c.added) THEN c.added[i] ELSE tick
        BY DEF Resize
      <4> QED
        BY <4>1, <4>2
    <3>5. /\ Len(Resize(c.changed, n, tick)) = n
          /\ \A i \in 1 .. n : Resize(c.changed, n, tick)[i] = IF i <= Len(c.changed) THEN c.changed[i] ELSE tick
      <4>1. Len(Resize(c.changed, n, tick)) = n
        BY <3>2, <3>3, ResizeTicks, Zenon
      <4>2. \A i \in 1 .. n : Resize(c.changed, n, tick)[i] = IF i <= Len(c.changed) THEN c.changed[i] ELSE tick
        BY DEF Resize
      <4> QED
        BY <4>1, <4>2
    <3> QED
      BY <3>1, <3>4, <3>5
  <2>2. Covered(d) /\ HasTicks(d)
    BY <1>1, <1>4, <1>5, <2>1 DEF Covered, HasTicks
  <2>3. /\ n \in Nat /\ n = Len(c.data) + 1 /\ Len(c.data) \in Nat
        /\ Len(c.data) <= Len(c.added) /\ Len(c.added) = Len(c.changed)
        /\ Len(c.added) \in Nat
    BY <1>1, <1>6 DEF Covered
  <2>4. \A i \in 1 .. Len(c.data) : d.added[i] = c.added[i] /\ d.changed[i] = c.changed[i]
    BY <2>1, <2>3
  <2>5. ~KeepsOldTick(c) => d.added[n] = tick /\ d.changed[n] = tick
    BY <2>1, <2>3 DEF KeepsOldTick
  <2> QED
    BY <2>2, <2>4, <2>5
<1>7. d \in Columns
  BY <1>3, <1>4, <1>5 DEF Columns
<1>8. /\ d \in Columns /\ Len(d.data) = n
      /\ \A i \in 1 .. Len(c.data) : d.data[i] = c.data[i]
      /\ d.data[n] = e
      /\ ~zeroSized /\ Covered(c) =>
           /\ Covered(d) /\ HasTicks(d)
           /\ \A i \in 1 .. Len(c.data) : d.added[i] = c.added[i] /\ d.changed[i] = c.changed[i]
           /\ ~KeepsOldTick(c) => d.added[n] = tick /\ d.changed[n] = tick
  BY <1>4, <1>6, <1>7
<1> QED
  BY <1>8 DEF d, n

\* SwapRemove puts the last component into the row and leaves the ticks alone.
LEMMA SwapColumn ==
  ASSUME NEW c \in Columns, NEW row \in DOMAIN c.data
  PROVE  /\ SwapRemove(c, row) \in Columns
         /\ Len(SwapRemove(c, row).data) = Len(c.data) - 1
         /\ \A i \in 1 .. Len(c.data) - 1 :
              SwapRemove(c, row).data[i] = IF i = row THEN c.data[Len(c.data)] ELSE c.data[i]
         /\ SwapRemove(c, row).added = c.added
         /\ SwapRemove(c, row).changed = c.changed
<1> DEFINE n == Len(c.data)
           filled == IF row = n THEN c.data ELSE [c.data EXCEPT ![row] = Last(c.data)]
           d == SwapRemove(c, row)
<1>1. /\ c.data \in Seq(Entities) /\ c.added \in Seq(Ticks) /\ c.changed \in Seq(Ticks)
      /\ n \in Nat /\ row \in 1 .. n
  BY DEF Columns
<1>2. Last(c.data) = c.data[n] /\ c.data[n] \in Entities
  BY <1>1 DEF Last
<1>3. /\ filled \in Seq(Entities) /\ Len(filled) = n
      /\ \A i \in 1 .. n - 1 : filled[i] = IF i = row THEN c.data[n] ELSE c.data[i]
  <2>1. CASE row = n
    BY <1>1, <2>1
  <2>2. CASE row # n
    BY <1>1, <1>2, <2>2
  <2> QED
    BY <2>1, <2>2
<1>4. d = [c EXCEPT !.data = Front(filled)]
  BY DEF SwapRemove
<1> HIDE DEF filled
<1>5. /\ Front(filled) \in Seq(Entities) /\ Len(Front(filled)) = n - 1
      /\ \A i \in 1 .. n - 1 : Front(filled)[i] = filled[i]
  BY <1>1, <1>3 DEF Front
<1>6. d \in Columns /\ d.data = Front(filled) /\ d.added = c.added /\ d.changed = c.changed
  BY <1>4, <1>5 DEF Columns
<1> QED
  BY <1>3, <1>5, <1>6

\* Touch sets the tick of one row.
LEMMA TouchColumn ==
  ASSUME NEW c \in Columns, NEW row \in DOMAIN c.changed, tick \in Ticks
  PROVE  /\ Touch(c, row) \in Columns
         /\ Touch(c, row).data = c.data
         /\ Touch(c, row).added = c.added
         /\ Len(Touch(c, row).changed) = Len(c.changed)
         /\ \A i \in 1 .. Len(c.changed) :
              Touch(c, row).changed[i] = IF i = row THEN tick ELSE c.changed[i]
<1> DEFINE ticks == [c.changed EXCEPT ![row] = tick]
<1>1. c.changed \in Seq(Ticks)
  BY DEF Columns
<1>2. /\ ticks \in Seq(Ticks) /\ Len(ticks) = Len(c.changed)
      /\ \A i \in 1 .. Len(c.changed) : ticks[i] = IF i = row THEN tick ELSE c.changed[i]
  BY <1>1
<1>3. Touch(c, row) = [c EXCEPT !.changed = ticks]
  BY DEF Touch
<1> HIDE DEF ticks
<1> QED
  BY <1>2, <1>3 DEF Columns

-----------------------------------------------------------------------------
(* The inductive invariant.                                                 *)

\* A component is in one row of one table.
Alone ==
  \A t, u \in Tables : \A i \in DOMAIN columns[t].data, j \in DOMAIN columns[u].data :
    columns[t].data[i] = columns[u].data[j] => t = u /\ i = j

Tracked ==
  ~zeroSized => \A t \in Tables : /\ Covered(columns[t])
                                  /\ t \in tables => HasTicks(columns[t])

\* The tick of the last event for the filter.
At(e) == IF filter = "added" THEN addedAt[e] ELSE changedAt[e]

\* The sets of the history, in ticks.
Timely ==
  /\ \A e \in Entities : addedAt[e] <= tick /\ changedAt[e] <= tick
  /\ \A e \in Entities \ recent : At(e) < tick
  /\ \A e \in pending : At(e) >= lastRun
  /\ \A e \in quiet : At(e) < lastRun
  /\ query = "called" => current = tick /\ \A e \in during : At(e) = tick

IInv ==
  /\ TypeOK
  /\ columns \in [Tables -> Columns]
  /\ Alone /\ Tracked /\ TicksExact /\ Timely
  /\ OnlyZeroSizedCrash

-----------------------------------------------------------------------------
(* Where a component is.                                                    *)

Stored(e) == \E t \in Tables : \E i \in DOMAIN columns[t].data : columns[t].data[i] = e

\* A component is present where it is stored in some row.
LEMMA PresentIsStored == \A e : e \in Present <=> Stored(e)
BY DEF Present, Stored, ToSet

\* The same of the next state.
LEMMA PresentIsStoredNext == \A e : e \in Present' <=> Stored(e)'
BY DEF Present, Stored, ToSet

\* A present component is in the row where TableOf and RowOf find it.
LEMMA Located ==
  ASSUME NEW e \in Present
  PROVE  /\ TableOf(e) \in Tables
         /\ RowOf(TableOf(e), e) \in DOMAIN columns[TableOf(e)].data
         /\ columns[TableOf(e)].data[RowOf(TableOf(e), e)] = e
<1>1. TableOf(e) \in Tables /\ e \in ToSet(columns[TableOf(e)].data)
  BY DEF Present, TableOf
<1> QED
  BY <1>1 DEF RowOf, ToSet

\* What TypeOK says of a column.
ColumnTyped(t) ==
  /\ columns[t].data \in Seq(Entities) /\ IsInjective(columns[t].data)
  /\ columns[t].added \in Seq(Ticks) /\ columns[t].changed \in Seq(Ticks)

\* The columns of the invariant are columns in the sense of TypeOK.
LEMMA ColumnsTyped ==
  ASSUME columns \in [Tables -> Columns], Alone
  PROVE  \A t \in Tables : ColumnTyped(t)
<1> TAKE t \in Tables
<1>1. columns[t] \in Columns
  OBVIOUS
<1>2. IsInjective(columns[t].data)
  BY DEF Alone, IsInjective
<1> QED
  BY <1>1, <1>2 DEF Columns, ColumnTyped

\* The same of the next state.
LEMMA ColumnsTypedNext ==
  ASSUME columns' \in [Tables -> Columns], Alone'
  PROVE  \A t \in Tables : ColumnTyped(t)'
<1> TAKE t \in Tables
<1>1. columns'[t] \in Columns
  OBVIOUS
<1>2. IsInjective(columns'[t].data)
  BY DEF Alone, IsInjective
<1> QED
  BY <1>1, <1>2 DEF Columns, ColumnTyped

\* Empty columns satisfy the invariant.
LEMMA InitHolds == Init => IInv
<1> SUFFICES ASSUME Init PROVE IInv
  OBVIOUS
<1>1. /\ columns \in [Tables -> Columns]
      /\ \A t \in Tables : /\ columns[t].data = <<>> /\ columns[t].added = <<>>
                           /\ columns[t].changed = <<>>
  BY DEF Init, EmptyColumn, Columns
<1>2. Present = {}
  BY <1>1, PresentIsStored DEF Stored
<1>3. Alone /\ Tracked
  BY <1>1 DEF Init, Alone, Tracked, Covered
<1>4. TypeOK
  <2>1. \A t \in Tables : ColumnTyped(t)
    BY <1>1, <1>3, ColumnsTyped
  <2>2. 1 \in Ticks
    BY TicksAssumption DEF Ticks
  <2>3. zeroSized \in BOOLEAN /\ running \in BOOLEAN /\ crashed \in BOOLEAN
    BY DEF Init
  <2>4. /\ addedAt \in [Entities -> 0 .. MaxTick] /\ changedAt \in [Entities -> 0 .. MaxTick]
        /\ lastRun \in 0 .. tick
    BY TicksAssumption DEF Init
  <2> QED
    BY <1>2, <2>1, <2>2, <2>3, <2>4 DEF Init, TypeOK, ColumnTyped
<1>5. TicksExact
  BY <1>1 DEF TicksExact, Everywhere
<1>6. Timely /\ OnlyZeroSizedCrash
  BY DEF Init, Timely, At, OnlyZeroSizedCrash
<1> QED
  BY <1>1, <1>3, <1>4, <1>5, <1>6 DEF IInv

-----------------------------------------------------------------------------
(* The steps that move rows.                                                *)

\* TicksExact, with the lambda written out.
Exact(c, i) ==
  /\ c.data[i] \notin foreignAdded => c.added[i] = addedAt[c.data[i]]
  /\ c.data[i] \notin foreignChanged => c.changed[i] = changedAt[c.data[i]]

\* TicksExact, row by row.
LEMMA ExactMeans ==
  TicksExact <=> (~zeroSized => \A t \in Tables : \A i \in DOMAIN columns[t].data : Exact(columns[t], i))
BY DEF TicksExact, Everywhere, Exact

\* The same of the next state.
LEMMA ExactMeansNext ==
  TicksExact' <=> (~zeroSized' =>
    \A t \in Tables : \A i \in DOMAIN columns'[t].data : Exact(columns[t], i)')
BY DEF TicksExact, Everywhere, Exact

\* A push gives the new row the tick of the world, or inherits one that a removal left.
LEMMA AddKeeps ==
  ASSUME IInv, NEW e \in Entities, NEW t \in Tables, AddComponent(e, t)
  PROVE  IInv'
<1> DEFINE c == columns[t]
           d == Push(c, e)
<1>1. c \in Columns /\ tick \in Ticks /\ zeroSized \in BOOLEAN
  BY DEF IInv, TypeOK
<1>2. /\ d \in Columns
      /\ c.data \in Seq(Entities) /\ d.data \in Seq(Entities)
      /\ Len(d.data) = Len(c.data) + 1
      /\ \A i \in 1 .. Len(c.data) : d.data[i] = c.data[i]
      /\ d.data[Len(c.data) + 1] = e
      /\ ~zeroSized /\ Covered(c) =>
           /\ Covered(d) /\ HasTicks(d)
           /\ \A i \in 1 .. Len(c.data) : d.added[i] = c.added[i] /\ d.changed[i] = c.changed[i]
           /\ ~KeepsOldTick(c) => /\ d.added[Len(c.data) + 1] = tick
                                  /\ d.changed[Len(c.data) + 1] = tick
  BY <1>1, PushColumn DEF Columns
<1>3. columns' = [columns EXCEPT ![t] = d]
  BY DEF AddComponent
<1> HIDE DEF d
<1>4. /\ columns' \in [Tables -> Columns]
      /\ columns'[t] = d
      /\ \A u \in Tables : u # t => columns'[u] = columns[u]
  BY <1>2, <1>3 DEF IInv
<1>5. /\ DOMAIN d.data = 1 .. Len(c.data) + 1
      /\ DOMAIN c.data = 1 .. Len(c.data) /\ Len(c.data) \in Nat
  BY <1>2
<1>6. /\ \A i \in DOMAIN d.data : i \in DOMAIN c.data \/ (i = Len(c.data) + 1 /\ d.data[i] = e)
      /\ \A i \in DOMAIN c.data : i \in DOMAIN d.data /\ d.data[i] = c.data[i] /\ i # Len(c.data) + 1
  <2>1. /\ \A i \in 1 .. Len(c.data) + 1 : i \in 1 .. Len(c.data) \/ i = Len(c.data) + 1
        /\ \A i \in 1 .. Len(c.data) : i \in 1 .. Len(c.data) + 1 /\ i # Len(c.data) + 1
    BY <1>5
  <2>2. d.data[Len(c.data) + 1] = e /\ \A i \in 1 .. Len(c.data) : d.data[i] = c.data[i]
    BY <1>2
  <2> HIDE DEF c
  <2> QED
    BY <1>5, <2>1, <2>2
<1>7. \A u \in Tables : \A i \in DOMAIN columns[u].data : columns[u].data[i] # e
  BY PresentIsStored DEF AddComponent, Stored
<1>8. Alone'
  <2> SUFFICES ASSUME NEW u \in Tables, NEW v \in Tables,
                      NEW i \in DOMAIN columns'[u].data, NEW j \in DOMAIN columns'[v].data,
                      columns'[u].data[i] = columns'[v].data[j]
               PROVE  u = v /\ i = j
    BY DEF Alone
  <2>1. CASE u = t /\ v = t
    BY <1>4, <1>6, <1>7, <2>1 DEF IInv, Alone
  <2>2. CASE u = t /\ v # t
    BY <1>4, <1>6, <1>7, <2>2 DEF IInv, Alone
  <2>3. CASE u # t /\ v = t
    BY <1>4, <1>6, <1>7, <2>3 DEF IInv, Alone
  <2>4. CASE u # t /\ v # t
    BY <1>4, <2>4 DEF IInv, Alone
  <2> QED
    BY <2>1, <2>2, <2>3, <2>4
<1>9. Present \union {e} \subseteq Present'
  <2>1. e \in Present'
    BY <1>2, <1>4, PresentIsStoredNext DEF Stored
  <2>2. ASSUME NEW f \in Present PROVE f \in Present'
    BY <1>4, <1>6, PresentIsStored, PresentIsStoredNext DEF Stored
  <2> QED
    BY <2>1, <2>2
<1>10. Tracked'
  BY <1>2, <1>4 DEF IInv, Tracked, AddComponent, kinds
<1>11. TicksExact'
  <2> SUFFICES ASSUME ~zeroSized, NEW u \in Tables, NEW i \in DOMAIN columns'[u].data
               PROVE  Exact(columns[u], i)'
    BY ExactMeansNext DEF AddComponent, kinds
  <2>1. Covered(c)
    BY DEF IInv, Tracked
  <2>2. addedAt \in [Entities -> 0 .. MaxTick] /\ changedAt \in [Entities -> 0 .. MaxTick]
    BY DEF IInv, TypeOK
  <2>3. CASE u = t /\ i = Len(c.data) + 1
    <3>1. addedAt'[e] = tick /\ changedAt'[e] = tick /\ columns'[u].data[i] = e
      BY <1>2, <1>4, <2>2, <2>3 DEF AddComponent, Stamp
    <3>2. CASE KeepsOldTick(c)
      BY <3>1, <3>2 DEF AddComponent, Mislabel, Exact
    <3>3. CASE ~KeepsOldTick(c)
      BY <1>2, <1>4, <2>1, <2>3, <3>1, <3>3 DEF Exact
    <3> QED
      BY <3>2, <3>3
  <2>4. CASE ~(u = t /\ i = Len(c.data) + 1)
    <3>1. /\ i \in DOMAIN columns[u].data
          /\ columns'[u].data[i] = columns[u].data[i]
          /\ columns'[u].added[i] = columns[u].added[i]
          /\ columns'[u].changed[i] = columns[u].changed[i]
      <4>1. CASE u = t
        <5>1. i \in 1 .. Len(c.data)
          BY <1>4, <1>5, <1>6, <2>4, <4>1
        <5> QED
          BY <1>2, <1>4, <2>1, <4>1, <5>1
      <4>2. CASE u # t
        BY <1>4, <4>2
      <4> QED
        BY <4>1, <4>2
    <3>2. Exact(columns[u], i) /\ columns[u].data[i] # e
      BY <1>7, <3>1, ExactMeans DEF IInv
    <3>3. columns[u].data[i] \in Entities
      BY <3>1 DEF IInv, Columns
    <3> DEFINE f == columns[u].data[i]
    <3>4. addedAt'[f] = addedAt[f] /\ changedAt'[f] = changedAt[f]
      BY <2>2, <3>2, <3>3 DEF AddComponent, Stamp
    <3>5. /\ f \in foreignAdded' <=> f \in foreignAdded
          /\ f \in foreignChanged' <=> f \in foreignChanged
      BY <3>2 DEF AddComponent, Mislabel
    <3> QED
      BY <3>1, <3>2, <3>4, <3>5 DEF Exact
  <2> QED
    BY <2>3, <2>4
<1>12. TypeOK'
  <2>1. \A u \in Tables : ColumnTyped(u)'
    BY <1>4, <1>8, ColumnsTypedNext
  <2>2. /\ foreignAdded' \subseteq Present' /\ foreignChanged' \subseteq Present'
    BY <1>9 DEF AddComponent, Mislabel, IInv, TypeOK
  <2>3. /\ pending' \subseteq Present' /\ during' \subseteq Present'
        /\ recent' \subseteq Present' /\ quiet' \subseteq Present'
    BY <1>9 DEF AddComponent, Report, IInv, TypeOK
  <2>4. addedAt' \in [Entities -> 0 .. MaxTick] /\ changedAt' \in [Entities -> 0 .. MaxTick]
    BY TicksAssumption DEF AddComponent, Stamp, IInv, TypeOK, Ticks
  <2> QED
    BY <2>1, <2>2, <2>3, <2>4
    DEF AddComponent, IInv, TypeOK, ColumnTyped, kinds, queryState
<1>13. Timely'
  BY DEF AddComponent, Stamp, Report, IInv, TypeOK, Timely, At, Ticks, kinds, queryState
<1> QED
  BY <1>4, <1>8, <1>10, <1>11, <1>12, <1>13
  DEF IInv, OnlyZeroSizedCrash, AddComponent, kinds

\* swap_remove leaves the ticks of the removed row to the component that fills it.
LEMMA RemoveKeeps ==
  ASSUME IInv, NEW e \in Entities, RemoveComponent(e)
  PROVE  IInv'
<1> DEFINE t == TableOf(e)
           row == RowOf(t, e)
           c == columns[t]
           d == SwapRemove(c, row)
           last == c.data[Len(c.data)]
<1>1. t \in Tables /\ row \in DOMAIN c.data /\ c.data[row] = e
  BY Located DEF RemoveComponent
<1>2. c \in Columns /\ columns \in [Tables -> Columns]
  BY <1>1 DEF IInv
<1>3. /\ d \in Columns
      /\ c.data \in Seq(Entities) /\ d.data \in Seq(Entities)
      /\ Len(d.data) = Len(c.data) - 1
      /\ \A i \in 1 .. Len(c.data) - 1 : d.data[i] = IF i = row THEN last ELSE c.data[i]
      /\ d.added = c.added /\ d.changed = c.changed
  BY <1>1, <1>2, SwapColumn DEF Columns
<1>4. columns' = [columns EXCEPT ![t] = d]
  BY DEF RemoveComponent
<1>5. Moved(c, row) = {last} \ {e}
  BY <1>1 DEF Moved, Last
<1>6. /\ foreignAdded' = (foreignAdded \union ({last} \ {e})) \ {e}
      /\ foreignChanged' = (foreignChanged \union ({last} \ {e})) \ {e}
  BY <1>5 DEF RemoveComponent, Mislabel
<1>7. addedAt' = [addedAt EXCEPT ![e] = 0] /\ changedAt' = [changedAt EXCEPT ![e] = 0]
  BY DEF RemoveComponent
<1>8. Report({}, {e}) /\ UNCHANGED <<kinds, tick, running, tables, queryState, crashed>>
  BY DEF RemoveComponent
<1> HIDE DEF t, row, d
<1>9. /\ columns' \in [Tables -> Columns]
      /\ columns'[t] = d
      /\ \A u \in Tables : u # t => columns'[u] = columns[u]
  BY <1>1, <1>2, <1>3, <1>4
<1>10. \A i \in DOMAIN d.data :
         /\ i \in DOMAIN c.data /\ i # Len(c.data)
         /\ i # row => d.data[i] = c.data[i]
         /\ i = row => d.data[i] = last
  BY <1>3
<1>11. /\ Len(c.data) \in DOMAIN c.data
       /\ \A i \in DOMAIN c.data : i # Len(c.data) => i \in DOMAIN d.data
  BY <1>1, <1>3
<1>12. \A u \in Tables : \A i \in DOMAIN columns[u].data :
         columns[u].data[i] = e => u = t /\ i = row
  BY <1>1 DEF IInv, Alone
<1>13. Alone'
  <2> SUFFICES ASSUME NEW u \in Tables, NEW v \in Tables,
                      NEW i \in DOMAIN columns'[u].data, NEW j \in DOMAIN columns'[v].data,
                      columns'[u].data[i] = columns'[v].data[j]
               PROVE  u = v /\ i = j
    BY DEF Alone
  <2>1. CASE u = t /\ v = t
    BY <1>1, <1>9, <1>10, <1>11, <2>1 DEF IInv, Alone
  <2>2. CASE u = t /\ v # t
    BY <1>1, <1>9, <1>10, <1>11, <2>2 DEF IInv, Alone
  <2>3. CASE u # t /\ v = t
    BY <1>1, <1>9, <1>10, <1>11, <2>3 DEF IInv, Alone
  <2>4. CASE u # t /\ v # t
    BY <1>9, <2>4 DEF IInv, Alone
  <2> QED
    BY <2>1, <2>2, <2>3, <2>4
<1>14. Present \ {e} \subseteq Present'
  <2> SUFFICES ASSUME NEW f \in Present, f # e PROVE Stored(f)'
    BY PresentIsStoredNext
  <2>1. PICK u \in Tables : \E i \in DOMAIN columns[u].data : columns[u].data[i] = f
    BY PresentIsStored DEF Stored
  <2>2. PICK i \in DOMAIN columns[u].data : columns[u].data[i] = f
    BY <2>1
  <2>3. CASE u # t
    BY <1>9, <2>2, <2>3 DEF Stored
  <2>4. CASE u = t /\ i # Len(c.data)
    <3>1. i \in DOMAIN d.data /\ i # row
      BY <1>1, <1>11, <2>2, <2>4
    <3> QED
      BY <1>1, <1>9, <1>10, <2>2, <2>4, <3>1 DEF Stored
  <2>5. CASE u = t /\ i = Len(c.data)
    <3>1. row \in DOMAIN d.data /\ d.data[row] = f
      BY <1>1, <1>10, <1>11, <2>2, <2>5
    <3> QED
      BY <1>1, <1>9, <3>1 DEF Stored
  <2> QED
    BY <2>3, <2>4, <2>5
<1>15. last # e => last \in Present
  BY <1>1, <1>11, PresentIsStored DEF Stored
<1>16. Tracked'
  <2> SUFFICES ASSUME ~zeroSized
               PROVE  \A u \in Tables : /\ Covered(columns'[u])
                                        /\ u \in tables => HasTicks(columns'[u])
    BY <1>8 DEF Tracked, kinds
  <2>1. Covered(d)
    BY <1>1, <1>2, <1>3 DEF IInv, Tracked, Covered, Columns
  <2>2. t \in tables => HasTicks(d)
    BY <1>1, <1>3 DEF IInv, Tracked, HasTicks
  <2> QED
    BY <1>1, <1>9, <2>1, <2>2 DEF IInv, Tracked
<1>17. TicksExact'
  <2> SUFFICES ASSUME ~zeroSized, NEW u \in Tables, NEW i \in DOMAIN columns'[u].data
               PROVE  Exact(columns[u], i)'
    BY <1>8, ExactMeansNext DEF kinds
  <2>1. addedAt \in [Entities -> 0 .. MaxTick] /\ changedAt \in [Entities -> 0 .. MaxTick]
    BY DEF IInv, TypeOK
  <2>2. CASE u = t /\ i = row
    <3>1. columns'[u].data[i] = last /\ last # e
      BY <1>1, <1>9, <1>10, <1>11, <1>12, <2>2
    <3> QED
      BY <1>6, <3>1 DEF Exact
  <2>3. CASE ~(u = t /\ i = row)
    <3>1. /\ i \in DOMAIN columns[u].data
          /\ columns'[u].data[i] = columns[u].data[i]
          /\ columns'[u].added[i] = columns[u].added[i]
          /\ columns'[u].changed[i] = columns[u].changed[i]
      BY <1>3, <1>9, <1>10, <2>3
    <3>2. Exact(columns[u], i) /\ columns[u].data[i] # e
      BY <1>12, <2>3, <3>1, ExactMeans DEF IInv
    <3>3. columns[u].data[i] \in Entities
      BY <1>2, <3>1 DEF Columns
    <3> DEFINE f == columns[u].data[i]
    <3>4. addedAt'[f] = addedAt[f] /\ changedAt'[f] = changedAt[f]
      BY <1>7, <2>1, <3>2, <3>3
    <3>5. /\ f \notin foreignAdded' => f \notin foreignAdded
          /\ f \notin foreignChanged' => f \notin foreignChanged
      BY <1>6, <3>2
    <3> QED
      BY <3>1, <3>2, <3>4, <3>5 DEF Exact
  <2> QED
    BY <2>2, <2>3
<1>18. TypeOK'
  <2>1. \A u \in Tables : ColumnTyped(u)'
    BY <1>9, <1>13, ColumnsTypedNext
  <2>2. foreignAdded' \subseteq Present' /\ foreignChanged' \subseteq Present'
    BY <1>6, <1>14, <1>15 DEF IInv, TypeOK
  <2>3. /\ pending' \subseteq Present' /\ during' \subseteq Present'
        /\ recent' \subseteq Present' /\ quiet' \subseteq Present'
    BY <1>8, <1>14 DEF Report, IInv, TypeOK
  <2>4. addedAt' \in [Entities -> 0 .. MaxTick] /\ changedAt' \in [Entities -> 0 .. MaxTick]
    BY <1>7, TicksAssumption DEF IInv, TypeOK
  <2> QED
    BY <1>8, <2>1, <2>2, <2>3, <2>4 DEF IInv, TypeOK, ColumnTyped, kinds, queryState
<1>19. Timely'
  BY <1>7, <1>8 DEF Report, IInv, TypeOK, Timely, At, Ticks, kinds, queryState
<1> QED
  BY <1>8, <1>9, <1>13, <1>16, <1>17, <1>18, <1>19 DEF IInv, OnlyZeroSizedCrash, kinds

\* A component that moves leaves one column as a removal does and enters one as a push does.
LEMMA MoveKeeps ==
  ASSUME IInv, NEW e \in Entities, NEW w \in Tables, MoveComponent(e, w)
  PROVE  IInv'
<1> DEFINE t == TableOf(e)
           row == RowOf(t, e)
           c == columns[t]
           d == SwapRemove(c, row)
           last == c.data[Len(c.data)]
           a == columns[w]
           b == Push(a, e)
           new == Len(a.data) + 1
<1>1. t \in Tables /\ row \in DOMAIN c.data /\ c.data[row] = e /\ w # t
  BY Located DEF MoveComponent
<1>2. /\ c \in Columns /\ a \in Columns /\ columns \in [Tables -> Columns]
      /\ tick \in Ticks /\ zeroSized \in BOOLEAN
  BY <1>1 DEF IInv, TypeOK
<1>3. /\ d \in Columns
      /\ c.data \in Seq(Entities) /\ d.data \in Seq(Entities)
      /\ Len(d.data) = Len(c.data) - 1
      /\ \A i \in 1 .. Len(c.data) - 1 : d.data[i] = IF i = row THEN last ELSE c.data[i]
      /\ d.added = c.added /\ d.changed = c.changed
  BY <1>1, <1>2, SwapColumn DEF Columns
<1>4. /\ b \in Columns
      /\ a.data \in Seq(Entities) /\ b.data \in Seq(Entities)
      /\ Len(b.data) = new
      /\ \A i \in 1 .. Len(a.data) : b.data[i] = a.data[i]
      /\ b.data[new] = e
      /\ ~zeroSized /\ Covered(a) =>
           /\ Covered(b) /\ HasTicks(b)
           /\ \A i \in 1 .. Len(a.data) : b.added[i] = a.added[i] /\ b.changed[i] = a.changed[i]
           /\ ~KeepsOldTick(a) => b.added[new] = tick /\ b.changed[new] = tick
  BY <1>2, PushColumn DEF Columns
<1>5. columns' = [columns EXCEPT ![w] = b, ![t] = d]
  BY DEF MoveComponent
<1>6. Moved(c, row) = {last} \ {e}
  BY <1>1 DEF Moved, Last
<1>7. /\ KeepsOldTick(a) =>
           /\ foreignAdded' = foreignAdded \union ({last} \ {e}) \union {e}
           /\ foreignChanged' = foreignChanged \union ({last} \ {e}) \union {e}
      /\ ~KeepsOldTick(a) =>
           /\ foreignAdded' = (foreignAdded \union ({last} \ {e})) \ {e}
           /\ foreignChanged' = (foreignChanged \union ({last} \ {e})) \ {e}
  <2>1. Mislabel(Moved(c, row) \union (IF KeepsOldTick(a) THEN {e} ELSE {}),
                 IF KeepsOldTick(a) THEN {} ELSE {e})
    BY DEF MoveComponent
  <2>2. CASE KeepsOldTick(a)
    BY <1>6, <2>1, <2>2 DEF Mislabel
  <2>3. CASE ~KeepsOldTick(a)
    BY <1>6, <2>1, <2>3 DEF Mislabel
  <2> QED
    BY <2>2, <2>3
<1>8. /\ addedAt' = [addedAt EXCEPT ![e] = tick] /\ changedAt' = [changedAt EXCEPT ![e] = tick]
      /\ Report({e}, {}) /\ tables' = tables \union {w}
      /\ UNCHANGED <<kinds, tick, running, queryState, crashed>>
  BY DEF MoveComponent, Stamp
<1> HIDE DEF t, row, d, b
<1>9. /\ columns' \in [Tables -> Columns]
      /\ columns'[t] = d /\ columns'[w] = b
      /\ \A u \in Tables : u # t /\ u # w => columns'[u] = columns[u]
  BY <1>1, <1>2, <1>3, <1>4, <1>5
<1>10. \A i \in DOMAIN d.data :
         /\ i \in DOMAIN c.data /\ i # Len(c.data)
         /\ i # row => d.data[i] = c.data[i]
         /\ i = row => d.data[i] = last
  BY <1>3
<1>11. /\ Len(c.data) \in DOMAIN c.data
       /\ \A i \in DOMAIN c.data : i # Len(c.data) => i \in DOMAIN d.data
  BY <1>1, <1>3
<1>12. \A u \in Tables : \A i \in DOMAIN columns[u].data :
         columns[u].data[i] = e => u = t /\ i = row
  BY <1>1 DEF IInv, Alone
<1>13. /\ \A i \in DOMAIN b.data :
            \/ i \in DOMAIN a.data /\ b.data[i] = a.data[i] /\ b.data[i] # e
            \/ i = new /\ b.data[i] = e
       /\ \A i \in DOMAIN a.data : i \in DOMAIN b.data /\ b.data[i] = a.data[i]
  <2>1. DOMAIN b.data = 1 .. new /\ DOMAIN a.data = 1 .. Len(a.data) /\ Len(a.data) \in Nat
    BY <1>4
  <2>2. /\ \A i \in 1 .. new : i \in 1 .. Len(a.data) \/ i = new
        /\ \A i \in 1 .. Len(a.data) : i \in 1 .. new
    BY <2>1
  <2>3. b.data[new] = e /\ \A i \in 1 .. Len(a.data) : b.data[i] = a.data[i]
    BY <1>4
  <2>4. \A i \in DOMAIN a.data : a.data[i] # e
    BY <1>1, <1>12
  <2> HIDE DEF new, a
  <2> QED
    BY <2>1, <2>2, <2>3, <2>4
<1>14. \A i \in DOMAIN d.data : d.data[i] # e
  BY <1>1, <1>10, <1>11, <1>12
<1>15. Alone'
  <2> SUFFICES ASSUME NEW u \in Tables, NEW v \in Tables,
                      NEW i \in DOMAIN columns'[u].data, NEW j \in DOMAIN columns'[v].data,
                      columns'[u].data[i] = columns'[v].data[j]
               PROVE  u = v /\ i = j
    BY DEF Alone
  <2> DEFINE f == columns'[u].data[i]
  \* The row that a component other than the moved one came from.
  <2>1. ASSUME NEW x \in Tables, NEW k \in DOMAIN columns'[x].data, columns'[x].data[k] # e
        PROVE  \E l \in DOMAIN columns[x].data :
                 /\ columns[x].data[l] = columns'[x].data[k]
                 /\ x # t => l = k
                 /\ x = t => l = IF k = row THEN Len(c.data) ELSE k
                 /\ x = t => k # Len(c.data)
    <3>1. CASE x = t
      BY <1>9, <1>10, <1>11, <2>1, <3>1
    <3>2. CASE x = w
      BY <1>1, <1>9, <1>13, <2>1, <3>2
    <3>3. CASE x # t /\ x # w
      BY <1>9, <3>3
    <3> QED
      BY <3>1, <3>2, <3>3
  <2>2. CASE columns'[u].data[i] = e
    <3>1. ASSUME NEW x \in Tables, NEW k \in DOMAIN columns'[x].data, columns'[x].data[k] = e
          PROVE  x = w /\ k = new
      <4>1. x # t
        BY <1>9, <1>14, <3>1
      <4>2. x = w
        BY <1>9, <1>12, <3>1, <4>1
      <4> QED
        BY <1>9, <1>13, <3>1, <4>2
    <3> QED
      BY <2>2, <3>1
  <2>3. CASE columns'[u].data[i] # e
    <3>1. PICK k \in DOMAIN columns[u].data :
            /\ columns[u].data[k] = columns'[u].data[i]
            /\ u # t => k = i
            /\ u = t => k = IF i = row THEN Len(c.data) ELSE i
            /\ u = t => i # Len(c.data)
      BY <2>1, <2>3
    <3>2. PICK l \in DOMAIN columns[v].data :
            /\ columns[v].data[l] = columns'[v].data[j]
            /\ v # t => l = j
            /\ v = t => l = IF j = row THEN Len(c.data) ELSE j
            /\ v = t => j # Len(c.data)
      BY <2>1, <2>3
    <3>3. u = v /\ k = l
      BY <3>1, <3>2 DEF IInv, Alone
    <3> QED
      BY <3>1, <3>2, <3>3
  <2> QED
    BY <2>2, <2>3
<1>16. Present \subseteq Present' /\ e \in Present'
  <2>1. Stored(e)'
    <3>1. new \in DOMAIN b.data
      BY <1>4
    <3> QED
      BY <1>4, <1>9, <3>1 DEF Stored
  <2>2. ASSUME NEW f \in Present, f # e PROVE Stored(f)'
    <3>1. PICK u \in Tables : \E i \in DOMAIN columns[u].data : columns[u].data[i] = f
      BY PresentIsStored DEF Stored
    <3>2. PICK i \in DOMAIN columns[u].data : columns[u].data[i] = f
      BY <3>1
    <3>3. CASE u # t
      BY <1>9, <1>13, <3>2, <3>3 DEF Stored
    <3>4. CASE u = t /\ i # Len(c.data)
      <4>1. i \in DOMAIN d.data /\ i # row
        BY <1>1, <1>11, <2>2, <3>2, <3>4
      <4> QED
        BY <1>1, <1>9, <1>10, <3>2, <3>4, <4>1 DEF Stored
    <3>5. CASE u = t /\ i = Len(c.data)
      <4>1. row \in DOMAIN d.data /\ d.data[row] = f
        BY <1>1, <1>10, <1>11, <2>2, <3>2, <3>5
      <4> QED
        BY <1>1, <1>9, <4>1 DEF Stored
    <3> QED
      BY <3>3, <3>4, <3>5
  <2> QED
    BY <2>1, <2>2, PresentIsStoredNext
<1>17. last \in Present
  BY <1>1, <1>11, PresentIsStored DEF Stored
<1>18. Tracked'
  <2> SUFFICES ASSUME ~zeroSized
               PROVE  \A u \in Tables : /\ Covered(columns'[u])
                                        /\ u \in tables' => HasTicks(columns'[u])
    BY <1>8 DEF Tracked, kinds
  <2>1. Covered(d)
    BY <1>1, <1>2, <1>3 DEF IInv, Tracked, Covered, Columns
  <2>2. t \in tables => HasTicks(d)
    BY <1>1, <1>3 DEF IInv, Tracked, HasTicks
  <2>3. Covered(b) /\ HasTicks(b)
    BY <1>4 DEF IInv, Tracked
  <2> QED
    BY <1>1, <1>8, <1>9, <2>1, <2>2, <2>3 DEF IInv, Tracked
<1>19. TicksExact'
  <2> SUFFICES ASSUME ~zeroSized, NEW u \in Tables, NEW i \in DOMAIN columns'[u].data
               PROVE  Exact(columns[u], i)'
    BY <1>8, ExactMeansNext DEF kinds
  <2>1. addedAt \in [Entities -> 0 .. MaxTick] /\ changedAt \in [Entities -> 0 .. MaxTick]
    BY DEF IInv, TypeOK
  <2>2. Covered(a)
    BY DEF IInv, Tracked
  <2>3. CASE u = t /\ i = row
    <3>1. columns'[u].data[i] = last /\ last # e
      BY <1>9, <1>10, <1>14, <2>3
    <3> QED
      BY <1>7, <3>1 DEF Exact
  <2>4. CASE u = w /\ i = new
    <3>1. addedAt'[e] = tick /\ changedAt'[e] = tick /\ columns'[u].data[i] = e
      BY <1>4, <1>8, <1>9, <2>1, <2>4
    <3>2. CASE KeepsOldTick(a)
      BY <1>7, <3>1, <3>2 DEF Exact
    <3>3. CASE ~KeepsOldTick(a)
      BY <1>4, <1>9, <2>2, <2>4, <3>1, <3>3 DEF Exact
    <3> QED
      BY <3>2, <3>3
  <2>5. CASE ~(u = t /\ i = row) /\ ~(u = w /\ i = new)
    <3>1. /\ i \in DOMAIN columns[u].data
          /\ columns'[u].data[i] = columns[u].data[i]
          /\ columns'[u].added[i] = columns[u].added[i]
          /\ columns'[u].changed[i] = columns[u].changed[i]
      <4>1. CASE u = t
        BY <1>3, <1>9, <1>10, <2>5, <4>1
      <4>2. CASE u = w
        <5>1. i \in DOMAIN a.data /\ b.data[i] = a.data[i]
          BY <1>9, <1>13, <2>5, <4>2
        <5>2. i \in 1 .. Len(a.data)
          BY <1>4, <5>1
        <5> QED
          BY <1>4, <1>9, <2>2, <4>2, <5>1, <5>2
      <4>3. CASE u # t /\ u # w
        BY <1>9, <4>3
      <4> QED
        BY <4>1, <4>2, <4>3
    <3>2. Exact(columns[u], i) /\ columns[u].data[i] # e
      BY <1>12, <2>5, <3>1, ExactMeans DEF IInv
    <3>3. columns[u].data[i] \in Entities
      BY <1>2, <3>1 DEF Columns
    <3> DEFINE f == columns[u].data[i]
    <3>4. addedAt'[f] = addedAt[f] /\ changedAt'[f] = changedAt[f]
      BY <1>8, <2>1, <3>2, <3>3
    <3>5. /\ f \notin foreignAdded' => f \notin foreignAdded
          /\ f \notin foreignChanged' => f \notin foreignChanged
      BY <1>7, <3>2
    <3> QED
      BY <3>1, <3>2, <3>4, <3>5 DEF Exact
  <2> QED
    BY <2>3, <2>4, <2>5
<1>20. TypeOK'
  <2>1. \A u \in Tables : ColumnTyped(u)'
    BY <1>9, <1>15, ColumnsTypedNext
  <2>2. foreignAdded' \subseteq Present' /\ foreignChanged' \subseteq Present'
    BY <1>7, <1>16, <1>17 DEF IInv, TypeOK
  <2>3. /\ pending' \subseteq Present' /\ during' \subseteq Present'
        /\ recent' \subseteq Present' /\ quiet' \subseteq Present'
    BY <1>8, <1>16 DEF Report, IInv, TypeOK
  <2>4. addedAt' \in [Entities -> 0 .. MaxTick] /\ changedAt' \in [Entities -> 0 .. MaxTick]
    BY <1>8, TicksAssumption DEF IInv, TypeOK, Ticks
  <2> QED
    BY <1>8, <2>1, <2>2, <2>3, <2>4 DEF IInv, TypeOK, ColumnTyped, kinds, queryState
<1>21. Timely'
  BY <1>8 DEF Report, IInv, TypeOK, Timely, At, Ticks, kinds, queryState
<1> QED
  BY <1>8, <1>9, <1>15, <1>18, <1>19, <1>20, <1>21 DEF IInv, OnlyZeroSizedCrash, kinds

-----------------------------------------------------------------------------
(* The steps within a run.                                                  *)

\* A write through Mut sets the changed tick of its row only.
LEMMA WriteKeeps ==
  ASSUME IInv, NEW e \in Entities, Write(e)
  PROVE  IInv'
<1> DEFINE t == TableOf(e)
           row == RowOf(t, e)
           c == columns[t]
           d == Touch(c, row)
<1>1. t \in Tables /\ row \in DOMAIN c.data /\ c.data[row] = e
  BY Located DEF Write
<1>2. c \in Columns /\ columns \in [Tables -> Columns] /\ tick \in Ticks
  BY <1>1 DEF IInv, TypeOK
<1>3. UNCHANGED <<kinds, tick, running, tables, queryState, addedAt, foreignAdded>>
  BY DEF Write
<1>4. CASE row \notin DOMAIN c.changed
  <2>1. crashed' = TRUE /\ UNCHANGED <<columns, changedAt, foreignChanged, news>>
    BY <1>4 DEF Write
  <2>2. zeroSized
    <3>1. ~Covered(c)
      BY <1>1, <1>2, <1>4 DEF Covered, Columns
    <3> QED
      BY <1>1, <3>1 DEF IInv, Tracked
  <2>3. Alone' /\ Tracked' /\ TicksExact'
    BY <1>3, <2>1, <2>2, ExactMeansNext DEF IInv, Alone, Tracked, kinds
  <2>4. Present' = Present
    BY <2>1 DEF Present
  <2>5. \A u \in Tables : ColumnTyped(u)'
    BY <1>2, <2>1, <2>3, ColumnsTypedNext
  <2>6. TypeOK'
    BY <1>3, <2>1, <2>4, <2>5 DEF IInv, TypeOK, ColumnTyped, kinds, queryState, news
  <2>7. Timely'
    BY <1>3, <2>1 DEF IInv, Timely, At, kinds, queryState, news
  <2> QED
    BY <1>2, <1>3, <2>1, <2>2, <2>3, <2>6, <2>7 DEF IInv, OnlyZeroSizedCrash, kinds
<1>5. CASE row \in DOMAIN c.changed
  <2>1. /\ columns' = [columns EXCEPT ![t] = d]
        /\ changedAt' = [changedAt EXCEPT ![e] = tick]
        /\ foreignChanged' = foreignChanged \ {e}
        /\ Report(IF filter = "changed" THEN {e} ELSE {}, {})
        /\ UNCHANGED crashed
    BY <1>5 DEF Write
  <2>2. /\ d \in Columns /\ d.data = c.data /\ d.added = c.added
        /\ Len(d.changed) = Len(c.changed)
        /\ \A i \in 1 .. Len(c.changed) : d.changed[i] = IF i = row THEN tick ELSE c.changed[i]
    BY <1>2, <1>5, TouchColumn
  <2>3. c.data \in Seq(Entities) /\ c.added \in Seq(Ticks) /\ c.changed \in Seq(Ticks)
    BY <1>2 DEF Columns
  <2> HIDE DEF t, row, d
  <2>4. /\ columns' \in [Tables -> Columns]
        /\ columns'[t] = d
        /\ \A u \in Tables : u # t => columns'[u] = columns[u]
    BY <1>1, <1>2, <2>1, <2>2
  <2>5. \A u \in Tables : columns'[u].data = columns[u].data /\ columns'[u].added = columns[u].added
    BY <2>2, <2>4
  <2>6. Alone'
    BY <2>5 DEF IInv, Alone
  <2>7. Present' = Present
    BY <2>5 DEF Present
  <2>8. Tracked'
    BY <1>3, <2>2, <2>4, <2>5 DEF IInv, Tracked, Covered, HasTicks, kinds
  <2>9. addedAt \in [Entities -> 0 .. MaxTick] /\ changedAt \in [Entities -> 0 .. MaxTick]
    BY DEF IInv, TypeOK
  <2>10. TicksExact'
    <3> SUFFICES ASSUME ~zeroSized, NEW u \in Tables, NEW i \in DOMAIN columns'[u].data
                 PROVE  Exact(columns[u], i)'
      BY <1>3, ExactMeansNext DEF kinds
    <3>1. i \in DOMAIN columns[u].data /\ Exact(columns[u], i)
      BY <2>5, ExactMeans DEF IInv
    <3>2. CASE u = t /\ i = row
      <4>1. columns'[u].data[i] = e /\ columns'[u].changed[i] = tick
        <5>1. row \in 1 .. Len(c.changed) /\ c.data[row] = e
          BY <1>1, <1>5, <2>3
        <5>2. d.changed[row] = tick
          BY <2>2, <5>1
        <5> QED
          BY <2>2, <2>4, <3>2, <5>1, <5>2
      <4>2. changedAt'[e] = tick
        BY <2>1, <2>9
      <4>3. columns'[u].data[i] = columns[u].data[i] /\ columns'[u].added[i] = columns[u].added[i]
        BY <2>5
      <4>4. addedAt' = addedAt /\ foreignAdded' = foreignAdded /\ filter' = filter
        BY <1>3 DEF kinds
      <4> QED
        BY <3>1, <4>1, <4>2, <4>3, <4>4 DEF Exact
    <3>3. CASE ~(u = t /\ i = row)
      <4>1. columns[u].data[i] # e /\ columns[u].data[i] \in Entities
        BY <1>1, <1>2, <3>1, <3>3 DEF IInv, Alone, Columns
      <4>2. columns'[u].changed[i] = columns[u].changed[i]
        <5>1. CASE u = t
          <6>1. i \in 1 .. Len(c.changed)
            BY <2>3, <3>1, <5>1 DEF IInv, Tracked, Covered
          <6> QED
            BY <2>2, <2>4, <3>3, <5>1, <6>1
        <5>2. CASE u # t
          BY <2>4, <5>2
        <5> QED
          BY <5>1, <5>2
      <4> DEFINE f == columns[u].data[i]
      <4>3. changedAt'[f] = changedAt[f] /\ (f \in foreignChanged' <=> f \in foreignChanged)
        BY <2>1, <2>9, <4>1
      <4> QED
        BY <1>3, <2>5, <3>1, <4>2, <4>3 DEF Exact
    <3> QED
      BY <3>2, <3>3
  <2>11. TypeOK'
    <3>1. \A u \in Tables : ColumnTyped(u)'
      BY <2>4, <2>6, ColumnsTypedNext
    <3>2. e \in Present
      BY DEF Write
    <3>3. /\ foreignAdded' \subseteq Present' /\ foreignChanged' \subseteq Present'
          /\ pending' \subseteq Present' /\ during' \subseteq Present'
          /\ recent' \subseteq Present' /\ quiet' \subseteq Present'
      BY <1>3, <2>1, <2>7, <3>2 DEF IInv, TypeOK, Report
    <3>4. changedAt' \in [Entities -> 0 .. MaxTick]
      BY <1>2, <2>1, <2>9, TicksAssumption DEF Ticks
    <3> QED
      BY <1>3, <2>1, <3>1, <3>3, <3>4 DEF IInv, TypeOK, ColumnTyped, kinds, queryState
  <2>12. Timely'
    <3>1. filter \in {"added", "changed"} /\ tick \in Int /\ lastRun \in Int /\ lastRun <= tick
      BY DEF IInv, TypeOK, Ticks
    <3>2. CASE filter = "changed"
      BY <1>3, <2>1, <2>9, <3>1, <3>2 DEF Report, IInv, Timely, At, kinds, queryState
    <3>3. CASE filter # "changed"
      BY <1>3, <2>1, <2>9, <3>1, <3>3 DEF Report, IInv, Timely, At, kinds, queryState
    <3> QED
      BY <3>2, <3>3
  <2> QED
    BY <1>3, <2>1, <2>4, <2>6, <2>8, <2>10, <2>11, <2>12 DEF IInv, OnlyZeroSizedCrash, kinds
<1> QED
  BY <1>4, <1>5

\* The other steps leave the columns and the labels alone.
LEMMA ColumnsStay ==
  ASSUME IInv, UNCHANGED <<kinds, tables, columns, labels>>
  PROVE  /\ columns' \in [Tables -> Columns] /\ Present' = Present
         /\ Alone' /\ Tracked' /\ TicksExact'
         /\ \A t \in Tables : ColumnTyped(t)'
<1>1. columns' \in [Tables -> Columns] /\ Present' = Present
  BY DEF IInv, Present
<1>2. Alone' /\ Tracked'
  BY DEF IInv, Alone, Tracked, kinds
<1>3. TicksExact'
  BY ExactMeans, ExactMeansNext DEF IInv, Exact, kinds, labels
<1> QED
  BY <1>1, <1>2, <1>3, ColumnsTypedNext

\* A run begins.
LEMMA RunKeeps == IInv /\ Run => IInv'
<1> SUFFICES ASSUME IInv, Run PROVE IInv'
  OBVIOUS
<1>1. UNCHANGED <<kinds, tables, columns, labels>>
  BY DEF Run
<1>2. TypeOK' /\ Timely' /\ OnlyZeroSizedCrash'
  BY <1>1, ColumnsStay DEF Run, IInv, TypeOK, ColumnTyped, Timely, At, OnlyZeroSizedCrash,
    kinds, queryState, labels, news
<1> QED
  BY <1>1, <1>2, ColumnsStay DEF IInv

\* The query is called.
LEMMA BeforeUpdateKeeps == IInv /\ BeforeUpdate => IInv'
<1> SUFFICES ASSUME IInv, BeforeUpdate PROVE IInv'
  OBVIOUS
<1>1. UNCHANGED <<kinds, tables, columns, labels>>
  BY DEF BeforeUpdate
<1>2. TypeOK' /\ Timely' /\ OnlyZeroSizedCrash'
  BY <1>1, ColumnsStay DEF BeforeUpdate, IInv, TypeOK, ColumnTyped, Timely, At,
    OnlyZeroSizedCrash, kinds, labels
<1> QED
  BY <1>1, <1>2, ColumnsStay DEF IInv

\* An iteration over a type without a size panics.
LEMMA IterateKeeps == IInv /\ IterateWithoutTicks => IInv'
<1> SUFFICES ASSUME IInv, IterateWithoutTicks PROVE IInv'
  OBVIOUS
<1>1. UNCHANGED <<kinds, tables, columns, labels>>
  BY DEF IterateWithoutTicks
<1>2. zeroSized
  BY DEF IterateWithoutTicks, IInv, TypeOK, Tracked
<1>3. TypeOK' /\ Timely' /\ OnlyZeroSizedCrash'
  BY <1>1, <1>2, ColumnsStay DEF IterateWithoutTicks, IInv, TypeOK, ColumnTyped, Timely, At,
    OnlyZeroSizedCrash, kinds, queryState, labels, news
<1> QED
  BY <1>1, <1>3, ColumnsStay DEF IInv

\* The query notes the tick in which it was called.
LEMMA AfterUpdateKeeps == IInv /\ AfterUpdate => IInv'
<1> SUFFICES ASSUME IInv, AfterUpdate PROVE IInv'
  OBVIOUS
<1>1. UNCHANGED <<kinds, tables, columns, labels>>
  BY DEF AfterUpdate
<1>2. TypeOK' /\ OnlyZeroSizedCrash'
  <2>1. current = tick /\ tick \in Ticks
    BY DEF AfterUpdate, IInv, TypeOK, Timely
  <2> QED
    BY <1>1, <2>1, ColumnsStay DEF AfterUpdate, IInv, TypeOK, ColumnTyped, OnlyZeroSizedCrash,
      kinds, labels, Ticks
<1>3. Timely'
  <2>1. Present \subseteq Entities
    BY PresentIsStored DEF Stored, IInv, Columns
  <2> QED
    BY <1>1, <2>1 DEF AfterUpdate, IInv, TypeOK, Timely, At, kinds, labels, Ticks
<1> QED
  BY <1>1, <1>2, <1>3, ColumnsStay DEF IInv

\* The run ends and the tick of the world is advanced.
LEMMA EndRunKeeps == IInv /\ EndRun => IInv'
<1> SUFFICES ASSUME IInv, EndRun PROVE IInv'
  OBVIOUS
<1>1. UNCHANGED <<kinds, tables, columns, labels>>
  BY DEF EndRun
<1>2. TypeOK' /\ OnlyZeroSizedCrash'
  <2>1. tick' \in Ticks /\ lastRun' \in 0 .. tick' /\ current' \in Ticks
    BY TicksAssumption DEF EndRun, IInv, TypeOK, Ticks
  <2>2. /\ running' = FALSE /\ query' = "idle" /\ recent' = {}
        /\ UNCHANGED <<zeroSized, filter, tables, crashed, addedAt, changedAt, foreignAdded,
                      foreignChanged, pending, during, quiet>>
    BY DEF EndRun, kinds, labels
  <2> QED
    BY <1>1, <2>1, <2>2, ColumnsStay DEF IInv, TypeOK, ColumnTyped, OnlyZeroSizedCrash
<1>3. Timely'
  <2>1. \A f \in Entities : addedAt[f] < tick + 1 /\ changedAt[f] < tick + 1
    BY TicksAssumption DEF IInv, TypeOK, Timely, Ticks
  <2> QED
    BY <1>1, <2>1 DEF EndRun, IInv, TypeOK, Timely, At, kinds, labels, Ticks
<1> QED
  BY <1>1, <1>2, <1>3, ColumnsStay DEF IInv

\* The run ends with a panic: the tick stays, and so does what happened in it.
LEMMA FailRunKeeps == IInv /\ FailRun => IInv'
<1> SUFFICES ASSUME IInv, FailRun PROVE IInv'
  OBVIOUS
<1>1. UNCHANGED <<kinds, tables, columns, labels>>
  BY DEF FailRun
<1>2. /\ running' = FALSE /\ query' = "idle" /\ during' = {}
      /\ UNCHANGED <<zeroSized, filter, tick, tables, current, lastRun, crashed, addedAt,
                    changedAt, foreignAdded, foreignChanged, pending, recent, quiet>>
  BY DEF FailRun, kinds, labels
<1>3. TypeOK' /\ OnlyZeroSizedCrash'
  BY <1>1, <1>2, ColumnsStay DEF IInv, TypeOK, ColumnTyped, OnlyZeroSizedCrash
<1>4. Timely'
  BY <1>2 DEF IInv, Timely, At
<1> QED
  BY <1>1, <1>3, <1>4, ColumnsStay DEF IInv

\* Nothing changes.
LEMMA StutterKeeps == IInv /\ UNCHANGED vars => IInv'
<1> SUFFICES ASSUME IInv, UNCHANGED vars PROVE IInv'
  OBVIOUS
<1>1. UNCHANGED <<kinds, tables, columns, labels>>
  BY DEF vars, kinds, labels
<1>2. TypeOK' /\ Timely' /\ OnlyZeroSizedCrash'
  BY <1>1, ColumnsStay DEF vars, IInv, TypeOK, ColumnTyped, Timely, At, OnlyZeroSizedCrash
<1> QED
  BY <1>1, <1>2, ColumnsStay DEF IInv

-----------------------------------------------------------------------------
\* Every step keeps the invariant.
LEMMA InvInductive == IInv /\ [Next]_vars => IInv'
<1> SUFFICES ASSUME IInv, [Next]_vars PROVE IInv'
  OBVIOUS
<1>1. ASSUME NEW e \in Entities, NEW t \in Tables, AddComponent(e, t) PROVE IInv'
  BY <1>1, AddKeeps
<1>2. ASSUME NEW e \in Entities, NEW t \in Tables, MoveComponent(e, t) PROVE IInv'
  BY <1>2, MoveKeeps
<1>3. ASSUME NEW e \in Entities, RemoveComponent(e) PROVE IInv'
  BY <1>3, RemoveKeeps
<1>4. ASSUME NEW e \in Entities, Write(e) PROVE IInv'
  BY <1>4, WriteKeeps
<1> QED
  BY <1>1, <1>2, <1>3, <1>4, RunKeeps, BeforeUpdateKeeps, IterateKeeps, AfterUpdateKeeps,
    EndRunKeeps, FailRunKeeps, StutterKeeps DEF Next

\* The inductive invariant holds: every component is in one row, with its ticks, and
\* the history agrees with the ticks of the query.
THEOREM InvariantHolds == Spec => []IInv
BY InitHolds, InvInductive, PTL DEF Spec

\* Type invariant.
THEOREM TypeCorrect == Spec => []TypeOK
<1>1. IInv => TypeOK
  BY DEF IInv
<1> QED
  BY <1>1, InvariantHolds, PTL

\* The ticks of a row are those of the last addition and change of its component,
\* except after a swap_remove (Column::swap_remove leaves the ticks where they were).
THEOREM TicksAlwaysExact == Spec => []TicksExact
<1>1. IInv => TicksExact
  BY DEF IInv
<1> QED
  BY <1>1, InvariantHolds, PTL

\* Where no tick is mislabelled, a row passes if its event is not older than the last call.
LEMMA PassesMeans ==
  ASSUME IInv, ~zeroSized, NEW t \in Tables, NEW i \in DOMAIN columns[t].data,
         columns[t].data[i] \notin Foreign
  PROVE  Passes(columns[t], i) <=> At(columns[t].data[i]) >= lastRun
<1>1. Exact(columns[t], i)
  BY ExactMeans DEF IInv
<1> QED
  BY <1>1 DEF Exact, Foreign, Passes, At, IInv, TypeOK

\* A query with an Added or a Changed filter passes every component that was added or
\* changed since its last call that did not panic began (Added::apply_dynamic,
\* Changed::apply_dynamic), whatever calls and runs have failed since.
THEOREM NothingMissed == Spec => []NoneMissed
<1>1. IInv => NoneMissed
  <2> SUFFICES ASSUME IInv, ~zeroSized, NEW t \in Tables, NEW i \in DOMAIN columns[t].data,
                      columns[t].data[i] \in pending \ Foreign
               PROVE  Passes(columns[t], i)
    BY DEF NoneMissed, Everywhere
  <2> QED
    BY PassesMeans DEF IInv, Timely
<1> QED
  BY <1>1, InvariantHolds, PTL

\* It passes no component that has had neither in the tick of its last call that did not
\* panic or later, also when that tick had several runs.
THEOREM SettledStaysQuiet == Spec => []QuietIsQuiet
<1>1. IInv => QuietIsQuiet
  <2> SUFFICES ASSUME IInv, ~zeroSized, NEW t \in Tables, NEW i \in DOMAIN columns[t].data,
                      columns[t].data[i] \in quiet \ Foreign
               PROVE  ~Passes(columns[t], i)
    BY DEF QuietIsQuiet, Everywhere
  <2>1. columns[t].data[i] \in Entities
    BY DEF IInv, Columns
  <2>2. At(columns[t].data[i]) \in Int /\ lastRun \in Int
    BY <2>1 DEF At, IInv, TypeOK
  <2> QED
    BY <2>2, PassesMeans DEF IInv, Timely
<1> QED
  BY <1>1, InvariantHolds, PTL

\* A write through Mut, and the start of an iteration with such a filter, find the
\* ticks of every row of a type with a size.
THEOREM OnlyZeroSizedCrashes == Spec => []OnlyZeroSizedCrash
<1>1. IInv => OnlyZeroSizedCrash
  BY DEF IInv
<1> QED
  BY <1>1, InvariantHolds, PTL
=============================================================================
