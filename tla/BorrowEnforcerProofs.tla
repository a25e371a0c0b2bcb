------------------------ MODULE BorrowEnforcerProofs ------------------------
(***************************************************************************)
(* For any number of threads and guards: what the enforcer excludes, and   *)
(* that it fails for a cause only.                                         *)
(***************************************************************************)
EXTENDS BorrowEnforcer, FiniteSetTheorems, TLAPS

\* The counters count the guards.
Counted ==
  /\ IsFiniteSet(reads) /\ shared = Cardinality(reads)
  /\ IsFiniteSet(writes) /\ exclusive = Cardinality(writes)

\* The mutex is held exactly in the middle of write, after the holder was compared.
MutexOwned ==
  \A t \in Threads :
    /\ pc[t] \in {"holding", "taking"} <=> lock = t
    /\ pc[t] \in {"holding", "taking"} => holder \in {NoThread, t}

\* A thread that writes is the holder.
HolderCovers ==
  ~uncovered =>
    \A t \in Threads : Of(t, writes) # {} \/ pc[t] = "clearing" => holder = t

InRead(t) == pc[t] \in {"reading", "sharing"}
InWrite(t) == pc[t] \in {"locking", "holding", "taking"}

\* A call that has passed its check found no guard of the other kind, and there is none
\* since; and no call of the other kind has passed its check.
RaceFree ==
  ~raced =>
    /\ reads = {} \/ writes = {}
    /\ \A t \in Threads : InRead(t) => writes = {} /\ \A u \in Threads : ~InWrite(u)
    /\ \A t \in Threads : InWrite(t) => reads = {}

\* Every failure leaves last_call poisoned.
FailureMarked == lockPoisoned \/ panicking # {} => callPoisoned

IInv ==
  TypeOK /\ Counted /\ MutexOwned /\ HolderCovers /\ HolderIsWriter /\ RaceFree /\ FailureMarked

-----------------------------------------------------------------------------
(* Each part is kept by every step of a thread.                             *)

\* Guards are added and removed one at a time, together with their counter.
LEMMA CountedKept ==
  ASSUME IInv, NEW t \in Threads, Step(t)
  PROVE  Counted'
<1>1. CASE UNCHANGED <<reads, writes, shared, exclusive>>
  BY <1>1 DEF IInv, Counted
<1>2. CASE ReadShare(t) \/ ReadClone(t)
  <2>1. PICK g \in NewGuards(t) : reads' = reads \union {g}
    BY <1>2 DEF ReadShare, ReadClone
  <2>2. g \notin reads /\ shared' = shared + 1 /\ UNCHANGED <<writes, exclusive>>
    BY <1>2 DEF NewGuards, ReadShare, ReadClone, counters, guards
  <2> QED
    BY <2>1, <2>2, FS_AddElement DEF IInv, Counted
<1>3. CASE WriteTake(t)
  <2>1. PICK g \in NewGuards(t) : writes' = writes \union {g}
    BY <1>3 DEF WriteTake
  <2>2. g \notin writes /\ exclusive' = exclusive + 1 /\ UNCHANGED <<reads, shared>>
    BY <1>3 DEF NewGuards, WriteTake
  <2> QED
    BY <2>1, <2>2, FS_AddElement DEF IInv, Counted
<1>4. CASE ReadDrop(t)
  <2>1. PICK g \in Of(t, reads) : reads' = reads \ {g}
    BY <1>4 DEF ReadDrop
  <2>2. g \in reads /\ shared' = shared - 1 /\ UNCHANGED <<writes, exclusive>>
    BY <1>4 DEF Of, ReadDrop
  <2> QED
    BY <2>1, <2>2, FS_RemoveElement DEF IInv, Counted
<1>5. CASE WriteDrop(t)
  <2>1. PICK g \in Of(t, writes) : writes' = writes \ {g}
    BY <1>5 DEF WriteDrop
  <2>2. g \in writes /\ exclusive' = exclusive - 1 /\ UNCHANGED <<reads, shared>>
    BY <1>5 DEF Of, WriteDrop
  <2> QED
    BY <2>1, <2>2, FS_RemoveElement DEF IInv, Counted
<1> QED
  BY <1>1, <1>2, <1>3, <1>4, <1>5
  DEF Step, ReadCheck, ReadRecord, WriteCheck, WriteLock, WriteRecord, WriteClear, Unwound,
      counters, guards

\* Once the counters count, no step takes one below 0.
LEMMA TypeKept ==
  ASSUME IInv, EnforcerAssumption, NEW t \in Threads, Step(t), Counted'
  PROVE  TypeOK'
<1>1. shared' \in Nat /\ exclusive' \in Nat
  BY FS_CardinalityType DEF Counted
<1>2. holder' \in Threads \union {NoThread} /\ lock' \in Threads \union {NoThread}
  BY DEF IInv, TypeOK, Step,
       ReadCheck, ReadRecord, ReadShare, WriteCheck, WriteLock, WriteRecord, WriteTake,
       ReadClone, ReadDrop, WriteDrop, WriteClear, Unwound,
       MayTake, NewGuards, Of, Goto, Panic, counters, mutexes, guards, history
<1>3. /\ pc' \in [Threads -> {"idle", "reading", "sharing", "locking", "holding", "taking", "clearing"}]
      /\ panicking' \subseteq Threads
  BY DEF IInv, TypeOK, Step,
       ReadCheck, ReadRecord, ReadShare, WriteCheck, WriteLock, WriteRecord, WriteTake,
       ReadClone, ReadDrop, WriteDrop, WriteClear, Unwound,
       MayTake, NewGuards, Of, Goto, Panic, counters, mutexes, guards, history
<1>4. /\ reads' \subseteq Threads \X (1 .. MaxGuards)
      /\ writes' \subseteq Threads \X (1 .. MaxGuards)
  BY DEF IInv, TypeOK, Step,
       ReadCheck, ReadRecord, ReadShare, WriteCheck, WriteLock, WriteRecord, WriteTake,
       ReadClone, ReadDrop, WriteDrop, WriteClear, Unwound,
       MayTake, NewGuards, Of, Goto, Panic, counters, mutexes, guards, history
<1>5. lockPoisoned' \in BOOLEAN /\ callPoisoned' \in BOOLEAN /\ aborted' \in BOOLEAN
  BY ZenonT(20) DEF IInv, TypeOK, Step,
       ReadCheck, ReadRecord, ReadShare, WriteCheck, WriteLock, WriteRecord, WriteTake,
       ReadClone, ReadDrop, WriteDrop, WriteClear, Unwound,
       MayTake, NewGuards, Of, Goto, Panic, counters, mutexes, guards, history
<1>6. raced' \in BOOLEAN /\ uncovered' \in BOOLEAN
  BY ZenonT(20) DEF IInv, TypeOK, Step,
       ReadCheck, ReadRecord, ReadShare, WriteCheck, WriteLock, WriteRecord, WriteTake,
       ReadClone, ReadDrop, WriteDrop, WriteClear, Unwound,
       MayTake, NewGuards, Of, Goto, Panic, counters, mutexes, guards, history
<1> QED
  BY <1>1, <1>2, <1>3, <1>4, <1>5, <1>6 DEF TypeOK

\* While one thread has the mutex, no other compares or writes the holder.
LEMMA MutexOwnedKept ==
  ASSUME IInv, EnforcerAssumption, NEW t \in Threads, Step(t)
  PROVE  MutexOwned'
BY DEF IInv, TypeOK, MutexOwned, Step,
       ReadCheck, ReadRecord, ReadShare, WriteCheck, WriteLock, WriteRecord, WriteTake,
       ReadClone, ReadDrop, WriteDrop, WriteClear, Unwound,
       MayTake, NewGuards, Of, Goto, Panic, counters, mutexes, guards, history

\* Taking a guard, the thread finds itself or nobody as holder, so that no other writes;
\* letting go, it still is the holder, and writes no longer.
LEMMA HolderCoversKept ==
  ASSUME IInv, EnforcerAssumption, NEW t \in Threads, Step(t)
  PROVE  HolderCovers'
<1>1. CASE WriteTake(t)
  BY <1>1, EnforcerAssumption DEF IInv, TypeOK, MutexOwned, HolderCovers, WriteTake,
      NewGuards, Of, Goto, history
<1>2. CASE WriteClear(t)
  <2> SUFFICES ASSUME ~uncovered', NEW u \in Threads, Of(u, writes') # {} \/ pc'[u] = "clearing"
               PROVE  holder' = u
    BY DEF HolderCovers, Of
  <2>1. ~uncovered /\ writes' = writes
    <3>1. uncovered' = uncovered \/ uncovered' = (uncovered \/ Of(t, writes) # {})
      BY <1>2 DEF WriteClear
    <3>2. uncovered \in BOOLEAN
      BY DEF IInv, TypeOK
    <3>3. ~uncovered
      BY <3>1, <3>2, Zenon
    <3>4. writes' = writes
      BY <1>2 DEF WriteClear, guards
    <3> QED
      BY <3>3, <3>4
  <2>2. holder = t
    BY <1>2, <2>1 DEF IInv, HolderCovers, WriteClear
  <2>3. CASE u = t
    <3>1. CASE ~lockPoisoned
      BY <1>2, <2>1, <2>3, <3>1 DEF IInv, TypeOK, WriteClear, Of, Goto
    <3>2. CASE lockPoisoned
      BY <1>2, <2>2, <2>3, <3>2 DEF WriteClear
    <3> QED
      BY <3>1, <3>2
  <2>4. CASE u # t
    <3>1. Of(u, writes) # {} \/ pc[u] = "clearing"
      BY <1>2, <2>1, <2>4 DEF IInv, TypeOK, WriteClear, Of, Goto, Panic
    <3> QED
      BY <2>1, <2>2, <2>4, <3>1 DEF IInv, HolderCovers
  <2> QED
    BY <2>3, <2>4
<1>3. CASE WriteDrop(t)
  BY <1>3, EnforcerAssumption DEF IInv, TypeOK, HolderCovers, WriteDrop, Of, Goto, mutexes, history
<1> QED
  BY <1>1, <1>2, <1>3, EnforcerAssumption
  DEF IInv, TypeOK, HolderCovers, Step, ReadCheck, ReadRecord, ReadShare, WriteCheck,
      WriteLock, WriteRecord, ReadClone, ReadDrop, Unwound, Of, Goto, Panic, MayTake,
      counters, mutexes, guards, history

\* The recorded holder has a write guard after every step.
LEMMA HolderIsWriterKept ==
  ASSUME IInv, EnforcerAssumption, NEW t \in Threads, Step(t)
  PROVE  HolderIsWriter'
BY DEF IInv, TypeOK, MutexOwned, HolderIsWriter, Step,
       ReadCheck, ReadRecord, ReadShare, WriteCheck, WriteLock, WriteRecord, WriteTake,
       ReadClone, ReadDrop, WriteDrop, WriteClear, Unwound,
       MayTake, NewGuards, Of, Goto, Panic, counters, mutexes, guards, history

\* A step that fails has poisoned last_call.
LEMMA FailureMarkedKept ==
  ASSUME IInv, NEW t \in Threads, Step(t)
  PROVE  FailureMarked'
BY DEF IInv, FailureMarked, Step,
       ReadCheck, ReadRecord, ReadShare, WriteCheck, WriteLock, WriteRecord, WriteTake,
       ReadClone, ReadDrop, WriteDrop, WriteClear, Unwound,
       MayTake, NewGuards, Of, Goto, Panic, counters, mutexes, guards, history

\* A check that passes finds the other kind's counter at 0, so no guard of that kind; a
\* call of that kind in progress makes it a race.
LEMMA RaceFreeKept ==
  ASSUME IInv, EnforcerAssumption, NEW t \in Threads, Step(t)
  PROVE  RaceFree'
<1>1. CASE ReadCheck(t)
  <2>1. UNCHANGED <<reads, writes>>
    BY <1>1 DEF ReadCheck, guards
  <2>2. CASE exclusive = 0
    <3>1. writes = {}
      BY <2>2, FS_EmptySet DEF IInv, Counted
    <3>2. raced' = (raced \/ \E u \in Threads : InWrite(u)) /\ Goto(t, "reading")
      BY <1>1, <2>2 DEF ReadCheck, InWrite
    <3>3. CASE raced \/ \E u \in Threads : InWrite(u)
      BY <3>2, <3>3, Zenon DEF RaceFree
    <3>4. CASE ~raced /\ \A u \in Threads : ~InWrite(u)
      BY <2>1, <3>1, <3>2, <3>4 DEF IInv, TypeOK, RaceFree, InRead, InWrite, Goto
    <3> QED
      BY <3>3, <3>4
  <2>3. CASE exclusive # 0
    BY <1>1, <2>1, <2>3 DEF IInv, TypeOK, RaceFree, InRead, InWrite, ReadCheck, Goto, Panic, MayTake
  <2> QED
    BY <2>2, <2>3
<1>2. CASE WriteCheck(t)
  <2>1. UNCHANGED <<reads, writes>>
    BY <1>2 DEF WriteCheck, guards
  <2>2. CASE shared = 0
    <3>1. reads = {}
      BY <2>2, FS_EmptySet DEF IInv, Counted
    <3>2. raced' = (raced \/ \E u \in Threads : InRead(u)) /\ Goto(t, "locking")
      BY <1>2, <2>2 DEF WriteCheck, InRead
    <3>3. CASE raced \/ \E u \in Threads : InRead(u)
      BY <3>2, <3>3, Zenon DEF RaceFree
    <3>4. CASE ~raced /\ \A u \in Threads : ~InRead(u)
      BY <2>1, <3>1, <3>2, <3>4 DEF IInv, TypeOK, RaceFree, InRead, InWrite, Goto
    <3> QED
      BY <3>3, <3>4
  <2>3. CASE shared # 0
    BY <1>2, <2>1, <2>3 DEF IInv, TypeOK, RaceFree, InRead, InWrite, WriteCheck, Goto, Panic, MayTake
  <2> QED
    BY <2>2, <2>3
<1>3. CASE WriteRecord(t)
  <2>1. UNCHANGED <<reads, writes, raced>> /\ InWrite(t)
    BY <1>3 DEF WriteRecord, InWrite, guards, history
  <2>2. pc' = [pc EXCEPT ![t] = "taking"] \/ pc' = [pc EXCEPT ![t] = "idle"]
    BY <1>3 DEF WriteRecord, Goto, Panic
  <2>3. \A u \in Threads : InRead(u)' => InRead(u)
    BY <2>2 DEF IInv, TypeOK, InRead
  <2>4. \A u \in Threads : InWrite(u)' => InWrite(u)
    BY <2>1, <2>2 DEF IInv, TypeOK, InWrite
  <2> QED
    BY <2>1, <2>3, <2>4 DEF IInv, RaceFree
<1> QED
  BY <1>1, <1>2, <1>3, EnforcerAssumption
  DEF IInv, TypeOK, RaceFree, InRead, InWrite, Step,
      ReadRecord, ReadShare, WriteLock, WriteTake, ReadClone, ReadDrop, WriteDrop, WriteClear,
      Unwound, MayTake, NewGuards, Of, Goto, Panic, counters, mutexes, guards, history

-----------------------------------------------------------------------------
(* The invariant, and what it implies.                                      *)

\* A new enforcer satisfies the invariant.
LEMMA Initially ==
  ASSUME Init, EnforcerAssumption
  PROVE  IInv
BY FS_EmptySet
DEF Init, IInv, TypeOK, Counted, MutexOwned, HolderCovers, HolderIsWriter, RaceFree, FailureMarked,
    InRead, InWrite, Of

\* Every step of every thread keeps the invariant.
LEMMA Inductive ==
  ASSUME IInv, [Next]_vars, EnforcerAssumption
  PROVE  IInv'
<1>1. ASSUME NEW t \in Threads, Step(t)
      PROVE  IInv'
  BY <1>1, CountedKept, TypeKept, MutexOwnedKept, HolderCoversKept, HolderIsWriterKept,
     RaceFreeKept, FailureMarkedKept DEF IInv
<1>2. CASE UNCHANGED vars
  BY <1>2
  DEF IInv, TypeOK, Counted, MutexOwned, HolderCovers, HolderIsWriter, RaceFree, FailureMarked,
      InRead, InWrite, Of, vars
<1> QED
  BY <1>1, <1>2 DEF Next

\* The invariant holds throughout.
THEOREM InvariantHolds == Spec => []IInv
<1>1. Init => IInv
  BY Initially, EnforcerAssumption
<1>2. IInv /\ [Next]_vars => IInv'
  BY Inductive, EnforcerAssumption
<1> QED
  BY <1>1, <1>2, PTL DEF Spec

\* The types of the counters, the mutexes and the guards.
THEOREM TypeCorrect == Spec => []TypeOK
<1>1. IInv => TypeOK
  BY DEF IInv
<1> QED
  BY <1>1, InvariantHolds, PTL

\* A reader and a writer are there at once only if the calls of a reader and a writer
\* have run into each other between check and update.
THEOREM OverlapsAlwaysRaces == Spec => []OverlapsAreRaces
<1>1. IInv => OverlapsAreRaces
  BY DEF IInv, RaceFree, OverlapsAreRaces
<1> QED
  BY <1>1, InvariantHolds, PTL

\* Two threads write at once only if one of them has let go of a guard that it took on
\* top of another.
THEOREM WritersAlwaysExclude == Spec => []WritersExclude
<1>1. IInv => WritersExclude
  <2> SUFFICES ASSUME IInv, ~uncovered, NEW g \in writes, NEW h \in writes
               PROVE  g[1] = h[1]
    BY DEF WritersExclude
  <2>1. g[1] \in Threads /\ h[1] \in Threads
    BY DEF IInv, TypeOK
  <2>2. Of(g[1], writes) # {} /\ Of(h[1], writes) # {}
    BY DEF Of
  <2> QED
    BY <2>1, <2>2 DEF IInv, HolderCovers
<1> QED
  BY <1>1, InvariantHolds, PTL

\* The holder is a thread that writes or lets go.
THEOREM HolderAlwaysWrites == Spec => []HolderIsWriter
<1>1. IInv => HolderIsWriter
  BY DEF IInv
<1> QED
  BY <1>1, InvariantHolds, PTL

\* A call fails only for a guard, a call of another thread, or an earlier failure.
THEOREM FailsOnlyForCause == Spec => FailsForCause
<1>1. ASSUME IInv, NEW t \in Threads, Step(t)
      PROVE  panicking' \subseteq panicking \/ Cause
  <2>1. shared \in Nat /\ exclusive \in Nat
    BY <1>1 DEF IInv, TypeOK
  <2>2. CASE ReadCheck(t) \/ WriteCheck(t)
    BY <2>1, <2>2 DEF ReadCheck, WriteCheck, Cause
  <2>3. CASE ReadRecord(t) \/ WriteRecord(t)
    BY <2>3 DEF ReadRecord, WriteRecord, Cause
  <2>4. CASE WriteLock(t)
    <3>1. CASE ~callPoisoned /\ holder \notin {NoThread, t}
      <4>1. ~lockPoisoned /\ panicking = {} /\ holder \in Threads
        BY <1>1, <3>1 DEF IInv, TypeOK, FailureMarked
      <4>2. panicking' \subseteq {t}
        BY <2>4, <4>1 DEF WriteLock, Panic
      <4>3. CASE Of(holder, writes) # {}
        <5>1. exclusive # 0
          BY <1>1, <4>3, FS_EmptySet DEF IInv, Counted, Of
        <5> QED
          BY <2>1, <5>1 DEF Cause
      <4>4. CASE pc[holder] = "clearing"
        BY <3>1, <4>1, <4>2, <4>4 DEF Cause
      <4> QED
        BY <1>1, <3>1, <4>1, <4>3, <4>4 DEF IInv, HolderIsWriter
    <3>2. CASE ~callPoisoned /\ holder \in {NoThread, t}
      BY <1>1, <2>4, <3>2 DEF WriteLock, IInv, FailureMarked, Cause
    <3>3. CASE callPoisoned
      BY <3>3 DEF Cause
    <3> QED
      BY <3>1, <3>2, <3>3
  <2>5. CASE WriteClear(t)
    BY <1>1, <2>5 DEF WriteClear, IInv, FailureMarked, Cause
  <2>6. CASE UNCHANGED panicking \/ Unwound(t)
    BY <2>6 DEF Unwound
  <2> QED
    BY <1>1, <2>2, <2>3, <2>4, <2>5, <2>6
    DEF Step, ReadShare, WriteTake, ReadClone, ReadDrop, WriteDrop
<1>2. IInv /\ [Next]_vars => [panicking' \subseteq panicking \/ Cause]_vars
  BY <1>1 DEF Next
<1> QED
  BY <1>2, InvariantHolds, PTL DEF Spec, FailsForCause

=============================================================================
