--------------------------- MODULE BorrowEnforcer ---------------------------
(***************************************************************************)
(* The checker of borrows in debug builds (crates/core/src/util.rs, debug). *)
(* Threads take and drop read and write guards; every operation on one of  *)
(* the two atomics or two mutexes is a step.  A failed assertion unwinds    *)
(* its thread, which drops the guards it has and then goes on, as a worker *)
(* of rayon does.                                                          *)
(***************************************************************************)
EXTENDS Integers

CONSTANTS
  Threads,
  MaxGuards  \* bound on the guards a thread has

NoThread == "none"

ASSUME EnforcerAssumption == MaxGuards \in Nat /\ NoThread \notin Threads

VARIABLES
  shared, exclusive,  \* the counters
  holder,             \* the thread in `holder`, or NoThread
  lock,               \* the thread that has the mutex of `holder`, or NoThread
  lockPoisoned,       \* that mutex is poisoned
  callPoisoned,       \* the mutex of `last_call` is poisoned
  pc,                 \* where each thread is in read, write or a drop
  panicking,          \* the threads that unwind
  reads, writes,      \* the guards there are, each a thread and a number
  aborted,            \* a drop panicked while its thread was unwinding
  raced, uncovered    \* history: see OverlapsAreRaces and WritersExclude

vars == <<shared, exclusive, holder, lock, lockPoisoned, callPoisoned, pc, panicking,
          reads, writes, aborted, raced, uncovered>>
counters == <<shared, exclusive>>
mutexes == <<holder, lock, lockPoisoned, callPoisoned>>
guards == <<reads, writes>>
history == <<raced, uncovered>>

Goto(t, label) == pc' = [pc EXCEPT ![t] = label]
Panic(t) == panicking' = panicking \union {t} /\ Goto(t, "idle")

\* What guards a thread can be given, and which of some guards it has.
NewGuards(t) == ({t} \X (1 .. MaxGuards)) \ (reads \union writes)
Of(t, gs) == {g \in gs : g[1] = t}

MayTake(t) ==
  /\ pc[t] = "idle" /\ t \notin panicking
  /\ NewGuards(t) # {}

Init ==
  /\ shared = 0 /\ exclusive = 0
  /\ holder = NoThread /\ lock = NoThread
  /\ lockPoisoned = FALSE /\ callPoisoned = FALSE
  /\ pc = [t \in Threads |-> "idle"]
  /\ panicking = {}
  /\ reads = {} /\ writes = {}
  /\ aborted = FALSE
  /\ raced = FALSE /\ uncovered = FALSE

-----------------------------------------------------------------------------
(* BorrowEnforcer::read                                                     *)

\* Mutant: the writers are not looked at.
ReadCheckNothing(t) ==
  /\ MayTake(t)
  /\ Goto(t, "reading")
  /\ raced' = (raced \/ \E u \in Threads : pc[u] \in {"locking", "holding", "taking"})
  /\ UNCHANGED <<counters, mutexes, panicking, guards, aborted, uncovered>>

\* The message of a failed assertion locks last_call, which the panic poisons.
ReadCheck(t) ==
  /\ MayTake(t)
  /\ \/ /\ exclusive = 0
        /\ Goto(t, "reading")
        /\ raced' = (raced \/ \E u \in Threads : pc[u] \in {"locking", "holding", "taking"})
        /\ UNCHANGED <<panicking, callPoisoned>>
     \/ /\ exclusive # 0
        /\ Panic(t)
        /\ callPoisoned' = TRUE
        /\ UNCHANGED raced
  /\ UNCHANGED <<counters, holder, lock, lockPoisoned, guards, aborted, uncovered>>

ReadRecord(t) ==
  /\ pc[t] = "reading"
  /\ \/ ~callPoisoned /\ Goto(t, "sharing") /\ UNCHANGED panicking
     \/ callPoisoned /\ Panic(t)
  /\ UNCHANGED <<counters, mutexes, guards, aborted, history>>

ReadShare(t) ==
  /\ pc[t] = "sharing"
  /\ shared' = shared + 1
  /\ \E g \in NewGuards(t) : reads' = reads \union {g}
  /\ Goto(t, "idle")
  /\ UNCHANGED <<exclusive, mutexes, panicking, writes, aborted, history>>

-----------------------------------------------------------------------------
(* BorrowEnforcer::write                                                    *)
WriteCheck(t) ==
  /\ MayTake(t)
  /\ \/ /\ shared = 0
        /\ Goto(t, "locking")
        /\ raced' = (raced \/ \E u \in Threads : pc[u] \in {"reading", "sharing"})
        /\ UNCHANGED <<panicking, callPoisoned>>
     \/ /\ shared # 0
        /\ Panic(t)
        /\ callPoisoned' = TRUE
        /\ UNCHANGED raced
  /\ UNCHANGED <<counters, holder, lock, lockPoisoned, guards, aborted, uncovered>>

\* Mutant: the holder is not compared with the thread.
WriteLockAnyway(t) ==
  /\ pc[t] = "locking" /\ lock = NoThread
  /\ lock' = t /\ Goto(t, "holding")
  /\ UNCHANGED <<counters, holder, lockPoisoned, callPoisoned, panicking, guards, aborted, history>>

\* The mutex is held until the end of write; a panic poisons it.
WriteLock(t) ==
  /\ pc[t] = "locking" /\ lock = NoThread
  /\ \/ /\ ~lockPoisoned /\ holder \in {NoThread, t}
        /\ lock' = t
        /\ Goto(t, "holding")
        /\ UNCHANGED <<lockPoisoned, callPoisoned, panicking>>
     \/ /\ ~lockPoisoned /\ holder \notin {NoThread, t}
        /\ Panic(t)
        /\ lockPoisoned' = TRUE /\ callPoisoned' = TRUE
        /\ UNCHANGED lock
     \/ /\ lockPoisoned
        /\ Panic(t)
        /\ UNCHANGED <<lock, lockPoisoned, callPoisoned>>
  /\ UNCHANGED <<counters, holder, guards, aborted, history>>

WriteRecord(t) ==
  /\ pc[t] = "holding"
  /\ \/ /\ ~callPoisoned
        /\ Goto(t, "taking")
        /\ UNCHANGED <<lock, lockPoisoned, panicking>>
     \/ /\ callPoisoned
        /\ Panic(t)
        /\ lock' = NoThread /\ lockPoisoned' = TRUE
  /\ UNCHANGED <<counters, holder, callPoisoned, guards, aborted, history>>

WriteTake(t) ==
  /\ pc[t] = "taking"
  /\ holder' = t /\ lock' = NoThread
  /\ exclusive' = exclusive + 1
  /\ \E g \in NewGuards(t) : writes' = writes \union {g}
  /\ Goto(t, "idle")
  /\ UNCHANGED <<shared, lockPoisoned, callPoisoned, panicking, reads, aborted, history>>

-----------------------------------------------------------------------------
(* The guards.                                                              *)

\* Mutant: the copy is not counted.
ReadCloneUncounted(t) ==
  /\ MayTake(t) /\ Of(t, reads) # {}
  /\ \E g \in NewGuards(t) : reads' = reads \union {g}
  /\ UNCHANGED <<counters, mutexes, pc, panicking, writes, aborted, history>>

ReadClone(t) ==
  /\ MayTake(t) /\ Of(t, reads) # {}
  /\ shared' = shared + 1
  /\ \E g \in NewGuards(t) : reads' = reads \union {g}
  /\ UNCHANGED <<exclusive, mutexes, pc, panicking, writes, aborted, history>>

ReadDrop(t) ==
  /\ pc[t] = "idle"
  /\ shared' = shared - 1
  /\ \E g \in Of(t, reads) : reads' = reads \ {g}
  /\ UNCHANGED <<exclusive, mutexes, pc, panicking, writes, aborted, history>>

WriteDrop(t) ==
  /\ pc[t] = "idle"
  /\ exclusive' = exclusive - 1
  /\ \E g \in Of(t, writes) : writes' = writes \ {g}
  /\ Goto(t, "clearing")
  /\ UNCHANGED <<shared, mutexes, panicking, reads, aborted, history>>

\* Mutant: the drop only counts.
WriteClearNothing(t) ==
  /\ pc[t] = "clearing"
  /\ Goto(t, "idle")
  /\ UNCHANGED <<counters, mutexes, panicking, guards, aborted, history>>

\* The holder is cleared although the thread may have other write guards.
WriteClear(t) ==
  /\ pc[t] = "clearing" /\ lock = NoThread
  /\ \/ /\ ~lockPoisoned
        /\ holder' = NoThread
        /\ uncovered' = (uncovered \/ Of(t, writes) # {})
        /\ Goto(t, "idle")
        /\ UNCHANGED <<panicking, aborted>>
     \/ /\ lockPoisoned /\ t \notin panicking
        /\ Panic(t)
        /\ UNCHANGED <<holder, uncovered, aborted>>
     \/ /\ lockPoisoned /\ t \in panicking
        /\ aborted' = TRUE
        /\ UNCHANGED <<holder, uncovered, pc, panicking>>
  /\ UNCHANGED <<counters, lock, lockPoisoned, callPoisoned, guards, raced>>

\* A thread that has unwound has dropped its guards (ReadDrop, WriteDrop).
Unwound(t) ==
  /\ t \in panicking /\ pc[t] = "idle"
  /\ Of(t, reads \union writes) = {}
  /\ panicking' = panicking \ {t}
  /\ UNCHANGED <<counters, mutexes, pc, guards, aborted, history>>

Step(t) ==
  \/ ReadCheck(t) \/ ReadRecord(t) \/ ReadShare(t)
  \/ WriteCheck(t) \/ WriteLock(t) \/ WriteRecord(t) \/ WriteTake(t)
  \/ ReadClone(t) \/ ReadDrop(t) \/ WriteDrop(t) \/ WriteClear(t) \/ Unwound(t)

Next ==
  /\ ~aborted
  /\ \E t \in Threads : Step(t)

Spec == Init /\ [][Next]_vars

-----------------------------------------------------------------------------
(* Type invariant.                                                          *)
TypeOK ==
  /\ shared \in Nat /\ exclusive \in Nat
  /\ holder \in Threads \union {NoThread} /\ lock \in Threads \union {NoThread}
  /\ pc \in [Threads -> {"idle", "reading", "sharing", "locking", "holding", "taking", "clearing"}]
  /\ panicking \subseteq Threads
  /\ reads \subseteq Threads \X (1 .. MaxGuards) /\ writes \subseteq Threads \X (1 .. MaxGuards)
  /\ lockPoisoned \in BOOLEAN /\ callPoisoned \in BOOLEAN /\ aborted \in BOOLEAN
  /\ raced \in BOOLEAN /\ uncovered \in BOOLEAN

\* Readers and a writer meet only if one's call began between another's check and its
\* update: every other overlap is caught.
OverlapsAreRaces ==
  reads # {} /\ writes # {} => raced

\* Two threads have write guards only if one of them wrote while it was writing
\* already and dropped one of its guards, which let go of the holder.
WritersExclude ==
  (\E g, h \in writes : g[1] # h[1]) => uncovered

\* The holder is a thread that writes or is about to let go, unless a panic has left
\* the mutex poisoned.
HolderIsWriter ==
  holder # NoThread /\ ~lockPoisoned => Of(holder, writes) # {} \/ pc[holder] = "clearing"

\* No call fails without a cause: a guard, a call of another thread that has not
\* returned, or an earlier failure.
Cause ==
  \/ callPoisoned
  \/ shared + exclusive > 0
  \/ \E t \in Threads : t \notin panicking' /\ pc[t] # "idle"

FailsForCause == [][panicking' \subseteq panicking \/ Cause]_vars

=============================================================================
