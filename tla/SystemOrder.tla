---------------------------- MODULE SystemOrder ----------------------------
(***************************************************************************)
(* What a schedule promises: in each run every system is called at most    *)
(* once, and a system begins only after every earlier system whose         *)
(* accesses conflict with its own has returned.  Systems that do not       *)
(* conflict may overlap.  A call may also fail: then the systems that must *)
(* wait for it are not called in this run.                                 *)
(***************************************************************************)
EXTENDS Naturals

VARIABLES
  systems, conflicts,  \* the positions of the systems, and the pairs that conflict
  called, returned, failed  \* the systems of the current run

vars == <<systems, conflicts, called, returned, failed>>

Init ==
  /\ systems \subseteq Nat
  /\ conflicts \subseteq systems \X systems
  /\ called = {} /\ returned = {} /\ failed = {}

NewRun ==
  /\ called = returned \union failed
  /\ called' = {} /\ returned' = {} /\ failed' = {}
  /\ UNCHANGED <<systems, conflicts>>

\* Neither does a system begin late: one that must wait for it has not begun.
Begin(s) ==
  /\ s \notin called
  /\ \A p \in systems : p < s /\ <<p, s>> \in conflicts => p \in returned
  /\ \A p \in called : p > s => <<s, p>> \notin conflicts
  /\ called' = called \union {s}
  /\ UNCHANGED <<systems, conflicts, returned, failed>>

Return(s) ==
  /\ s \in called \ (returned \union failed)
  /\ returned' = returned \union {s}
  /\ UNCHANGED <<systems, conflicts, called, failed>>

Fail(s) ==
  /\ s \in called \ (returned \union failed)
  /\ failed' = failed \union {s}
  /\ UNCHANGED <<systems, conflicts, called, returned>>

Next == NewRun \/ \E s \in systems : Begin(s) \/ Return(s) \/ Fail(s)

Spec == Init /\ [][Next]_vars

=============================================================================
