--------------------------- MODULE SystemsProofs ---------------------------
(***************************************************************************)
(* Proofs about Systems for any schedule, any arguments and any number of  *)
(* resources: the accesses that arguments declare are enough for the       *)
(* pointers that ResMut and Outbox write through.                          *)
(***************************************************************************)
EXTENDS Systems, SequenceTheorems, FiniteSetTheorems, TLAPS

Pcs == {"idle", "called", "body", "updating"}
Mailbox == [current : Seq(Nat), previous : Seq(Nat), prev_index : Nat, next_index : Nat]

Types ==
  /\ \E n \in Nat : systems \in [0 .. n -> Seq(Args)]
  /\ call \in [DOMAIN systems -> [pc : Pcs, arg : Nat, seen : Nat]]
  /\ written \in [Resources -> Seq(Nat)]

\* Each resource is what its updates have made of it: NoUpdateLost, and types.
Stored ==
  /\ DOMAIN storage \subseteq Resources
  /\ storage = [r \in DOMAIN storage |-> storage[r]]
  /\ \A r \in DOMAIN storage :
       IF r \in Messages
       THEN storage[r] \in Mailbox /\ storage[r].current = written[r]
       ELSE storage[r] = Len(written[r])
  /\ \A r \in Resources \ DOMAIN storage : written[r] = <<>>

Active(s) == call[s].pc # "idle"

\* Systems are called by the scheduler while it runs, or the one of run_system is.
CalledInRun ==
  /\ returned \union failed \subseteq called
  /\ Active(0) => stage # "running"
  /\ \A s \in Scheduled : Active(s) => stage = "running" /\ s \in called \ (returned \union failed)

\* What SystemOrder is for: calls in progress do not conflict.
NoOverlap ==
  \A p, s \in Scheduled : p # s /\ Active(p) /\ Active(s) => ~Conflicting(p, s)

\* An update in progress is one through a mutable argument, and nobody has updated
\* the resource since it began.
Updating ==
  \A s \in DOMAIN systems :
    call[s].pc = "updating" =>
      LET a == systems[s][call[s].arg]
      IN  /\ call[s].arg \in DOMAIN systems[s]
          /\ a.kind \in MutableKinds /\ a.of \in DOMAIN storage
          /\ call[s].seen = Len(written[a.of])

IInv == Types /\ Stored /\ CalledInRun /\ NoOverlap /\ Updating

-----------------------------------------------------------------------------
(* Accesses.                                                                *)

\* An argument that writes conflicts with each that sees the same resource.
LEMMA WriterConflicts ==
  ASSUME NEW a \in Args, NEW b \in Args, a.kind \in MutableKinds,
         (b.kind \in SharedKinds \union MutableKinds /\ b.of = a.of) \/ b.kind = "world"
  PROVE  ArgsConflict(a, b) /\ ArgsConflict(b, a)
<1> USE DEF Args, SharedKinds, MutableKinds, OtherKinds
<1>1. [ty |-> a.of, mutable |-> TRUE] \in Access(a)
  BY DEF Access
<1>2. \E e \in Access(b) : e.ty = a.of \/ e.ty = WorldAccess
  BY DEF Access
<1> QED
  BY <1>1, <1>2 DEF ArgsConflict, Conflicts

\* System 0 is the one that run_system was last given.
LEMMA SystemZero ==
  ASSUME Types
  PROVE  /\ DOMAIN systems = {0} \union Scheduled /\ 0 \notin Scheduled
         /\ Scheduled \subseteq Nat
         /\ \A s \in DOMAIN systems : systems[s] \in Seq(Args)
         /\ \A s \in DOMAIN systems : \A k \in DOMAIN systems[s] : systems[s][k] \in Args
BY DEF Types, Scheduled

\* Two calls in progress are two of the scheduler's, and what one can write the
\* other does not see.
LEMMA Exclusive ==
  ASSUME IInv, NEW p \in DOMAIN systems, NEW s \in DOMAIN systems, p # s, Active(p), Active(s),
         NEW k \in DOMAIN systems[p], systems[p][k].kind \in MutableKinds,
         NEW j \in DOMAIN systems[s],
         \/ systems[s][j].kind \in SharedKinds \union MutableKinds /\ systems[s][j].of = systems[p][k].of
         \/ systems[s][j].kind = "world"
  PROVE  FALSE
<1>1. p \in Scheduled /\ s \in Scheduled
  BY SystemZero DEF IInv, CalledInRun
<1>2. systems[p][k] \in Args /\ systems[s][j] \in Args
  BY SystemZero DEF IInv
<1>3. ArgsConflict(systems[p][k], systems[s][j])
  BY <1>2, WriterConflicts
<1>4. Conflicting(p, s)
  BY <1>3 DEF Conflicting
<1> QED
  BY <1>1, <1>4 DEF IInv, NoOverlap

\* Conflicts do not depend on the order.
LEMMA ConflictingSymmetric ==
  ASSUME NEW p, NEW s, Conflicting(p, s)
  PROVE  Conflicting(s, p)
BY DEF Conflicting, ArgsConflict

\* Between the runs and outside of run_system nothing is called.
LEMMA NotBusy ==
  ASSUME IInv, ~Busy
  PROVE  \A s \in DOMAIN systems : ~Active(s)
BY SystemZero DEF IInv, CalledInRun, Busy, Active

-----------------------------------------------------------------------------
(* Mailboxes.                                                               *)

\* An index that is allocated leaves the messages as they are.
LEMMA MailboxAllocate ==
  ASSUME NEW m \in Mailbox
  PROVE  Allocate(m) \in Mailbox /\ Allocate(m).current = m.current
<1>1. Allocate(m) = [m EXCEPT !.next_index = m.next_index + 1] /\ m.next_index + 1 \in Nat
  BY DEF Mailbox, Allocate
<1> QED
  BY <1>1 DEF Mailbox

\* A message that is pushed behind those that are there is appended.
LEMMA MailboxPush ==
  ASSUME NEW m \in Mailbox, NEW n \in Nat
  PROVE  LET new == PushAt(m, Len(m.current), n)
         IN  new \in Mailbox /\ new.current = Append(m.current, n)
<1>1. m.current \in Seq(Nat)
  BY DEF Mailbox
<1>2. SubSeq(m.current, 1, Len(m.current)) = m.current
  BY <1>1
<1>3. PushAt(m, Len(m.current), n) = [m EXCEPT !.current = Append(m.current, n)]
  BY <1>2 DEF PushAt, Mailbox
<1>4. Append(m.current, n) \in Seq(Nat)
  BY <1>1
<1> QED
  BY <1>3, <1>4 DEF Mailbox

\* World::get_resource_mut and a send: both in one step.
LEMMA MailboxSend ==
  ASSUME NEW m \in Mailbox, NEW n \in Nat
  PROVE  Send(m, n) \in Mailbox /\ Send(m, n).current = Append(m.current, n)
BY MailboxAllocate, MailboxPush DEF Send

-----------------------------------------------------------------------------
\* A new world satisfies the invariant.
LEMMA InitEstablishes == Init => IInv
<1> SUFFICES ASSUME Init
             PROVE  IInv
  OBVIOUS
<1>1. PICK schedule \in Schedules :
        systems = [s \in 0 .. Len(schedule) |-> IF s = 0 THEN <<>> ELSE schedule[s]]
  BY DEF Init
<1>2. schedule \in Seq(Seq(Args)) /\ Len(schedule) \in Nat
  BY SystemsAssumption
<1>3. systems \in [0 .. Len(schedule) -> Seq(Args)]
  BY <1>1, <1>2
<1>4. Types
  <2>1. call \in [DOMAIN systems -> [pc : Pcs, arg : Nat, seen : Nat]]
    BY DEF Init, Idle, Pcs
  <2>2. written \in [Resources -> Seq(Nat)]
    BY DEF Init
  <2> QED
    BY <1>2, <1>3, <2>1, <2>2 DEF Types
<1>5. Stored
  BY DEF Init, Stored
<1>6. \A s \in DOMAIN systems : call[s].pc = "idle"
  BY DEF Init, Idle
<1>7. DOMAIN systems = {0} \union Scheduled
  BY <1>4, SystemZero
<1>8. returned \union failed \subseteq called
  BY DEF Init
<1> QED
  BY <1>4, <1>5, <1>6, <1>7, <1>8 DEF IInv, CalledInRun, NoOverlap, Updating, Active

\* The owner replaces or updates a resource, when nothing is called.
LEMMA OwnerKeeps ==
  ASSUME IInv, NEW r \in Resources, AddResource(r) \/ UpdateResource(r)
  PROVE  IInv'
<1>1. /\ UNCHANGED <<systems, stage, called, returned, failed, call>>
      /\ \A s \in DOMAIN systems : ~Active(s)
  BY NotBusy DEF AddResource, UpdateResource
<1>2. /\ written' \in [Resources -> Seq(Nat)]
      /\ \A x \in Resources \ {r} : written'[x] = written[x]
      /\ DOMAIN storage' = DOMAIN storage \union {r}
      /\ storage' = [x \in DOMAIN storage' |-> storage'[x]]
      /\ \A x \in DOMAIN storage \ {r} : storage'[x] = storage[x]
  <2>1. CASE AddResource(r)
    BY <2>1 DEF AddResource, IInv, Types
  <2>2. CASE UpdateResource(r)
    <3>1. r \in DOMAIN storage /\ written' = [written EXCEPT ![r] = Append(@, Len(written[r]) + 1)]
      BY <2>2 DEF UpdateResource, MayUpdate
    <3>2. written[r] \in Seq(Nat) /\ Append(written[r], Len(written[r]) + 1) \in Seq(Nat)
      BY DEF IInv, Types
    <3>3. PICK v : storage' = [storage EXCEPT ![r] = v]
      BY <2>2 DEF UpdateResource
    <3> QED
      BY <3>1, <3>2, <3>3 DEF IInv, Types, Stored
  <2> QED
    BY <2>1, <2>2
<1>3. IF r \in Messages
      THEN storage'[r] \in Mailbox /\ storage'[r].current = written'[r]
      ELSE storage'[r] = Len(written'[r])
  <2>1. CASE AddResource(r)
    <3>1. written'[r] = <<>>
      BY <2>1 DEF AddResource, IInv, Types
    <3>2. storage'[r] = IF r \in Messages THEN NewMailbox ELSE 0
      BY <2>1 DEF AddResource
    <3> QED
      BY <3>1, <3>2 DEF NewMailbox, Mailbox
  <2>2. CASE UpdateResource(r)
    <3> DEFINE n == Len(written[r]) + 1
    <3>1. /\ r \in DOMAIN storage /\ written'[r] = Append(written[r], n)
          /\ written[r] \in Seq(Nat) /\ n \in Nat /\ Len(written[r]) \in Nat
      BY <2>2 DEF UpdateResource, MayUpdate, IInv, Types
    <3>2. storage'[r] = IF r \in Messages THEN Send(storage[r], n) ELSE storage[r] + 1
      BY <2>2, <3>1 DEF UpdateResource, IInv, Stored
    <3> HIDE DEF n
    <3>3. CASE r \in Messages
      <4>1. storage[r] \in Mailbox /\ storage[r].current = written[r]
        BY <3>1, <3>3 DEF IInv, Stored
      <4>2. Send(storage[r], n) \in Mailbox /\ Send(storage[r], n).current = Append(written[r], n)
        BY <3>1, <4>1, MailboxSend
      <4> QED
        BY <3>1, <3>2, <3>3, <4>2
    <3>4. CASE r \notin Messages
      BY <3>1, <3>2, <3>4 DEF IInv, Stored, n
    <3> QED
      BY <3>3, <3>4
  <2> QED
    BY <2>1, <2>2
<1>4. Types'
  BY <1>1, <1>2 DEF IInv, Types
<1>5. Stored'
  BY <1>2, <1>3 DEF IInv, Stored
<1>6. \A s \in DOMAIN systems' : ~Active(s)'
  BY <1>1 DEF Active
<1>7. DOMAIN systems' = {0} \union Scheduled'
  BY <1>1, SystemZero DEF IInv, Scheduled
<1> QED
  BY <1>1, <1>4, <1>5, <1>6, <1>7 DEF IInv, CalledInRun, NoOverlap, Updating, Active

\* Systems that are built insert the mailboxes that they miss, with no message.
LEMMA MailboxesKeepStored ==
  ASSUME IInv, NEW missing, missing \subseteq Messages \ DOMAIN storage,
         storage' = WithMailboxes(missing), written' = written
  PROVE  Stored'
<1>1. /\ DOMAIN storage' = DOMAIN storage \union missing
      /\ storage' = [r \in DOMAIN storage' |-> storage'[r]]
      /\ \A r \in missing : storage'[r] = NewMailbox
      /\ \A r \in DOMAIN storage : storage'[r] = storage[r]
  BY DEF WithMailboxes
<1>2. \A r \in missing : r \in Messages /\ written[r] = <<>>
  BY DEF IInv, Stored, Resources
<1>3. NewMailbox \in Mailbox /\ NewMailbox.current = <<>>
  BY DEF NewMailbox, Mailbox
<1>4. missing \subseteq Resources
  BY DEF Resources
<1> QED
  BY <1>1, <1>2, <1>3, <1>4 DEF IInv, Stored

\* Only mailboxes are inserted by the arguments.
LEMMA MissingAreMessages ==
  ASSUME NEW args \in Seq(Args)
  PROVE  MissingMailboxes(args) \subseteq Messages \ DOMAIN storage
<1>1. \A k \in DOMAIN args : args[k] \in Args
  OBVIOUS
<1>2. \A a \in Args : a.kind \in {"inbox", "outbox"} => a.of \in Messages
  BY DEF Args, OtherKinds
<1> QED
  BY <1>1, <1>2 DEF MissingMailboxes

\* Building a schedule calls nothing.
LEMMA BuildKeeps ==
  ASSUME IInv, Build
  PROVE  IInv'
<1>1. /\ UNCHANGED <<systems, called, returned, failed, call, written>>
      /\ \A s \in DOMAIN systems : ~Active(s)
  BY NotBusy DEF Build
<1> DEFINE missing == UNION {MissingMailboxes(systems[s]) : s \in Scheduled}
<1>2. missing \subseteq Messages \ DOMAIN storage
  BY SystemZero, MissingAreMessages DEF IInv
<1>3. Stored'
  BY <1>1, <1>2, MailboxesKeepStored DEF Build
<1>4. Types'
  BY <1>1 DEF IInv, Types
<1>5. \A s \in DOMAIN systems' : ~Active(s)'
  BY <1>1 DEF Active
<1>6. DOMAIN systems' = {0} \union Scheduled'
  BY <1>1, SystemZero DEF IInv, Scheduled
<1> QED
  BY <1>1, <1>3, <1>4, <1>5, <1>6 DEF IInv, CalledInRun, NoOverlap, Updating, Active

\* run_system begins a call when there is no other.
LEMMA RunSystemKeeps ==
  ASSUME IInv, NEW system \in Singles, RunSystem(system)
  PROVE  IInv'
<1>1. /\ UNCHANGED <<stage, called, returned, failed, written>> /\ stage # "running"
      /\ systems' = [systems EXCEPT ![0] = system]
      /\ call' = [call EXCEPT ![0] = At("called")]
      /\ \A s \in DOMAIN systems : ~Active(s)
  BY NotBusy DEF RunSystem, Busy
<1>2. system \in Seq(Args)
  BY SystemsAssumption
<1>3. DOMAIN systems' = DOMAIN systems /\ Scheduled' = Scheduled /\ 0 \in DOMAIN systems
  BY <1>1, SystemZero DEF IInv, Scheduled
<1>4. Types'
  <2>1. At("called") \in [pc : Pcs, arg : Nat, seen : Nat]
    BY DEF At, Idle, Pcs
  <2>2. PICK n \in Nat : systems \in [0 .. n -> Seq(Args)]
    BY DEF IInv, Types
  <2>3. systems' \in [0 .. n -> Seq(Args)]
    BY <1>1, <1>2, <2>2
  <2>4. call' \in [DOMAIN systems' -> [pc : Pcs, arg : Nat, seen : Nat]]
    BY <1>1, <1>3, <2>1 DEF IInv, Types
  <2> QED
    BY <1>1, <2>3, <2>4 DEF IInv, Types
<1>5. Stored'
  BY <1>1, <1>2, MissingAreMessages, MailboxesKeepStored DEF RunSystem
<1>6. /\ \A s \in Scheduled : ~Active(s)'
      /\ \A s \in DOMAIN systems : call'[s].pc # "updating"
  <2>1. \A s \in DOMAIN systems : call'[s] = IF s = 0 THEN At("called") ELSE call[s]
    BY <1>1 DEF IInv, Types
  <2> QED
    BY <1>1, <2>1, SystemZero DEF IInv, Active, At, Idle
<1> QED
  BY <1>1, <1>3, <1>4, <1>5, <1>6 DEF IInv, CalledInRun, NoOverlap, Updating

\* A run begins and ends with no system in a call.
LEMMA RunsKeep ==
  ASSUME IInv, BeginRun \/ EndRun
  PROVE  IInv'
<1>1. UNCHANGED <<systems, storage, call, written>>
  BY DEF BeginRun, EndRun
<1>2. \A s \in DOMAIN systems : ~Active(s)
  <2>1. CASE BeginRun
    BY <2>1, NotBusy DEF BeginRun
  <2>2. CASE EndRun
    BY <2>2, SystemZero DEF EndRun, IInv, CalledInRun
  <2> QED
    BY <2>1, <2>2
<1>3. Types'
  BY <1>1 DEF IInv, Types
<1>4. Stored'
  BY <1>1 DEF IInv, Stored
<1>5. \A s \in DOMAIN systems' : ~Active(s)'
  BY <1>1, <1>2 DEF Active
<1>6. DOMAIN systems' = {0} \union Scheduled'
  BY <1>1, SystemZero DEF IInv, Scheduled
<1>7. returned' \union failed' \subseteq called'
  BY DEF BeginRun, Order!NewRun, EndRun, IInv, CalledInRun
<1> QED
  BY <1>3, <1>4, <1>5, <1>6, <1>7 DEF IInv, CalledInRun, NoOverlap, Updating, Active

\* A system that begins does not conflict with those in a call: an earlier one would
\* have returned, a later one would not have begun.
LEMMA BeginCallKeeps ==
  ASSUME IInv, NEW s \in Scheduled, BeginCall(s)
  PROVE  IInv'
<1>1. /\ UNCHANGED <<systems, storage, stage, written, returned, failed>>
      /\ stage = "running" /\ s \notin called /\ called' = called \union {s}
      /\ call' = [call EXCEPT ![s] = At("called")]
  BY DEF BeginCall, Order!Begin
<1>2. /\ \A p \in Scheduled : p < s /\ Conflicting(p, s) => p \in returned
      /\ \A p \in called : p \in Scheduled /\ p > s => ~Conflicting(s, p)
  BY DEF BeginCall, Order!Begin
<1>3. s \in DOMAIN systems /\ \A p \in DOMAIN systems :
        call'[p] = IF p = s THEN At("called") ELSE call[p]
  BY <1>1, SystemZero DEF IInv, Types
<1>4. /\ Active(s)' /\ \A p \in DOMAIN systems : p # s => (Active(p)' <=> Active(p))
  BY <1>3 DEF Active, At, Idle
<1>5. Scheduled' = Scheduled /\ \A p, q \in Scheduled : Conflicting(p, q)' <=> Conflicting(p, q)
  BY <1>1 DEF Scheduled, Conflicting
<1>6. Types'
  <2>1. At("called") \in [pc : Pcs, arg : Nat, seen : Nat]
    BY DEF At, Idle, Pcs
  <2> QED
    BY <1>1, <2>1 DEF IInv, Types
<1>7. Stored'
  BY <1>1 DEF IInv, Stored
<1>8. CalledInRun'
  <2>1. ~Active(0) /\ s # 0 /\ 0 \in DOMAIN systems
    BY <1>1, SystemZero DEF IInv, CalledInRun
  <2>2. ~Active(0)'
    BY <1>4, <2>1
  <2>3. /\ s \in called' \ (returned' \union failed')
        /\ returned' \union failed' \subseteq called'
    BY <1>1 DEF IInv, CalledInRun
  <2>4. \A p \in Scheduled : p # s /\ Active(p)' => p \in called' \ (returned' \union failed')
    BY <1>1, <1>4, SystemZero DEF IInv, CalledInRun
  <2> QED
    BY <1>1, <1>5, <2>2, <2>3, <2>4 DEF CalledInRun
<1>9. NoOverlap'
  <2>1. ASSUME NEW p \in Scheduled, p # s, Active(p)
        PROVE  ~Conflicting(p, s) /\ ~Conflicting(s, p)
    <3>1. p \in called /\ p \notin returned
      BY <2>1 DEF IInv, CalledInRun
    <3>2. p \in Nat /\ s \in Nat
      BY SystemZero DEF IInv
    <3>3. CASE p < s
      BY <1>2, <3>1, <3>3, ConflictingSymmetric
    <3>4. CASE p > s
      BY <1>2, <3>1, <3>4, ConflictingSymmetric
    <3> QED
      BY <2>1, <3>2, <3>3, <3>4
  <2>2. \A p \in Scheduled : p \in DOMAIN systems
    BY DEF Scheduled
  <2>3. ASSUME NEW p \in Scheduled, NEW q \in Scheduled, p # q, Active(p)', Active(q)'
        PROVE  ~Conflicting(p, q)
    BY <1>4, <2>1, <2>2, <2>3 DEF IInv, NoOverlap
  <2> QED
    BY <1>5, <2>3 DEF NoOverlap
<1>10. Updating'
  BY <1>1, <1>3 DEF IInv, Updating, At, Idle
<1> QED
  BY <1>6, <1>7, <1>8, <1>9, <1>10 DEF IInv

\* The steps of a call that change no resource: its system stays in the call, or is
\* done in this run, as is every update of it.
LEMMA CallKeeps ==
  ASSUME IInv, NEW s \in DOMAIN systems,
         \/ BeforeUpdate(s) \/ AfterUpdate(s) \/ Panic(s)
         \/ \E k \in DOMAIN systems[s] : Receive(s, k)
  PROVE  IInv'
<1>1. UNCHANGED <<systems, storage, stage, written, called>> /\ Active(s)
  BY SystemZero DEF IInv, BeforeUpdate, AfterUpdate, Panic, Receive, Active, EndCall, Order!Return,
                    Order!Fail
<1>2. \/ call' = call /\ UNCHANGED <<returned, failed>>
      \/ call' = [call EXCEPT ![s] = At("body")] /\ UNCHANGED <<returned, failed>>
      \/ /\ call' = [call EXCEPT ![s] = Idle]
         /\ IF s = 0 THEN UNCHANGED <<returned, failed>>
            ELSE returned' \union failed' = returned \union failed \union {s} /\ s \in called
  BY DEF BeforeUpdate, AfterUpdate, Panic, Receive, EndCall, Order!Return, Order!Fail
<1>3. PICK c \in {call[s], At("body"), Idle} : call' = [call EXCEPT ![s] = c]
  BY <1>2 DEF IInv, Types
<1>4. /\ \A p \in DOMAIN systems : call'[p] = IF p = s THEN c ELSE call[p]
      /\ \A p \in DOMAIN systems : Active(p)' => Active(p)
      /\ c.pc = "updating" => c = call[s]
  BY <1>1, <1>3 DEF IInv, Types, Active, At, Idle
<1>5. Scheduled' = Scheduled /\ \A p, q \in Scheduled : Conflicting(p, q)' <=> Conflicting(p, q)
  BY <1>1 DEF Scheduled, Conflicting
<1>6. Types'
  <2>1. c \in [pc : Pcs, arg : Nat, seen : Nat]
    BY <1>3 DEF IInv, Types, At, Idle, Pcs
  <2> QED
    BY <1>1, <1>3, <2>1 DEF IInv, Types
<1>7. Stored'
  BY <1>1 DEF IInv, Stored
<1>8. CalledInRun'
  <2>1. s # 0 => s \in Scheduled
    BY SystemZero DEF IInv
  <2>2. returned' \union failed' \subseteq called'
    BY <1>1, <1>2 DEF IInv, CalledInRun
  <2>3. Active(0)' => stage' # "running"
    BY <1>1, <1>4, SystemZero DEF IInv, CalledInRun
  <2>4. ASSUME NEW p \in Scheduled, Active(p)'
        PROVE  p \notin returned' \union failed'
    <3>1. p \notin returned \union failed /\ p # 0 /\ p \in DOMAIN systems
      BY <1>4, <2>4, SystemZero DEF IInv, CalledInRun
    <3>2. CASE call' = [call EXCEPT ![s] = Idle]
      <4>1. p # s
        BY <1>1, <2>4, <3>1, <3>2 DEF IInv, Types, Active, Idle
      <4> QED
        BY <1>2, <3>1, <4>1
    <3> QED
      BY <1>2, <3>1, <3>2
  <2>5. \A p \in Scheduled : Active(p)' => stage' = "running" /\ p \in called'
    BY <1>1, <1>4, SystemZero DEF IInv, CalledInRun
  <2> QED
    BY <1>5, <2>2, <2>3, <2>4, <2>5 DEF CalledInRun
<1>9. NoOverlap'
  BY <1>4, <1>5, SystemZero DEF IInv, NoOverlap
<1>10. Updating'
  BY <1>1, <1>4 DEF IInv, Updating
<1> QED
  BY <1>6, <1>7, <1>8, <1>9, <1>10 DEF IInv

\* An update begins: only the next index of a mailbox changes.
LEMMA BeginUpdateKeeps ==
  ASSUME IInv, NEW s \in DOMAIN systems, NEW k \in DOMAIN systems[s], BeginUpdate(s, k)
  PROVE  IInv'
<1> DEFINE r == systems[s][k].of
           c == [pc |-> "updating", arg |-> k, seen |-> Len(written[r])]
           new == IF r \in Messages THEN Allocate(storage[r]) ELSE storage[r]
<1>1. /\ UNCHANGED <<systems, stage, called, returned, failed, written>>
      /\ storage' = [storage EXCEPT ![r] = new]
      /\ Active(s) /\ systems[s][k].kind \in MutableKinds /\ r \in DOMAIN storage
  BY DEF BeginUpdate, MayUpdate, Active
<1>2. r \in Resources /\ written[r] \in Seq(Nat) /\ Len(written[r]) \in Nat
  BY <1>1 DEF IInv, Types, Stored
<1>3. IF r \in Messages THEN storage[r] \in Mailbox /\ storage[r].current = written[r]
      ELSE storage[r] = Len(written[r])
  BY <1>1 DEF IInv, Stored
<1>4. call' = [call EXCEPT ![s] = c]
  BY <1>3 DEF BeginUpdate
<1>5. IF r \in Messages THEN new \in Mailbox /\ new.current = written[r] ELSE new = Len(written[r])
  BY <1>3, MailboxAllocate
<1>6. k \in Nat
  BY SystemZero DEF IInv
<1> HIDE DEF r, new
<1>7. c.pc = "updating" /\ c.arg = k /\ c.seen = Len(written[r]) /\ c \in [pc : Pcs, arg : Nat, seen : Nat]
  BY <1>2, <1>6 DEF Pcs
<1> HIDE DEF c
<1>8. /\ \A p \in DOMAIN systems : call'[p] = IF p = s THEN c ELSE call[p]
      /\ \A p \in DOMAIN systems : Active(p)' <=> Active(p)
  BY <1>1, <1>4, <1>7 DEF IInv, Types, Active
<1>9. Scheduled' = Scheduled /\ \A p, q \in Scheduled : Conflicting(p, q)' <=> Conflicting(p, q)
  BY <1>1 DEF Scheduled, Conflicting
<1>10. /\ DOMAIN storage' = DOMAIN storage /\ storage' = [x \in DOMAIN storage' |-> storage'[x]]
       /\ storage'[r] = new /\ \A x \in DOMAIN storage \ {r} : storage'[x] = storage[x]
  BY <1>1
<1>11. Types'
  BY <1>1, <1>4, <1>7 DEF IInv, Types
<1>12. Stored'
  BY <1>1, <1>5, <1>10 DEF IInv, Stored
<1>13. CalledInRun'
  BY <1>1, <1>8, <1>9, SystemZero DEF IInv, CalledInRun
<1>14. NoOverlap'
  BY <1>8, <1>9, SystemZero DEF IInv, NoOverlap
<1>15. Updating'
  BY <1>1, <1>7, <1>8, <1>10 DEF IInv, Updating, r
<1> QED
  BY <1>11, <1>12, <1>13, <1>14, <1>15 DEF IInv

\* An update ends: no other call updates the resource, so that none is lost.
LEMMA EndUpdateKeeps ==
  ASSUME IInv, NEW s \in DOMAIN systems, EndUpdate(s)
  PROVE  IInv'
<1> DEFINE k == call[s].arg
           r == systems[s][k].of
           n == Len(written[r]) + 1
           new == IF r \in Messages THEN PushAt(storage[r], call[s].seen, n) ELSE call[s].seen + 1
<1>1. /\ UNCHANGED <<systems, stage, called, returned, failed>>
      /\ storage' = [storage EXCEPT ![r] = new]
      /\ call' = [call EXCEPT ![s] = At("body")]
      /\ written' = [written EXCEPT ![r] = Append(written[r], n)]
      /\ call[s].pc = "updating"
  BY DEF EndUpdate
<1>2. /\ k \in DOMAIN systems[s] /\ systems[s][k].kind \in MutableKinds /\ r \in DOMAIN storage
      /\ call[s].seen = Len(written[r]) /\ Active(s)
  BY <1>1 DEF IInv, Updating, Active
<1>3. r \in Resources /\ written[r] \in Seq(Nat) /\ Len(written[r]) \in Nat /\ n \in Nat
  BY <1>2 DEF IInv, Types, Stored
<1>4. IF r \in Messages THEN storage[r] \in Mailbox /\ storage[r].current = written[r]
      ELSE storage[r] = Len(written[r])
  BY <1>2 DEF IInv, Stored
<1>5. Append(written[r], n) \in Seq(Nat) /\ Len(Append(written[r], n)) = Len(written[r]) + 1
  BY <1>3
<1>6. IF r \in Messages THEN new \in Mailbox /\ new.current = Append(written[r], n)
      ELSE new = Len(Append(written[r], n))
  <2>1. CASE r \in Messages
    <3>1. new = PushAt(storage[r], Len(storage[r].current), n)
      BY <1>2, <1>4, <2>1
    <3> QED
      BY <1>3, <1>4, <2>1, <3>1, MailboxPush
  <2>2. CASE r \notin Messages
    BY <1>2, <1>5, <2>2
  <2> QED
    BY <2>1, <2>2
<1>7. ASSUME NEW p \in DOMAIN systems, p # s, call[p].pc = "updating"
      PROVE  systems[p][call[p].arg].of # r
  <2>1. call[p].arg \in DOMAIN systems[p] /\ systems[p][call[p].arg].kind \in MutableKinds
    BY <1>7 DEF IInv, Updating
  <2>2. Active(p)
    BY <1>7 DEF Active
  <2> QED
    BY <1>2, <1>7, <2>1, <2>2, Exclusive
<1> HIDE DEF k, r, n, new
<1>8. /\ \A p \in DOMAIN systems : call'[p] = IF p = s THEN At("body") ELSE call[p]
      /\ \A p \in DOMAIN systems : Active(p)' <=> Active(p)
  BY <1>1, <1>2 DEF IInv, Types, Active, At, Idle
<1>9. Scheduled' = Scheduled /\ \A p, q \in Scheduled : Conflicting(p, q)' <=> Conflicting(p, q)
  BY <1>1 DEF Scheduled, Conflicting
<1>10. /\ DOMAIN storage' = DOMAIN storage /\ storage' = [x \in DOMAIN storage' |-> storage'[x]]
       /\ storage'[r] = new /\ \A x \in DOMAIN storage \ {r} : storage'[x] = storage[x]
  BY <1>1, <1>2
<1>11. /\ written' \in [Resources -> Seq(Nat)] /\ written'[r] = Append(written[r], n)
       /\ \A x \in Resources \ {r} : written'[x] = written[x]
  BY <1>1, <1>3, <1>5 DEF IInv, Types
<1>12. Types'
  <2>1. At("body") \in [pc : Pcs, arg : Nat, seen : Nat]
    BY DEF At, Idle, Pcs
  <2> QED
    BY <1>1, <1>11, <2>1 DEF IInv, Types
<1>13. Stored'
  BY <1>2, <1>6, <1>10, <1>11 DEF IInv, Stored
<1>14. CalledInRun'
  BY <1>1, <1>8, <1>9, SystemZero DEF IInv, CalledInRun
<1>15. NoOverlap'
  BY <1>8, <1>9, SystemZero DEF IInv, NoOverlap
<1>16. Updating'
  <2> SUFFICES ASSUME NEW p \in DOMAIN systems, call'[p].pc = "updating"
               PROVE  LET a == systems[p][call[p].arg]
                      IN  /\ call'[p] = call[p] /\ call[p].arg \in DOMAIN systems[p]
                          /\ a.kind \in MutableKinds /\ a.of \in DOMAIN storage
                          /\ call[p].seen = Len(written'[a.of])
    BY <1>1, <1>10 DEF Updating
  <2>1. p # s /\ call'[p] = call[p]
    BY <1>8 DEF At, Idle
  <2>2. systems[p][call[p].arg].of # r
    BY <1>7, <2>1
  <2> QED
    BY <1>11, <2>1, <2>2 DEF IInv, Updating, Stored
<1> QED
  BY <1>12, <1>13, <1>14, <1>15, <1>16 DEF IInv

\* Every step keeps the invariant.
LEMMA InductiveStep ==
  ASSUME IInv, [Next]_vars
  PROVE  IInv'
<1>1. CASE UNCHANGED vars
  <2>1. UNCHANGED <<systems, storage, stage, called, returned, failed, call, written>>
    BY <1>1 DEF vars
  <2> QED
    BY <2>1 DEF IInv, Types, Stored, CalledInRun, NoOverlap, Updating, Active, Scheduled,
                      Conflicting
<1>2. ASSUME NEW r \in Resources, AddResource(r) \/ UpdateResource(r)
      PROVE  IInv'
  BY <1>2, OwnerKeeps
<1>3. CASE Build \/ BeginRun \/ EndRun
  BY <1>3, BuildKeeps, RunsKeep
<1>4. ASSUME NEW system \in Singles, RunSystem(system)
      PROVE  IInv'
  BY <1>4, RunSystemKeeps
<1>5. ASSUME NEW s \in Scheduled, BeginCall(s)
      PROVE  IInv'
  BY <1>5, BeginCallKeeps
<1>6. ASSUME NEW s \in DOMAIN systems, CallStep(s)
      PROVE  IInv'
  BY <1>6, CallKeeps, BeginUpdateKeeps, EndUpdateKeeps DEF CallStep, BodyStep
<1> QED
  BY <1>1, <1>2, <1>3, <1>4, <1>5, <1>6 DEF Next

\* The invariant holds in every state.
LEMMA Inductive == Spec => []IInv
BY InitEstablishes, InductiveStep, PTL DEF Spec

\* For any schedule and any resources: whatever systems run at the same time, no
\* update is lost, although ResMut and Outbox write through raw pointers.
THEOREM NoUpdateIsLost == Spec => []NoUpdateLost
<1>1. IInv => NoUpdateLost
  BY DEF IInv, Stored, NoUpdateLost
<1> QED
  BY <1>1, Inductive, PTL

\* For any schedule and any resources: what a call sees through a shared reference
\* does not change during it.
THEOREM SharedAlwaysStaysStill == Spec => SharedStaysStill
<1> DEFINE Still == \A s \in DOMAIN systems :
             InCall(s) /\ InCall(s)' => \A r \in SharedBy(s) : storage'[r] = storage[r]
<1>1. ASSUME IInv, [Next]_vars
      PROVE  [Still]_vars
  <2> SUFFICES ASSUME Next, NEW s \in DOMAIN systems, InCall(s), NEW r \in SharedBy(s)
               PROVE  storage'[r] = storage[r]
    BY <1>1
  <2>1. Active(s)
    BY DEF InCall, Active
  <2>2. Busy
    BY <1>1, <2>1, NotBusy
  <2>3. CASE storage' = storage
    BY <2>3
  <2>4. ASSUME NEW p \in DOMAIN systems, NEW k \in DOMAIN systems[p],
               Active(p), systems[p][k].kind \in MutableKinds,
               NEW v, storage' = [storage EXCEPT ![systems[p][k].of] = v]
        PROVE  storage'[r] = storage[r]
    <3>1. /\ r \notin {systems[s][j].of : j \in {i \in DOMAIN systems[s] : systems[s][i].kind \in MutableKinds}}
          /\ \/ \E j \in DOMAIN systems[s] : systems[s][j].kind = "world"
             \/ \E j \in DOMAIN systems[s] : systems[s][j].kind \in SharedKinds /\ systems[s][j].of = r
      BY DEF SharedBy
    <3>2. CASE r = systems[p][k].of
      <4>1. p # s
        BY <2>4, <3>1, <3>2
      <4> QED
        BY <1>1, <2>1, <2>4, <3>1, <3>2, <4>1, Exclusive
    <3>3. CASE r # systems[p][k].of
      BY <2>4, <3>3
    <3> QED
      BY <3>2, <3>3
  <2>5. ASSUME NEW p \in DOMAIN systems, NEW k \in DOMAIN systems[p], BeginUpdate(p, k)
        PROVE  storage'[r] = storage[r]
    <3>1. /\ Active(p) /\ systems[p][k].kind \in MutableKinds
          /\ \E v : storage' = [storage EXCEPT ![systems[p][k].of] = v]
      BY <2>5 DEF BeginUpdate, Active
    <3> QED
      BY <2>4, <3>1
  <2>6. ASSUME NEW p \in DOMAIN systems, EndUpdate(p)
        PROVE  storage'[r] = storage[r]
    <3>1. /\ Active(p) /\ call[p].pc = "updating"
          /\ \E v : storage' = [storage EXCEPT ![systems[p][call[p].arg].of] = v]
      BY <2>6 DEF EndUpdate, Active
    <3>2. /\ call[p].arg \in DOMAIN systems[p]
          /\ systems[p][call[p].arg].kind \in MutableKinds
      BY <1>1, <3>1 DEF IInv, Updating
    <3> QED
      BY <2>4, <3>1, <3>2
  <2>7. ASSUME NEW p \in DOMAIN systems, CallStep(p)
        PROVE  storage'[r] = storage[r]
    BY <2>3, <2>5, <2>6, <2>7 DEF CallStep, BodyStep, BeforeUpdate, Receive, Panic, AfterUpdate
  <2>8. CASE BeginRun \/ EndRun \/ \E p \in Scheduled : BeginCall(p)
    BY <2>3, <2>8 DEF BeginRun, EndRun, BeginCall
  <2> QED
    BY <2>2, <2>7, <2>8 DEF Next, AddResource, UpdateResource, Build, RunSystem
<1> QED
  BY <1>1, Inductive, PTL DEF Spec, SharedStaysStill

-----------------------------------------------------------------------------
(* The length of an inbox.                                                  *)

StateTypes == [next_index : Nat, this_run : Nat, last_run : Nat]

\* The states of the arguments, and the number of the messages.
Indexed ==
  /\ tick \in Nat
  /\ states = [s \in DOMAIN systems |-> states[s]]
  /\ \A s \in DOMAIN systems : \A k \in DOMAIN states[s] : states[s][k] \in StateTypes
  /\ \A r \in Resources : \A i \in DOMAIN written[r] : written[r][i] = i

\* A mailbox has no more messages than it has allocated indices, also while an outbox has
\* allocated one and yet to push its message.
Allocated ==
  /\ \A m \in Messages \intersect DOMAIN storage :
       /\ storage[m].previous = <<>> /\ storage[m].prev_index = 0
       /\ Len(storage[m].current) <= storage[m].next_index /\ storage[m].next_index <= MaxUpdates
  /\ \A s \in DOMAIN systems :
       LET r == systems[s][call[s].arg].of
       IN  call[s].pc = "updating" /\ r \in Messages => call[s].seen < storage[r].next_index

LenInv == IInv /\ Indexed /\ Allocated

\* No mailbox has a message at the start.
LEMMA InitCounts == Init => LenInv
<1> SUFFICES ASSUME Init
             PROVE  LenInv
  OBVIOUS
<1>1. Indexed
  BY DEF Init, Indexed
<1>2. Allocated
  BY DEF Init, Allocated, Idle
<1> QED
  BY <1>1, <1>2, InitEstablishes DEF LenInv

\* A system that is built has not received or run.
LEMMA NewStatesOK ==
  ASSUME tick \in Nat, NEW system
  PROVE  \A k \in DOMAIN NewStates(system) : NewStates(system)[k] \in StateTypes
BY DEF NewStates, StateTypes

\* What an update makes of the history.
LEMMA WrittenNext ==
  ASSUME IInv, Indexed, NEW r \in Resources,
         written' = [written EXCEPT ![r] = Append(written[r], Len(written[r]) + 1)]
  PROVE  \A x \in Resources : \A i \in DOMAIN written'[x] : written'[x][i] = i
<1>1. /\ written'[r] = Append(written[r], Len(written[r]) + 1) /\ written[r] \in Seq(Nat)
      /\ \A x \in Resources \ {r} : written'[x] = written[x]
  BY DEF IInv, Types
<1>2. \A i \in DOMAIN written'[r] : written'[r][i] = i
  <2>1. \A i \in DOMAIN written[r] : written[r][i] = i
    BY DEF Indexed
  <2> QED
    BY <1>1, <2>1
<1> QED
  BY <1>1, <1>2 DEF Indexed

\* Every step keeps the types of the states and the numbers of the messages.
LEMMA IndexedKept ==
  ASSUME IInv, Indexed, [Next]_vars
  PROVE  Indexed'
<1>1. CASE UNCHANGED vars
  BY <1>1 DEF vars, Indexed
<1>2. ASSUME NEW r \in Resources, AddResource(r)
      PROVE  Indexed'
  <2>1. /\ tick' = tick /\ states' = states /\ systems' = systems
        /\ written' = [written EXCEPT ![r] = <<>>]
    BY <1>2 DEF AddResource
  <2>2. \A x \in Resources : \A i \in DOMAIN written'[x] : written'[x][i] = i
    BY <2>1 DEF Indexed, IInv, Types
  <2> QED
    BY <2>1, <2>2 DEF Indexed
<1>3. ASSUME NEW r \in Resources, UpdateResource(r)
      PROVE  Indexed'
  <2>1. /\ tick' = tick /\ states' = states /\ systems' = systems
        /\ written' = [written EXCEPT ![r] = Append(written[r], Len(written[r]) + 1)]
    BY <1>3 DEF UpdateResource
  <2> QED
    BY <2>1, WrittenNext DEF Indexed
<1>4. CASE Build
  <2>1. /\ tick' = tick /\ written' = written /\ systems' = systems
        /\ states' = [s \in DOMAIN systems |-> IF s = 0 THEN states[s] ELSE NewStates(systems[s])]
    BY <1>4 DEF Build
  <2>2. ASSUME NEW s \in DOMAIN systems, NEW k \in DOMAIN states'[s]
        PROVE  states'[s][k] \in StateTypes
    <3>1. CASE s = 0
      BY <2>1, <2>2, <3>1 DEF Indexed
    <3>2. CASE s # 0
      <4>1. states'[s] = NewStates(systems[s])
        BY <2>1, <3>2
      <4> QED
        BY <2>2, <4>1, NewStatesOK DEF Indexed
    <3> QED
      BY <3>1, <3>2
  <2>3. states' = [s \in DOMAIN systems' |-> states'[s]]
    BY <2>1
  <2> QED
    BY <2>1, <2>2, <2>3 DEF Indexed
<1>5. ASSUME NEW system \in Singles, RunSystem(system)
      PROVE  Indexed'
  <2> DEFINE new == NewStates(system)
  <2>1. /\ tick' = tick /\ written' = written /\ states' = [states EXCEPT ![0] = new]
        /\ systems' = [systems EXCEPT ![0] = system]
    BY <1>5 DEF RunSystem
  <2>2. \A k \in DOMAIN new : new[k] \in StateTypes
    BY NewStatesOK DEF Indexed
  <2> HIDE DEF new
  <2>3. DOMAIN states = DOMAIN systems /\ DOMAIN systems' = DOMAIN systems
        /\ states' = [s \in DOMAIN systems |-> IF s = 0 THEN new ELSE states[s]]
    <3>1. DOMAIN states = DOMAIN systems
      BY DEF Indexed
    <3>2. DOMAIN systems' = DOMAIN systems
      BY <2>1
    <3> QED
      BY <2>1, <3>1, <3>2
  <2>4. states' = [s \in DOMAIN systems' |-> states'[s]]
    BY <2>3
  <2>5. ASSUME NEW s \in DOMAIN systems, NEW k \in DOMAIN states'[s]
        PROVE  states'[s][k] \in StateTypes
    <3>1. states'[s] = IF s = 0 THEN new ELSE states[s]
      BY <2>3
    <3> QED
      BY <2>2, <2>5, <3>1 DEF Indexed
  <2> QED
    BY <2>1, <2>3, <2>4, <2>5 DEF Indexed
<1>6. CASE BeginRun \/ EndRun \/ \E s \in Scheduled : BeginCall(s)
  <2>1. tick' \in Nat /\ states' = states /\ systems' = systems /\ written' = written
    BY <1>6 DEF BeginRun, EndRun, BeginCall, Indexed
  <2> QED
    BY <2>1 DEF Indexed
<1>7. ASSUME NEW s \in DOMAIN systems, NEW new,
             \A k \in DOMAIN new : new[k] \in StateTypes,
             states' = [states EXCEPT ![s] = new], tick' = tick, systems' = systems, written' = written
      PROVE  Indexed'
  <2>1. /\ DOMAIN states = DOMAIN systems /\ states' = [states' EXCEPT ![s] = new]
        /\ states' = [p \in DOMAIN systems |-> IF p = s THEN new ELSE states[p]]
    <3>1. DOMAIN states = DOMAIN systems
      BY DEF Indexed
    <3> QED
      BY <1>7, <3>1
  <2>2. states' = [p \in DOMAIN systems' |-> states'[p]]
    BY <1>7, <2>1
  <2>3. ASSUME NEW p \in DOMAIN systems, NEW k \in DOMAIN states'[p]
        PROVE  states'[p][k] \in StateTypes
    <3>1. states'[p] = IF p = s THEN new ELSE states[p]
      BY <2>1
    <3> QED
      BY <1>7, <2>3, <3>1 DEF Indexed
  <2> QED
    BY <1>7, <2>2, <2>3 DEF Indexed
<1>8. ASSUME NEW s \in DOMAIN systems, CallStep(s)
      PROVE  Indexed'
  <2>0. /\ tick \in Nat
        /\ \A k \in DOMAIN states[s] : states[s][k] \in StateTypes
    BY DEF Indexed
  <2>1. CASE BeforeUpdate(s)
    <3> DEFINE fetched(k) == systems[s][k].kind = "tick" /\ \A i \in Absent(s) : k < i
               new == [k \in DOMAIN states[s] |->
                         IF fetched(k) THEN BeginTick(states[s][k]) ELSE states[s][k]]
    <3>1. states' = [states EXCEPT ![s] = new] /\ tick' = tick /\ systems' = systems /\ written' = written
      BY <2>1 DEF BeforeUpdate
    <3> HIDE DEF fetched
    <3>2. \A state \in StateTypes : BeginTick(state) \in StateTypes
      BY <2>0 DEF BeginTick, StateTypes
    <3>3. \A k \in DOMAIN new : new[k] \in StateTypes
      BY <2>0, <3>2
    <3> HIDE DEF new
    <3> QED
      BY <1>7, <3>1, <3>3
  <2>2. CASE AfterUpdate(s)
    <3> DEFINE updated(k) == systems[s][k].kind = "tick" /\ \A i \in Todo(s) : k < i
               new == [k \in DOMAIN states[s] |->
                         IF updated(k) THEN EndTick(states[s][k]) ELSE states[s][k]]
    <3>1. states' = [states EXCEPT ![s] = new] /\ tick' = tick /\ systems' = systems /\ written' = written
      BY <2>2 DEF AfterUpdate
    <3> HIDE DEF updated
    <3>2. \A state \in StateTypes : EndTick(state) \in StateTypes
      BY DEF EndTick, StateTypes
    <3>3. \A k \in DOMAIN new : new[k] \in StateTypes
      BY <2>0, <3>2
    <3> HIDE DEF new
    <3> QED
      BY <1>7, <3>1, <3>3
  <2>3. ASSUME NEW k \in DOMAIN systems[s], Receive(s, k)
        PROVE  Indexed'
    <3> DEFINE message == Get(storage[systems[s][k].of], states[s][k].next_index)
               next == [states[s][k] EXCEPT !.next_index = NextIndex(states[s][k].next_index, message)]
               new == [states[s] EXCEPT ![k] = next]
    <3>1. states' = [states EXCEPT ![s] = new] /\ tick' = tick /\ systems' = systems /\ written' = written
      BY <2>3 DEF Receive
    <3> HIDE DEF message
    <3>2. \A state \in StateTypes :
            [state EXCEPT !.next_index = NextIndex(state.next_index, message)] \in StateTypes
      BY DEF NextIndex, StateTypes
    <3>3. k \in DOMAIN states[s] => next \in StateTypes
      BY <2>0, <3>2
    <3> HIDE DEF next
    <3>4. \A j \in DOMAIN new : new[j] \in StateTypes
      BY <2>0, <3>3
    <3> HIDE DEF new
    <3> QED
      BY <1>7, <3>1, <3>4
  <2>4. CASE Panic(s) \/ \E k \in DOMAIN systems[s] : BeginUpdate(s, k)
    <3>1. tick' = tick /\ states' = states /\ systems' = systems /\ written' = written
      BY <2>4 DEF Panic, BeginUpdate
    <3> QED
      BY <3>1 DEF Indexed
  <2>5. CASE EndUpdate(s)
    <3> DEFINE r == systems[s][call[s].arg].of
    <3>1. /\ tick' = tick /\ states' = states /\ systems' = systems /\ call[s].pc = "updating"
          /\ written' = [written EXCEPT ![r] = Append(written[r], Len(written[r]) + 1)]
      BY <2>5 DEF EndUpdate
    <3>2. r \in Resources
      BY <3>1 DEF IInv, Updating, Stored
    <3> HIDE DEF r
    <3> QED
      BY <3>1, <3>2, WrittenNext DEF Indexed
  <2> QED
    BY <1>8, <2>1, <2>2, <2>3, <2>4, <2>5 DEF CallStep, BodyStep
<1> QED
  BY <1>1, <1>2, <1>3, <1>4, <1>5, <1>6, <1>8 DEF Next

\* Allocated says this of each mailbox.
Fits(m) ==
  /\ m.previous = <<>> /\ m.prev_index = 0
  /\ Len(m.current) <= m.next_index /\ m.next_index <= MaxUpdates

\* A new mailbox has no messages.
LEMMA NewFits == Fits(NewMailbox)
BY SystemsAssumption DEF Fits, NewMailbox

\* Allocating an index makes room for a message.
LEMMA AllocateFits ==
  ASSUME NEW m \in Mailbox, Fits(m), m.next_index < MaxUpdates
  PROVE  Fits(Allocate(m)) /\ Allocate(m).next_index = m.next_index + 1
         /\ Len(m.current) < m.next_index + 1
<1>1. Allocate(m) = [m EXCEPT !.next_index = m.next_index + 1] /\ m.next_index \in Nat
      /\ Len(m.current) \in Nat
  BY DEF Mailbox, Allocate
<1> QED
  BY <1>1, SystemsAssumption DEF Mailbox, Fits

\* The message takes that room.
LEMMA PushFits ==
  ASSUME NEW m \in Mailbox, Fits(m), NEW n \in Nat, Len(m.current) < m.next_index
  PROVE  Fits(PushAt(m, Len(m.current), n))
<1>1. m.current \in Seq(Nat) /\ m.next_index \in Nat
  BY DEF Mailbox
<1>2. SubSeq(m.current, 1, Len(m.current)) = m.current
  BY <1>1
<1>3. PushAt(m, Len(m.current), n) = [m EXCEPT !.current = Append(m.current, n)]
  BY <1>2 DEF PushAt, Mailbox
<1>4. Len(Append(m.current, n)) <= m.next_index
  BY <1>1
<1> QED
  BY <1>3, <1>4 DEF Mailbox, Fits

\* The next step of a call is the end of its update, if it has begun one.
Pending(s, r) == call[s].pc = "updating" /\ systems[s][call[s].arg].of = r

\* Allocated, in these terms.
LEMMA AllocatedAs ==
  Allocated <=> /\ \A m \in Messages \intersect DOMAIN storage : Fits(storage[m])
                /\ \A s \in DOMAIN systems : \A r \in Messages :
                     Pending(s, r) => call[s].seen < storage[r].next_index
BY DEF Allocated, Fits, Pending

\* While nothing is called, only the mailboxes matter.
LEMMA IdleAllocated ==
  ASSUME \A s \in DOMAIN systems' : call'[s].pc # "updating",
         \A m \in Messages \intersect DOMAIN storage' : Fits(storage'[m])
  PROVE  Allocated'
BY DEF Allocated, Fits

\* Every step keeps it: two updates of a mailbox never overlap, so that each pushes the
\* message it has allocated the index for.
LEMMA AllocatedKept ==
  ASSUME IInv, Indexed, Allocated, [Next]_vars
  PROVE  Allocated'
<1>1. CASE UNCHANGED vars
  BY <1>1 DEF vars, Allocated
<1>2. ASSUME NEW r \in Resources, AddResource(r)
      PROVE  Allocated'
  <2>1. \A s \in DOMAIN systems' : call'[s].pc # "updating"
    BY <1>2, NotBusy DEF AddResource, Active
  <2>2. \A m \in Messages \intersect DOMAIN storage' :
          storage'[m] = NewMailbox \/ (m \in DOMAIN storage /\ storage'[m] = storage[m])
    BY <1>2 DEF AddResource
  <2> QED
    BY <2>1, <2>2, NewFits, AllocatedAs, IdleAllocated
<1>3. ASSUME NEW r \in Resources, UpdateResource(r)
      PROVE  Allocated'
  <2> DEFINE n == Len(written[r]) + 1
  <2>1. \A s \in DOMAIN systems' : call'[s].pc # "updating"
    BY <1>3, NotBusy DEF UpdateResource, Active
  <2>2. /\ storage' = [storage EXCEPT ![r] = IF r \in Messages THEN Send(storage[r], n) ELSE storage[r] + 1]
        /\ r \in DOMAIN storage /\ (r \in Messages => storage[r].next_index < MaxUpdates)
    BY <1>3 DEF UpdateResource, MayUpdate
  <2>3. n \in Nat
    BY DEF IInv, Types
  <2> HIDE DEF n
  <2>4. ASSUME r \in Messages
        PROVE  Fits(Send(storage[r], n))
    <3>1. storage[r] \in Mailbox /\ Fits(storage[r]) /\ storage[r].next_index < MaxUpdates
      BY <2>2, <2>4, AllocatedAs DEF IInv, Stored
    <3> DEFINE m == Allocate(storage[r])
    <3>2. m \in Mailbox /\ m.current = storage[r].current /\ Fits(m) /\ Len(m.current) < m.next_index
      BY <3>1, MailboxAllocate, AllocateFits
    <3> HIDE DEF m
    <3>3. Fits(PushAt(m, Len(m.current), n))
      BY <2>3, <3>2, PushFits
    <3> QED
      BY <3>2, <3>3 DEF Send, m
  <2>5. \A m \in Messages \intersect DOMAIN storage' : Fits(storage'[m])
    BY <2>2, <2>4, AllocatedAs
  <2> QED
    BY <2>1, <2>5, IdleAllocated
<1>4. ASSUME NEW missing, missing \subseteq Messages \ DOMAIN storage, storage' = WithMailboxes(missing)
      PROVE  \A m \in Messages \intersect DOMAIN storage' : Fits(storage'[m])
  <2>1. \A m \in Messages \intersect DOMAIN storage' :
          storage'[m] = NewMailbox \/ (m \in DOMAIN storage /\ storage'[m] = storage[m])
    BY <1>4 DEF WithMailboxes
  <2> QED
    BY <2>1, NewFits, AllocatedAs
<1>5. CASE Build
  <2> DEFINE missing == UNION {MissingMailboxes(systems[s]) : s \in Scheduled}
  <2>1. missing \subseteq Messages \ DOMAIN storage /\ storage' = WithMailboxes(missing)
    BY <1>5, SystemZero, MissingAreMessages DEF IInv, Build
  <2>2. \A s \in DOMAIN systems' : call'[s].pc # "updating"
    BY <1>5, NotBusy DEF Build, Active
  <2> HIDE DEF missing
  <2> QED
    BY <1>4, <2>1, <2>2, IdleAllocated
<1>6. ASSUME NEW system \in Singles, RunSystem(system)
      PROVE  Allocated'
  <2>1. /\ MissingMailboxes(system) \subseteq Messages \ DOMAIN storage
        /\ storage' = WithMailboxes(MissingMailboxes(system))
    BY <1>6, MissingAreMessages, SystemsAssumption DEF RunSystem
  <2>2. \A s \in DOMAIN systems' : call'[s].pc # "updating"
    <3>1. DOMAIN systems' = DOMAIN systems /\ \A s \in DOMAIN systems : ~Active(s)
      BY <1>6, NotBusy DEF RunSystem
    <3>2. \A s \in DOMAIN systems : call'[s] = IF s = 0 THEN At("called") ELSE call[s]
      BY <1>6 DEF RunSystem, IInv, Types
    <3> QED
      BY <3>1, <3>2 DEF Active, At, Idle
  <2> QED
    BY <1>4, <2>1, <2>2, IdleAllocated
<1>7. ASSUME storage' = storage, systems' = systems,
             \A s \in DOMAIN systems : call'[s] = call[s] \/ call'[s].pc # "updating"
      PROVE  Allocated'
  BY <1>7 DEF Allocated
<1>8. CASE BeginRun \/ EndRun
  BY <1>7, <1>8 DEF BeginRun, EndRun
<1>9. ASSUME NEW s \in Scheduled, BeginCall(s)
      PROVE  Allocated'
  <2>1. call' = [call EXCEPT ![s] = At("called")] /\ storage' = storage /\ systems' = systems
    BY <1>9 DEF BeginCall
  <2>2. At("called").pc = "called"
    BY DEF At, Idle
  <2> QED
    BY <1>7, <2>1, <2>2 DEF IInv, Types
<1>10. ASSUME NEW s \in DOMAIN systems,
              \/ BeforeUpdate(s) \/ AfterUpdate(s) \/ Panic(s)
              \/ \E k \in DOMAIN systems[s] : Receive(s, k)
       PROVE  Allocated'
  <2>1. /\ storage' = storage /\ systems' = systems
        /\ \/ call' = call
           \/ call' = [call EXCEPT ![s] = At("body")]
           \/ call' = [call EXCEPT ![s] = Idle]
    BY <1>10 DEF BeforeUpdate, AfterUpdate, Panic, Receive, EndCall
  <2>2. At("body").pc = "body" /\ Idle.pc = "idle"
    BY DEF At, Idle
  <2> QED
    BY <1>7, <2>1, <2>2 DEF IInv, Types
<1>11. ASSUME NEW s \in DOMAIN systems, NEW k \in DOMAIN systems[s], BeginUpdate(s, k)
       PROVE  Allocated'
  <2>1. PICK r : r = systems[s][k].of
    OBVIOUS
  <2> DEFINE now == storage[r]
             next == IF r \in Messages THEN Allocate(now) ELSE now
             new == [pc |-> "updating", arg |-> k, seen |-> IF r \in Messages THEN Len(now.current) ELSE now]
  <2>2. /\ storage' = [storage EXCEPT ![r] = next] /\ call' = [call EXCEPT ![s] = new] /\ systems' = systems
        /\ r \in DOMAIN storage /\ (r \in Messages => now.next_index < MaxUpdates)
    BY <1>11, <2>1 DEF BeginUpdate, MayUpdate
  <2>3. new.arg = k /\ (r \in Messages => new.seen = Len(now.current))
    OBVIOUS
  <2>4. ASSUME r \in Messages
        PROVE  /\ Fits(next) /\ next.next_index = now.next_index + 1 /\ Len(now.current) < next.next_index
               /\ now.next_index \in Nat
    <3>1. now \in Mailbox /\ Fits(now)
      BY <2>2, <2>4, AllocatedAs DEF IInv, Stored
    <3>2. now.next_index \in Nat
      BY <3>1 DEF Mailbox
    <3> QED
      BY <2>2, <2>4, <3>1, <3>2, AllocateFits
  <2> HIDE DEF new, next
  <2>5. /\ storage'[r] = next /\ DOMAIN storage' = DOMAIN storage
        /\ \A x \in DOMAIN storage \ {r} : storage'[x] = storage[x]
    BY <2>2
  <2>6. \A m \in Messages \intersect DOMAIN storage' : Fits(storage'[m])
    BY <2>4, <2>5, AllocatedAs
  <2>7. ASSUME NEW p \in DOMAIN systems, call'[p].pc = "updating",
               systems[p][call'[p].arg].of \in Messages
        PROVE  call'[p].seen < storage'[systems[p][call'[p].arg].of].next_index
    <3>1. CASE p = s
      <4>1. call'[p] = new
        BY <2>2, <3>1 DEF IInv, Types
      <4> QED
        BY <2>1, <2>3, <2>4, <2>5, <2>7, <3>1, <4>1
    <3>2. CASE p # s
      <4> DEFINE x == systems[p][call[p].arg].of
      <4>1. call'[p] = call[p]
        BY <2>2, <3>2
      <4>2. /\ x \in DOMAIN storage /\ x \in Messages /\ call[p].seen < storage[x].next_index
            /\ call[p].seen \in Nat
        BY <2>7, <4>1 DEF IInv, Types, Updating, Allocated
      <4>3. CASE x = r
        BY <2>4, <2>5, <4>1, <4>2, <4>3
      <4>4. CASE x # r
        BY <2>5, <4>1, <4>2, <4>4
      <4> QED
        BY <4>3, <4>4
    <3> QED
      BY <3>1, <3>2
  <2> QED
    BY <2>2, <2>6, <2>7 DEF Allocated, Fits
<1>12. ASSUME NEW s \in DOMAIN systems, EndUpdate(s)
       PROVE  Allocated'
  <2>1. PICK r : r = systems[s][call[s].arg].of
    OBVIOUS
  <2> DEFINE n == Len(written[r]) + 1
             next == IF r \in Messages THEN PushAt(storage[r], call[s].seen, n) ELSE call[s].seen + 1
  <2>2. /\ storage' = [storage EXCEPT ![r] = next] /\ call' = [call EXCEPT ![s] = At("body")]
        /\ systems' = systems /\ call[s].pc = "updating"
    BY <1>12, <2>1 DEF EndUpdate
  <2>3. /\ r \in DOMAIN storage /\ r \in Resources /\ call[s].seen = Len(written[r])
        /\ call[s].arg \in DOMAIN systems[s] /\ systems[s][call[s].arg].kind \in MutableKinds
        /\ n \in Nat /\ Active(s)
    BY <2>1, <2>2 DEF IInv, Types, Updating, Stored, Active
  <2>4. ASSUME r \in Messages
        PROVE  Fits(next)
    <3>1. storage[r] \in Mailbox /\ Fits(storage[r]) /\ storage[r].current = written[r]
      BY <2>3, <2>4, AllocatedAs DEF IInv, Stored
    <3>2. Len(storage[r].current) < storage[r].next_index
      BY <2>1, <2>2, <2>3, <2>4, <3>1 DEF Allocated
    <3> HIDE DEF n
    <3>3. Fits(PushAt(storage[r], Len(storage[r].current), n))
      BY <2>3, <3>1, <3>2, PushFits
    <3> QED
      BY <2>3, <2>4, <3>1, <3>3
  <2> HIDE DEF next
  <2>5. /\ storage'[r] = next /\ DOMAIN storage' = DOMAIN storage
        /\ \A x \in DOMAIN storage \ {r} : storage'[x] = storage[x]
    BY <2>2, <2>3
  <2>6. \A m \in Messages \intersect DOMAIN storage' : Fits(storage'[m])
    BY <2>4, <2>5, AllocatedAs
  <2>7. ASSUME NEW p \in DOMAIN systems, call'[p].pc = "updating",
               systems[p][call'[p].arg].of \in Messages
        PROVE  call'[p].seen < storage'[systems[p][call'[p].arg].of].next_index
    <3> DEFINE x == systems[p][call[p].arg].of
    <3>1. p # s /\ call'[p] = call[p]
      <4>1. call'[s].pc = "body"
        BY <2>2 DEF IInv, Types, At, Idle
      <4> QED
        BY <2>2, <2>7, <4>1
    <3>2. /\ x \in DOMAIN storage /\ x \in Messages /\ call[p].seen < storage[x].next_index
          /\ call[p].arg \in DOMAIN systems[p] /\ systems[p][call[p].arg].kind \in MutableKinds
          /\ Active(p)
      BY <2>7, <3>1 DEF IInv, Updating, Allocated, Active
    <3>3. x # r
      BY <2>1, <2>3, <3>1, <3>2, Exclusive
    <3> QED
      BY <2>5, <3>1, <3>2, <3>3
  <2> QED
    BY <2>2, <2>6, <2>7 DEF Allocated, Fits
<1>13. ASSUME NEW s \in DOMAIN systems, CallStep(s)
       PROVE  Allocated'
  BY <1>10, <1>11, <1>12, <1>13 DEF CallStep, BodyStep
<1> QED
  BY <1>1, <1>2, <1>3, <1>5, <1>6, <1>8, <1>9, <1>13 DEF Next

\* The messages that an inbox with this index will still return.
LEMMA Unread ==
  ASSUME NEW m \in Mailbox, Fits(m), NEW index \in Nat,
         \A i \in 1 .. Len(m.current) : m.current[i] = i
  PROVE  CountUnread(m, index) = Cardinality({i \in index .. index + MaxUpdates : Get(m, i) # None})
<1> DEFINE n == Len(m.current)
           unread == {i \in index .. index + MaxUpdates : Get(m, i) # None}
<1>1. m.previous = <<>> /\ m.prev_index = 0 /\ n \in Nat /\ n <= MaxUpdates /\ MaxUpdates \in Nat
  BY SystemsAssumption DEF Fits, Mailbox
<1>2. n = Len(m.current)
  OBVIOUS
<1> HIDE DEF n
<1>3. ASSUME NEW i \in Nat
      PROVE  Get(m, i) # None <=> i < n
  <2>1. Get(m, i) = IF i < 0 THEN m.previous[i + 1] ELSE IF i < n THEN m.current[i + 1] ELSE None
    BY <1>1, <1>2 DEF Get
  <2>2. i < n => m.current[i + 1] = i + 1
    BY <1>1, <1>2
  <2> QED
    BY <2>1, <2>2 DEF None
<1>4. unread = index .. n - 1
  BY <1>1, <1>3
<1> HIDE DEF unread
<1>5. Cardinality(unread) = IF index > n - 1 THEN 0 ELSE n - 1 - index + 1
  BY <1>1, <1>4, FS_Interval
<1>6. CountUnread(m, index) = IF n - index < 0 THEN 0 ELSE IF n - index > n THEN n ELSE n - index
  BY <1>1, <1>2 DEF CountUnread, MailboxLen
<1>7. CountUnread(m, index) = Cardinality(unread)
  BY <1>1, <1>5, <1>6
<1> QED
  BY <1>7 DEF unread

\* For any schedule, any mailboxes and any number of messages: the len that an inbox
\* reports as an ExactSizeIterator is the number of messages that next will return, also
\* when an outbox is half through a send and when the mailbox was replaced by an empty one.
THEOREM LenIsExact == Spec => []LenExact
<1>1. LenInv /\ [Next]_vars => LenInv'
  BY InductiveStep, IndexedKept, AllocatedKept DEF LenInv
<1>2. ASSUME LenInv
      PROVE  LenExact
  <2> SUFFICES ASSUME NEW m \in Messages \intersect DOMAIN storage, NEW p \in Places, Reads(p, m)
               PROVE  LET index == states[p[1]][p[2]].next_index
                      IN  CountUnread(storage[m], index) =
                            Cardinality({i \in index .. index + MaxUpdates : Get(storage[m], i) # None})
    BY DEF LenExact
  <2>1. states[p[1]][p[2]].next_index \in Nat
    <3>1. p[1] \in DOMAIN systems /\ p[2] \in DOMAIN states[p[1]]
      BY DEF Places, Reads
    <3>2. states[p[1]][p[2]] \in StateTypes
      BY <1>2, <3>1 DEF LenInv, Indexed
    <3> QED
      BY <3>2 DEF StateTypes
  <2>2. storage[m] \in Mailbox /\ Fits(storage[m]) /\ storage[m].current = written[m] /\ m \in Resources
    BY <1>2, AllocatedAs DEF LenInv, IInv, Stored
  <2>3. \A i \in 1 .. Len(storage[m].current) : storage[m].current[i] = i
    BY <1>2, <2>2 DEF LenInv, Indexed, Mailbox
  <2> QED
    BY <2>1, <2>2, <2>3, Unread
<1> QED
  BY <1>1, <1>2, InitCounts, PTL DEF Spec

=============================================================================
