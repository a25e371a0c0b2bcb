------------------------------ MODULE Systems ------------------------------
(***************************************************************************)
(* Systems with their arguments, and the resources and mailboxes that they *)
(* share: system/system.rs, system/args.rs, resource/, message/, local.rs  *)
(* and time.rs.  A world's systems are called by Scheduler::run, in the    *)
(* order that SystemOrder promises for their accesses, or one at a time by *)
(* World::run_system.  Calls that may overlap do, step by step.            *)
(*                                                                         *)
(* A system is the sequence of its arguments.  What its body does with     *)
(* them is any sequence of what they allow.  A release build is modelled.  *)
(***************************************************************************)
EXTENDS Accesses, FiniteSets, SequencesExt, Mailboxes

CONSTANTS
  Values,     \* the resources that are a plain value
  Messages,   \* the message types: the mailbox of each is a resource
  Schedules,  \* the sequences of systems that may be scheduled
  Singles,    \* the systems that World::run_system may be given
  MaxArgs,    \* the longest tuple of arguments
  MaxUpdates, \* bound on the updates of each resource, begun or ended
  MaxTick     \* bound on World::current_tick

Resources == Values \union Messages

\* The kinds of arguments: those that borrow a resource, and those that do not.
SharedKinds == {"res", "inbox"}
MutableKinds == {"resmut", "outbox"}
OtherKinds == {"world", "local", "tick"}
Args == [kind : {"res", "resmut"}, of : Resources]
          \union [kind : {"inbox", "outbox"}, of : Messages]
          \union [kind : OtherKinds, of : {WorldAccess}]

ASSUME SystemsAssumption ==
  /\ Values \intersect Messages = {}
  /\ Resources \subseteq AccessTypes \ {WorldAccess}
  /\ Schedules \subseteq Seq(Seq(Args)) /\ Singles \subseteq Seq(Args)
  /\ \A system \in Singles \union UNION {ToSet(schedule) : schedule \in Schedules} :
       Len(system) <= MaxArgs
  /\ MaxUpdates \in Nat /\ MaxTick \in Nat

VARIABLES
  systems,   \* the scheduled systems, and as system 0 the one that run_system was last given
  storage,   \* Resources::storage
  states,    \* the state of each argument of each system
  last_ran,  \* SysMeta::last_ran
  tick,      \* World::current_tick
  stage,     \* whether the schedule is still to be built, and whether it runs
  called, returned, failed,  \* the systems of the current run
  call,      \* what the call of each system does
  written,   \* history: the updates of each resource since it was inserted
  received,  \* history: the messages that each argument has received since init
  replaced   \* history: the mailboxes that were replaced after a reader had begun

vars == <<systems, storage, states, last_ran, tick, stage, called, returned, failed, call,
          written, received, replaced>>

-----------------------------------------------------------------------------
(* The accesses that the arguments declare.                                 *)

\* Mutant: ResMut does not declare that it writes.
AccessShared(a) ==
  IF a.kind \in {"local", "tick"} THEN {} ELSE {[ty |-> a.of, mutable |-> a.kind = "outbox"]}

\* Mutant: Outbox does not declare that it writes.
AccessOutboxShared(a) ==
  IF a.kind \in {"local", "tick"} THEN {} ELSE {[ty |-> a.of, mutable |-> a.kind = "resmut"]}

Access(a) ==
  IF a.kind \in {"local", "tick"} THEN {} ELSE {[ty |-> a.of, mutable |-> a.kind \in MutableKinds]}

ArgsConflict(a, b) == \E d \in Access(a), e \in Access(b) : Conflicts(d, e) \/ Conflicts(e, d)

Conflicting(p, s) ==
  \E i \in DOMAIN systems[p], k \in DOMAIN systems[s] : ArgsConflict(systems[p][i], systems[s][k])

\* Such a system waits for itself and is never called (Scheduler).
ConflictsWithItself(s) ==
  \E i, k \in DOMAIN systems[s] : i # k /\ ArgsConflict(systems[s][i], systems[s][k])

Scheduled == DOMAIN systems \ {0}

Order == INSTANCE SystemOrder WITH
  systems <- Scheduled,
  conflicts <- {e \in Scheduled \X Scheduled : Conflicting(e[1], e[2])}

-----------------------------------------------------------------------------
Idle == [pc |-> "idle", arg |-> 0, seen |-> 0]
At(pc) == [Idle EXCEPT !.pc = pc]

\* What an argument's state is built as; each kind uses its own part of it.
NewStates(system) ==
  [k \in DOMAIN system |-> [next_index |-> 0, this_run |-> tick, last_run |-> 0]]

NoMessages(system) == [k \in DOMAIN system |-> <<>>]

\* Inbox and Outbox insert the mailbox that they miss; Res and ResMut only warn.
MissingMailboxes(args) ==
  {args[k].of : k \in {i \in DOMAIN args : args[i].kind \in {"inbox", "outbox"}}}
    \ DOMAIN storage

WithMailboxes(missing) ==
  [r \in DOMAIN storage \union missing |-> IF r \in missing THEN NewMailbox ELSE storage[r]]

\* Some call of this world's systems may be in progress.
Busy == stage = "running" \/ call[0].pc # "idle"

Init ==
  /\ \E schedule \in Schedules :
       systems = [s \in 0 .. Len(schedule) |-> IF s = 0 THEN <<>> ELSE schedule[s]]
  /\ storage = [r \in {} |-> None]
  /\ states = [s \in DOMAIN systems |-> <<>>]
  /\ last_ran = [s \in DOMAIN systems |-> 0]
  /\ tick = 1
  /\ stage = "unbuilt"
  /\ called = {} /\ returned = {} /\ failed = {}
  /\ call = [s \in DOMAIN systems |-> Idle]
  /\ written = [r \in Resources |-> <<>>]
  /\ received = [s \in DOMAIN systems |-> NoMessages(systems[s])]
  /\ replaced = {}

-----------------------------------------------------------------------------
(* What the owner of the world does between runs.                           *)

\* The inboxes of a mailbox, by system and place.
Places == (DOMAIN systems) \X (1 .. MaxArgs)
Reads(p, m) ==
  /\ p[1] # 0 \/ call[0].pc # "idle"
  /\ p[2] \in DOMAIN states[p[1]]
  /\ systems[p[1]][p[2]] = [kind |-> "inbox", of |-> m]

HasReader(m) == \E p \in Places : Reads(p, m) /\ states[p[1]][p[2]].next_index > 0

\* World::add_resources: a resource that is there already is replaced.
AddResource(r) ==
  /\ ~Busy
  /\ storage' = [x \in DOMAIN storage \union {r} |->
                   IF x # r THEN storage[x] ELSE IF r \in Messages THEN NewMailbox ELSE 0]
  /\ written' = [written EXCEPT ![r] = <<>>]
  /\ replaced' = IF HasReader(r) THEN replaced \union {r} ELSE replaced
  /\ UNCHANGED <<systems, states, last_ran, tick, stage, called, returned, failed, call, received>>

MayUpdate(r) ==
  /\ r \in DOMAIN storage
  /\ IF r \in Messages THEN storage[r].next_index < MaxUpdates ELSE storage[r] < MaxUpdates

\* World::get_resource_mut, and an update through it.
UpdateResource(r) ==
  LET n == Len(written[r]) + 1
  IN  /\ ~Busy /\ MayUpdate(r)
      /\ storage' = [storage EXCEPT ![r] = IF r \in Messages THEN Send(@, n) ELSE @ + 1]
      /\ written' = [written EXCEPT ![r] = Append(@, n)]
      /\ UNCHANGED <<systems, states, last_ran, tick, stage, called, returned, failed, call,
                     received, replaced>>

\* The schedule is built: its systems are put in their containers.
Build ==
  /\ ~Busy /\ stage = "unbuilt"
  /\ stage' = "built"
  /\ states' = [s \in DOMAIN systems |-> IF s = 0 THEN states[s] ELSE NewStates(systems[s])]
  /\ storage' = WithMailboxes(UNION {MissingMailboxes(systems[s]) : s \in Scheduled})
  /\ UNCHANGED <<systems, last_ran, tick, called, returned, failed, call, written, received,
                 replaced>>

\* World::run_system builds the system and calls it.
RunSystem(system) ==
  /\ ~Busy
  /\ systems' = [systems EXCEPT ![0] = system]
  /\ states' = [states EXCEPT ![0] = NewStates(system)]
  /\ storage' = WithMailboxes(MissingMailboxes(system))
  /\ last_ran' = [last_ran EXCEPT ![0] = 0]
  /\ call' = [call EXCEPT ![0] = At("called")]
  /\ received' = [received EXCEPT ![0] = NoMessages(system)]
  /\ UNCHANGED <<tick, stage, called, returned, failed, written, replaced>>

-----------------------------------------------------------------------------
(* Scheduler::run, as far as Scheduler shows that it keeps to SystemOrder.  *)

BeginRun ==
  /\ ~Busy /\ stage = "built" /\ tick < MaxTick
  /\ stage' = "running"
  /\ UNCHANGED <<systems, storage, states, last_ran, tick, call, written, received, replaced>>
  /\ Order!NewRun

BeginCall(s) ==
  /\ stage = "running" /\ ~ConflictsWithItself(s)
  /\ UNCHANGED <<systems, storage, states, last_ran, tick, stage, written, received, replaced>>
  /\ Order!Begin(s)
  /\ call' = [call EXCEPT ![s] = At("called")]

\* A system that is never called in this run waits for itself, or for a system
\* that failed or is never called.
NeverCalled(s) ==
  \/ ConflictsWithItself(s)
  \/ \E p \in Scheduled \ returned : p < s /\ Conflicting(p, s)

EndRun ==
  /\ stage = "running"
  /\ called = returned \union failed
  /\ \A s \in Scheduled \ called : NeverCalled(s)
  /\ stage' = "built"
  /\ tick' = IF failed = {} THEN tick + 1 ELSE tick
  /\ UNCHANGED <<systems, storage, states, last_ran, called, returned, failed, call, written,
                 received, replaced>>

-----------------------------------------------------------------------------
(* A call, from before_update of its arguments to after_update of them.     *)

EndCall(s, succeeds) ==
  /\ call' = [call EXCEPT ![s] = Idle]
  /\ CASE s = 0           -> UNCHANGED <<called, returned, failed>>
       [] s # 0 /\ succeeds  -> Order!Return(s)
       [] s # 0 /\ ~succeeds -> Order!Fail(s)

\* The arguments whose resource does not exist.
Absent(s) ==
  {k \in DOMAIN systems[s] :
     systems[s][k].kind \in SharedKinds \union MutableKinds
       /\ systems[s][k].of \notin DOMAIN storage}

BeginTick(state) == [state EXCEPT !.this_run = tick]

\* The first argument that cannot be fetched panics; those before it have been.
BeforeUpdate(s) ==
  LET fetched(k) == systems[s][k].kind = "tick" /\ \A i \in Absent(s) : k < i
  IN  /\ call[s].pc = "called"
      /\ states' = [states EXCEPT ![s] =
                      [k \in DOMAIN @ |-> IF fetched(k) THEN BeginTick(@[k]) ELSE @[k]]]
      /\ UNCHANGED <<systems, storage, last_ran, tick, stage, written, received, replaced>>
      /\ \/ /\ Absent(s) = {}
            /\ call' = [call EXCEPT ![s] = At("body")]
            /\ UNCHANGED <<called, returned, failed>>
         \/ /\ Absent(s) # {}
            /\ EndCall(s, FALSE)

\* Mutant: the index also advances when there is no message.
NextIndexAlways(index, message) == index + 1

NextIndex(index, message) == IF message = None THEN index ELSE index + 1

\* Inbox::next.
Receive(s, k) ==
  LET index   == states[s][k].next_index
      message == Get(storage[systems[s][k].of], index)
  IN  /\ call[s].pc = "body" /\ systems[s][k].kind = "inbox"
      /\ states' = [states EXCEPT ![s][k].next_index = NextIndex(index, message)]
      /\ received' = IF message = None THEN received
                     ELSE [received EXCEPT ![s][k] = Append(@, message)]
      /\ UNCHANGED <<systems, storage, last_ran, tick, stage, called, returned, failed, call,
                     written, replaced>>

\* An update begins: a value is read, or an index allocated and the length read.
BeginUpdate(s, k) ==
  LET r == systems[s][k].of
      now == storage[r]
  IN  /\ call[s].pc = "body" /\ systems[s][k].kind \in MutableKinds
      /\ MayUpdate(r)
      /\ storage' = [storage EXCEPT ![r] = IF r \in Messages THEN Allocate(now) ELSE now]
      /\ call' = [call EXCEPT ![s] = [pc |-> "updating", arg |-> k,
                    seen |-> IF r \in Messages THEN Len(now.current) ELSE now]]
      /\ UNCHANGED <<systems, states, last_ran, tick, stage, called, returned, failed, written,
                     received, replaced>>

\* And ends: the value is written, or the message behind those that were there.
EndUpdate(s) ==
  LET r == systems[s][call[s].arg].of
      n == Len(written[r]) + 1
  IN  /\ call[s].pc = "updating"
      /\ storage' = [storage EXCEPT ![r] =
                       IF r \in Messages THEN PushAt(@, call[s].seen, n) ELSE call[s].seen + 1]
      /\ call' = [call EXCEPT ![s] = At("body")]
      /\ written' = [written EXCEPT ![r] = Append(@, n)]
      /\ UNCHANGED <<systems, states, last_ran, tick, stage, called, returned, failed, received,
                     replaced>>

\* The body panics, perhaps with an update half done.
Panic(s) ==
  /\ call[s].pc \in {"body", "updating"}
  /\ UNCHANGED <<systems, storage, states, last_ran, tick, stage, written, received, replaced>>
  /\ EndCall(s, FALSE)

\* The arguments whose after_update is a todo!.
Todo(s) == {k \in DOMAIN systems[s] : systems[s][k].kind \in {"inbox", "outbox"}}

EndTick(state) == [state EXCEPT !.last_run = state.this_run]

\* The call panics at the first todo!.  Only a system of several arguments notes
\* when it ran.
AfterUpdate(s) ==
  LET updated(k) == systems[s][k].kind = "tick" /\ \A i \in Todo(s) : k < i
  IN  /\ call[s].pc = "body"
      /\ states' = [states EXCEPT ![s] =
                      [k \in DOMAIN @ |-> IF updated(k) THEN EndTick(@[k]) ELSE @[k]]]
      /\ last_ran' = IF Todo(s) = {} /\ Len(systems[s]) > 1
                     THEN [last_ran EXCEPT ![s] = tick] ELSE last_ran
      /\ UNCHANGED <<systems, storage, tick, stage, written, received, replaced>>
      /\ EndCall(s, Todo(s) = {})

BodyStep(s) ==
  \/ \E k \in DOMAIN systems[s] : Receive(s, k) \/ BeginUpdate(s, k)
  \/ EndUpdate(s)
  \/ Panic(s)

CallStep(s) == BeforeUpdate(s) \/ BodyStep(s) \/ AfterUpdate(s)

Next ==
  \/ \E r \in Resources : AddResource(r) \/ UpdateResource(r)
  \/ Build \/ BeginRun \/ EndRun
  \/ \E system \in Singles : RunSystem(system)
  \/ \E s \in Scheduled : BeginCall(s)
  \/ \E s \in DOMAIN systems : CallStep(s)

Spec == Init /\ [][Next]_vars

-----------------------------------------------------------------------------
\* No update is lost: a value counts its updates and a mailbox holds the messages
\* sent to it, whichever systems wrote at the same time.  ResMut and Outbox write
\* through a pointer and trust the accesses that they declared.
NoUpdateLost ==
  \A r \in DOMAIN storage :
    IF r \in Messages THEN storage[r].current = written[r] ELSE storage[r] = Len(written[r])

InCall(s) == call[s].pc \in {"body", "updating"}

\* The resources that a system sees through a shared reference and through no other.
SharedBy(s) ==
  LET borrowed(kinds) == {systems[s][k].of : k \in {i \in DOMAIN systems[s] : systems[s][i].kind \in kinds}}
  IN  (IF \E k \in DOMAIN systems[s] : systems[s][k].kind = "world" THEN DOMAIN storage
       ELSE borrowed(SharedKinds)) \ borrowed(MutableKinds)

\* inbox.rs:50 "`Mailbox` is immutably borrowed while this iterator exists, so messages
\* cannot be pushed to the mailbox": what a call sees through Res, Inbox or &World does
\* not change during it, but by its own hand.
SharedStaysStill ==
  [][\A s \in DOMAIN systems :
       InCall(s) /\ InCall(s)' => \A r \in SharedBy(s) : storage'[r] = storage[r]]_vars

\* ExactSizeIterator (inbox.rs:56): len of an inbox is the number of messages that it
\* will still return, also in a mailbox that was replaced or that its reader is ahead
\* of.  An inbox's index is that of the next message, so count_unread has to count the
\* one at the index too; its doc (mailbox.rs:68) speaks of a higher index only.
LenExact ==
  \A m \in Messages \intersect DOMAIN storage, p \in Places :
    Reads(p, m) =>
      LET index == states[p[1]][p[2]].next_index
      IN  CountUnread(storage[m], index) =
            Cardinality({i \in index .. index + MaxUpdates : Get(storage[m], i) # None})

=============================================================================
