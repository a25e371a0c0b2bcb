---------------------------- MODULE MCScheduler ----------------------------
(* Instances of Scheduler for TLC: two types besides World, and every        *)
(* schedule of a few systems whose accesses are from a list.                 *)
EXTENDS Scheduler

CONSTANTS World, X, Y

MCAccessTypes == {World, X, Y}

Reads(t) == [ty |-> t, mutable |-> FALSE]
Writes(t) == [ty |-> t, mutable |-> TRUE]

Plain == {<<Reads(X)>>, <<Writes(X)>>, <<Reads(X), Writes(Y)>>, <<Reads(World)>>}
SelfConflicting == {<<Writes(X), Reads(X)>>, <<Reads(World), Reads(Y)>>}

PlainSchedules == [1 .. 3 -> Plain]
AnySchedules == [1 .. 3 -> Plain \union SelfConflicting]

ThreeWorkers == 1 .. 3
AnyPool == {{1}, {1, 2}, {1, 2, 3}}
ThreePool == {{1, 2, 3}}
=============================================================================
