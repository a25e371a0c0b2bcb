----------------------------- MODULE MCPlugins -----------------------------
(* Instances of Plugins for TLC: threads of schedulers that call systems.    *)
EXTENDS Plugins

CONSTANTS T1, T2

MCThreads == {T1, T2}
=============================================================================
