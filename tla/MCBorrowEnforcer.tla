-------------------------- MODULE MCBorrowEnforcer --------------------------
(* Three threads that take up to two guards each. *)
EXTENDS BorrowEnforcer

CONSTANTS T1, T2, T3

MCThreads == {T1, T2, T3}
=============================================================================
