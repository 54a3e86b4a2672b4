---------------------------- MODULE MCMockStore ----------------------------
(* A small instance of MockStore for TLC. *)
EXTENDS MockStore, TLC

CONSTANTS w, c, p1, p2

At(i, v) == [id |-> i, ver |-> v, val |-> v]
OldAndNew == {{At(p1, 1)}, {At(p1, 2), At(p2, 1)}}

Occurrences(f, s, k, l) == [flush |-> f, submit |-> s, knob |-> k, wal |-> l]
TwoFlushes == Occurrences(2, 1, 2, 1)
=============================================================================
