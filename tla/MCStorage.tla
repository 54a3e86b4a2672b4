----------------------------- MODULE MCStorage -----------------------------
(* Small instances of Storage for TLC. *)
EXTENDS Storage, TLC

CONSTANTS p1, p2

Put1(i, v, b) == [id |-> i, ver |-> v, blob |-> b]

(* Frames that fit the buffer and frames that bypass it.                   *)
SmallA     == {Put1(p1, 1, 1)}
LargeB     == {Put1(p2, 2, 12)}
NoWrites   == {}
LargesA    == {Put1(p1, 1, 12), Put1(p1, 2, 12)}

Occurrences(a, i, c) == [append |-> a, io |-> i, crash |-> c]
ThreeAppends == Occurrences(3, 1, 1)
FailTwice    == Occurrences(3, 2, 0)
=============================================================================
