----------------------------- MODULE MCPipeline -----------------------------
(* Small instances of Pipeline for TLC. *)
EXTENDS PipelineClaims, TLC

CONSTANTS c1, c2, w, p1, p2

Write(i, v) == [id |-> i, ver |-> v, val |-> v]

NoWrites  == {}
PlainA    == {Write(p1, 1)}
PlainAB   == {Write(p1, 1), Write(p2, 1)}
PlainA3   == {Write(p1, 3)}
PlainAB2  == {Write(p1, 1), Write(p2, 2)}
DurableA2 == {Write(p1, 2)}
DurableB  == {Write(p2, 1)}

Occurrences(s, l, cr, f, sh) ==
  [store |-> s, wal |-> l, crash |-> cr, faults |-> s + l + cr,
   flush |-> f, shutdown |-> sh]

Nothing             == Occurrences(0, 0, 0, 0, 0)
CrashOnce           == Occurrences(0, 0, 1, 0, 0)
FailBothOnceFlush   == Occurrences(1, 1, 0, 1, 0)
AnyTwoFaultsAndStop == [Occurrences(1, 1, 1, 0, 1) EXCEPT !.faults = 2]
FailTwiceStop       == Occurrences(2, 0, 0, 0, 1)
OutageStop          == Occurrences(3, 1, 0, 0, 1)
=============================================================================
