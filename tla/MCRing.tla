------------------------------- MODULE MCRing -------------------------------
(* Small instances of Ring and of its refinement for TLC. *)
EXTENDS RingQueue, TLC

CONSTANTS p1, p2, c1, c2, o1, x1, x2, x3, x4

RoundedTwo   == RoundUp(2)
RoundedOne   == RoundUp(1)

Symmetry == Permutations(Items) \union Permutations(Producers)
              \union Permutations(Consumers)

(* Threads that keep running while the producer p1 may stop anywhere.      *)
Running  == {p2, c1}
LiveSpec == Spec /\ FairFor(Running)
RunningCallsReturn == CallsReturn(Running)

=============================================================================
