----------------------------- MODULE RingQueue ------------------------------
(***************************************************************************)
(* The refinement mapping from Ring to BoundedQueue.  The window of the    *)
(* queue runs from the oldest position a consumer has claimed and not yet  *)
(* freed up to the last one a producer has claimed.                        *)
(***************************************************************************)
EXTENDS Ring, Sequences

Takers(p)   == {c \in Consumers : pc[c] \in {"read", "free"} /\ pos[c] = p}
Claimers(p) == {q \in Producers : pc[q] \in {"write", "publish"} /\ pos[q] = p}

HeldPositions ==
  {deqPos} \union {pos[c] : c \in {d \in Consumers : pc[d] \in {"read", "free"}}}
Oldest == CHOOSE p \in HeldPositions : \A q \in HeldPositions : p <= q

(* The payload is in the slot, or with the thread that moves it.           *)
TakenCell(c, p) ==
  [item  |-> IF pc[c] = "read" THEN slot[Index(p)] ELSE item[c],
   stage |-> "reading"]

CellAt(p) ==
  IF p < deqPos
  THEN IF Takers(p) = {} THEN [item |-> None, stage |-> "released"]
       ELSE TakenCell(CHOOSE c \in Takers(p) : TRUE, p)
  ELSE IF Claimers(p) = {} THEN [item |-> slot[Index(p)], stage |-> "ready"]
       ELSE [item |-> item[CHOOSE q \in Claimers(p) : TRUE], stage |-> "writing"]

Cells   == [k \in 1..(enqPos - Oldest) |-> CellAt(Oldest + k - 1)]
Waiting == {item[p] : p \in {q \in Producers : pc[q] \in {"stamp", "reload", "cas"}}}

Queue == INSTANCE BoundedQueue WITH window <- Cells, waiting <- Waiting

(* try_enqueue and try_dequeue, whatever their interleaving, behave as     *)
(* operations of a bounded FIFO queue.                                     *)
ImplementsQueue == Queue!Spec
=============================================================================
