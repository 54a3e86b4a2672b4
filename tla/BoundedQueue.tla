---------------------------- MODULE BoundedQueue ----------------------------
(***************************************************************************)
(* What the ring promises its users: a FIFO window of at most Capacity     *)
(* cells.  try_enqueue claims the next cell or is refused because the      *)
(* window is full, and publishes the cell later; try_dequeue takes the     *)
(* oldest cell not yet taken if it is published (otherwise it answers      *)
(* None, even with published cells behind it) and releases it later.  A    *)
(* cell leaves the window when it and all older ones are released.         *)
(***************************************************************************)
EXTENDS Integers, Sequences

CONSTANTS Items, None, Capacity

VARIABLES
  window,     \* cells [item, stage], oldest first
  waiting,    \* items whose try_enqueue has begun
  unsent, shed, delivered

vars == <<window, waiting, unsent, shed, delivered>>

Stages == {"writing", "ready", "reading", "released"}

Init ==
  /\ window = <<>> /\ waiting = {}
  /\ unsent = Items /\ shed = {} /\ delivered = {}

Offer(x) ==
  /\ x \in unsent
  /\ unsent' = unsent \ {x} /\ waiting' = waiting \union {x}
  /\ UNCHANGED <<window, shed, delivered>>

Claim(x) ==
  /\ x \in waiting /\ Len(window) < Capacity
  /\ waiting' = waiting \ {x}
  /\ window' = Append(window, [item |-> x, stage |-> "writing"])
  /\ UNCHANGED <<unsent, shed, delivered>>

Refuse(x) ==
  /\ x \in waiting /\ Len(window) = Capacity
  /\ waiting' = waiting \ {x} /\ shed' = shed \union {x}
  /\ UNCHANGED <<window, unsent, delivered>>

(* The window with cell k in its next stage.                               *)
Staged(k, stage) ==
  [window EXCEPT ![k] = [item |-> window[k].item, stage |-> stage]]

Publish(k) ==
  /\ window[k].stage = "writing"
  /\ window' = Staged(k, "ready")
  /\ UNCHANGED <<waiting, unsent, shed, delivered>>

Take(k) ==
  /\ window[k].stage = "ready"
  /\ \A j \in 1..(k - 1) : window[j].stage \in {"reading", "released"}
  /\ window' = Staged(k, "reading")
  /\ UNCHANGED <<waiting, unsent, shed, delivered>>

(* The window with cell k released and its released prefix dropped.        *)
Released(k) ==
  LET after == [window EXCEPT ![k] = [item |-> None, stage |-> "released"]]
      live  == {j \in DOMAIN after : after[j].stage # "released"}
      first == IF live = {} THEN Len(after) + 1
               ELSE CHOOSE j \in live : \A i \in live : j <= i
  IN  SubSeq(after, first, Len(after))

Release(k) ==
  /\ window[k].stage = "reading"
  /\ delivered' = delivered \union {window[k].item}
  /\ window' = Released(k)
  /\ UNCHANGED <<waiting, unsent, shed>>

Next ==
  \/ \E x \in unsent : Offer(x)
  \/ \E x \in waiting : Claim(x) \/ Refuse(x)
  \/ \E k \in DOMAIN window : Publish(k) \/ Take(k) \/ Release(k)

Spec == Init /\ [][Next]_vars
=============================================================================
