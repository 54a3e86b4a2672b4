-------------------------------- MODULE Ring --------------------------------
(***************************************************************************)
(* The lock-free MPMC ring of src/src/ring.rs, one action per atomic       *)
(* access.  A position counts up forever; position p lives in slot         *)
(* p % Capacity (p & mask, the capacity being a power of two).  The stamp  *)
(* of a slot says whose turn it is: p for the producer of position p,      *)
(* p + 1 for its consumer, p + Capacity for the next lap's producer.       *)
(*                                                                         *)
(* Atomics are sequentially consistent here; the Acquire/Release pairs of  *)
(* the code order exactly the slot accesses NoSharedSlot is about.         *)
(***************************************************************************)
EXTENDS Integers, FiniteSets

CONSTANTS
  Producers, Consumers,   \* threads in try_enqueue / try_dequeue
  Observers,              \* threads in len()
  Items,                  \* the requests offered, each at most once
  None,                   \* an uninitialised slot, an absent request
  Capacity,               \* RingBuffer.capacity
  WeakCas                 \* may compare_exchange_weak fail without a race?

Movers  == Producers \union Consumers
Threads == Movers \union Observers

ASSUME ThreadAssumption ==
  /\ Producers \intersect Consumers = {}
  /\ Observers \intersect Movers = {}
ASSUME ItemAssumption == None \notin Items
ASSUME CapacityAssumption == Capacity \in Nat \ {0}
ASSUME CasAssumption == WeakCas \in BOOLEAN

VARIABLES
  enqPos, deqPos,   \* enqueue_pos, dequeue_pos
  stamp,            \* Cell.sequence of each slot
  slot,             \* Cell.slot: an item or None
  pc, pos,          \* next access of each thread, its local pos
  item,             \* the request a mover carries
  seen, length,     \* len(): deq as loaded, the last result
  unsent,           \* items not offered yet
  shed, delivered   \* history: handed back as full, handed out

ringVars == <<enqPos, deqPos, stamp, slot>>
lenVars  == <<seen, length>>
itemVars == <<unsent, shed, delivered>>
vars     == <<ringVars, pc, pos, item, lenVars, itemVars>>

Slots == 0..(Capacity - 1)
Index(p) == p % Capacity

(* RingBuffer::new: capacity.max(1).next_power_of_two().                   *)
RoundUp(n) ==
  LET powers == {2^k : k \in 0..n}
  IN  CHOOSE m \in powers : m >= n /\ \A q \in powers : q >= n => m <= q

Init ==
  /\ enqPos = 0 /\ deqPos = 0
  /\ stamp = [i \in Slots |-> i]
  /\ slot = [i \in Slots |-> None]
  /\ pc = [t \in Threads |-> "idle"]
  /\ pos = [t \in Movers |-> 0]
  /\ item = [t \in Movers |-> None]
  /\ seen = [o \in Observers |-> 0]
  /\ length = [o \in Observers |-> 0]
  /\ unsent = Items /\ shed = {} /\ delivered = {}

Goto(t, label) == pc' = [pc EXCEPT ![t] = label]
Load(t, value) == pos' = [pos EXCEPT ![t] = value]

-----------------------------------------------------------------------------
(* try_enqueue                                                             *)

EnqLoad(p, x) ==
  /\ pc[p] = "idle" /\ x \in unsent
  /\ unsent' = unsent \ {x}
  /\ item' = [item EXCEPT ![p] = x]
  /\ Load(p, enqPos)
  /\ Goto(p, "stamp")
  /\ UNCHANGED <<ringVars, lenVars, shed, delivered>>

(* Mutants: a full slot is claimed as well; a full ring is waited for.     *)
EnqStampNoFull(p) ==
  /\ pc[p] = "stamp"
  /\ Goto(p, IF stamp[Index(pos[p])] - pos[p] <= 0 THEN "cas" ELSE "reload")
  /\ UNCHANGED <<ringVars, pos, item, lenVars, itemVars>>

EnqStampWaits(p) ==
  /\ pc[p] = "stamp"
  /\ Goto(p, IF stamp[Index(pos[p])] = pos[p] THEN "cas" ELSE "reload")
  /\ UNCHANGED <<ringVars, pos, item, lenVars, itemVars>>

(* diff = seq - pos: claim, full, or another producer has moved on.        *)
EnqStamp(p) ==
  /\ pc[p] = "stamp"
  /\ LET diff == stamp[Index(pos[p])] - pos[p]
     IN  \/ /\ diff = 0
            /\ Goto(p, "cas")
            /\ UNCHANGED <<item, shed>>
         \/ /\ diff < 0
            /\ shed' = shed \union {item[p]}
            /\ item' = [item EXCEPT ![p] = None]
            /\ Goto(p, "idle")
         \/ /\ diff > 0
            /\ Goto(p, "reload")
            /\ UNCHANGED <<item, shed>>
  /\ UNCHANGED <<ringVars, pos, lenVars, unsent, delivered>>

EnqReload(p) ==
  /\ pc[p] = "reload"
  /\ Load(p, enqPos)
  /\ Goto(p, "stamp")
  /\ UNCHANGED <<ringVars, item, lenVars, itemVars>>

(* Mutant: the position is stored without comparing.                       *)
EnqCasBlind(p) ==
  /\ pc[p] = "cas"
  /\ enqPos' = pos[p] + 1
  /\ Goto(p, "write")
  /\ UNCHANGED <<deqPos, stamp, slot, pos, item, lenVars, itemVars>>

EnqCas(p) ==
  /\ pc[p] = "cas" /\ enqPos = pos[p]
  /\ enqPos' = enqPos + 1
  /\ Goto(p, "write")
  /\ UNCHANGED <<deqPos, stamp, slot, pos, item, lenVars, itemVars>>

EnqCasFails(p) ==
  /\ pc[p] = "cas" /\ (WeakCas \/ enqPos # pos[p])
  /\ Load(p, enqPos)
  /\ Goto(p, "stamp")
  /\ UNCHANGED <<ringVars, item, lenVars, itemVars>>

EnqWrite(p) ==
  /\ pc[p] = "write"
  /\ slot' = [slot EXCEPT ![Index(pos[p])] = item[p]]
  /\ Goto(p, "publish")
  /\ UNCHANGED <<enqPos, deqPos, stamp, pos, item, lenVars, itemVars>>

EnqPublish(p) ==
  /\ pc[p] = "publish"
  /\ stamp' = [stamp EXCEPT ![Index(pos[p])] = pos[p] + 1]
  /\ item' = [item EXCEPT ![p] = None]
  /\ Goto(p, "idle")
  /\ UNCHANGED <<enqPos, deqPos, slot, pos, lenVars, itemVars>>

-----------------------------------------------------------------------------
(* try_dequeue                                                             *)

DeqLoad(c) ==
  /\ pc[c] = "idle"
  /\ Load(c, deqPos)
  /\ Goto(c, "stamp")
  /\ UNCHANGED <<ringVars, item, lenVars, itemVars>>

(* diff = seq - (pos + 1): claim, empty (None), or reload.                 *)
DeqStamp(c) ==
  /\ pc[c] = "stamp"
  /\ LET diff == stamp[Index(pos[c])] - (pos[c] + 1)
     IN  Goto(c, IF diff = 0 THEN "cas" ELSE IF diff < 0 THEN "idle"
                 ELSE "reload")
  /\ UNCHANGED <<ringVars, pos, item, lenVars, itemVars>>

DeqReload(c) ==
  /\ pc[c] = "reload"
  /\ Load(c, deqPos)
  /\ Goto(c, "stamp")
  /\ UNCHANGED <<ringVars, item, lenVars, itemVars>>

(* Mutant: the position is stored without comparing.                       *)
DeqCasBlind(c) ==
  /\ pc[c] = "cas"
  /\ deqPos' = pos[c] + 1
  /\ Goto(c, "read")
  /\ UNCHANGED <<enqPos, stamp, slot, pos, item, lenVars, itemVars>>

DeqCas(c) ==
  /\ pc[c] = "cas" /\ deqPos = pos[c]
  /\ deqPos' = deqPos + 1
  /\ Goto(c, "read")
  /\ UNCHANGED <<enqPos, stamp, slot, pos, item, lenVars, itemVars>>

DeqCasFails(c) ==
  /\ pc[c] = "cas" /\ (WeakCas \/ deqPos # pos[c])
  /\ Load(c, deqPos)
  /\ Goto(c, "stamp")
  /\ UNCHANGED <<ringVars, item, lenVars, itemVars>>

(* assume_init_read moves the payload out of the slot.                     *)
DeqRead(c) ==
  /\ pc[c] = "read"
  /\ item' = [item EXCEPT ![c] = slot[Index(pos[c])]]
  /\ slot' = [slot EXCEPT ![Index(pos[c])] = None]
  /\ Goto(c, "free")
  /\ UNCHANGED <<enqPos, deqPos, stamp, pos, lenVars, itemVars>>

(* Mutant: one too low for the next lap's producer (pos + mask).           *)
DeqFreeShort(c) ==
  /\ pc[c] = "free"
  /\ stamp' = [stamp EXCEPT ![Index(pos[c])] = pos[c] + Capacity - 1]
  /\ delivered' = delivered \union {item[c]}
  /\ item' = [item EXCEPT ![c] = None]
  /\ Goto(c, "idle")
  /\ UNCHANGED <<enqPos, deqPos, slot, pos, lenVars, unsent, shed>>

DeqFree(c) ==
  /\ pc[c] = "free"
  /\ stamp' = [stamp EXCEPT ![Index(pos[c])] = pos[c] + Capacity]
  /\ delivered' = delivered \union {item[c]}
  /\ item' = [item EXCEPT ![c] = None]
  /\ Goto(c, "idle")
  /\ UNCHANGED <<enqPos, deqPos, slot, pos, lenVars, unsent, shed>>

-----------------------------------------------------------------------------
(* len: dequeue_pos first, then enqueue_pos, clamped to 0..capacity        *)

LenDeq(o) ==
  /\ pc[o] = "idle"
  /\ seen' = [seen EXCEPT ![o] = deqPos]
  /\ Goto(o, "len")
  /\ UNCHANGED <<ringVars, pos, item, length, itemVars>>

(* Mutant: clamped to the mask.                                            *)
ClampMask(d, e) == IF e <= d THEN 0
                   ELSE IF e - d < Capacity THEN e - d ELSE Capacity - 1

Clamp(d, e) == IF e <= d THEN 0
               ELSE IF e - d < Capacity THEN e - d ELSE Capacity

LenEnq(o) ==
  /\ pc[o] = "len"
  /\ length' = [length EXCEPT ![o] = Clamp(seen[o], enqPos)]
  /\ Goto(o, "idle")
  /\ UNCHANGED <<ringVars, pos, item, seen, itemVars>>

-----------------------------------------------------------------------------
(* Drop, which &mut self allows only when no call is under way: it frees   *)
(* the payload of every position from dequeue_pos up to enqueue_pos.       *)
DropVisits == deqPos..(enqPos - 1)

-----------------------------------------------------------------------------
Enqueuing(p) == \/ EnqStamp(p) \/ EnqReload(p) \/ EnqCas(p) \/ EnqCasFails(p)
                \/ EnqWrite(p) \/ EnqPublish(p)
Dequeuing(c) == \/ DeqStamp(c) \/ DeqReload(c) \/ DeqCas(c) \/ DeqCasFails(c)
                \/ DeqRead(c) \/ DeqFree(c)

Next ==
  \/ \E p \in Producers : Enqueuing(p) \/ \E x \in unsent : EnqLoad(p, x)
  \/ \E c \in Consumers : Dequeuing(c) \/ DeqLoad(c)
  \/ \E o \in Observers : LenDeq(o) \/ LenEnq(o)

Spec == Init /\ [][Next]_vars

(* The threads of Running are scheduled while they are inside a call; any  *)
(* other thread may stop for good anywhere, also between its CAS and its   *)
(* stamp store.                                                            *)
FairFor(Running) ==
  /\ \A p \in Producers \intersect Running : WF_vars(Enqueuing(p))
  /\ \A c \in Consumers \intersect Running : WF_vars(Dequeuing(c))

-----------------------------------------------------------------------------
(* Properties                                                              *)

Labels == {"idle", "stamp", "reload", "cas", "write", "publish", "read",
           "free", "len"}

(* The types of the Rust fields; a mover never is in another role's code.  *)
TypeOK ==
  /\ enqPos \in Nat /\ deqPos \in Nat
  /\ stamp \in [Slots -> Nat]
  /\ slot \in [Slots -> Items \union {None}]
  /\ pc \in [Threads -> Labels]
  /\ \A p \in Producers : pc[p] \notin {"read", "free", "len"}
  /\ \A c \in Consumers : pc[c] \notin {"write", "publish", "len"}
  /\ pos \in [Movers -> Nat]
  /\ item \in [Movers -> Items \union {None}]
  /\ seen \in [Observers -> Nat] /\ length \in [Observers -> Nat]
  /\ unsent \in SUBSET Items /\ shed \in SUBSET Items
  /\ delivered \in SUBSET Items

(* A thread between its CAS and its stamp store owns the slot.             *)
Owns(t) == pc[t] \in {"write", "publish", "read", "free"}

(* The SAFETY comments of try_enqueue and try_dequeue: a claimed slot has  *)
(* one owner, so no payload is read or written by two threads at once.     *)
NoSharedSlot ==
  \A s, t \in Movers :
    s # t /\ Owns(s) /\ Owns(t) => Index(pos[s]) # Index(pos[t])

(* The stamp protocol (module doc of ring.rs): a producer writes into an   *)
(* empty slot, so nothing is overwritten, and a consumer reads an          *)
(* initialised one, so assume_init_read is sound.                          *)
SlotsMatchOwners ==
  \A t \in Movers : /\ pc[t] = "write" => slot[Index(pos[t])] = None
                    /\ pc[t] = "read"  => slot[Index(pos[t])] # None

(* The window of claimed positions never exceeds the ring, and never is    *)
(* negative: what len() and Drop rely on.                                  *)
WindowBounded == deqPos <= enqPos /\ enqPos <= deqPos + Capacity

(* The SAFETY comment of Drop ("neither double-drops nor drops an          *)
(* uninitialised slot", and "not leaked"): whenever the ring may be        *)
(* dropped, the positions visited lie in different slots, and those are    *)
(* the initialised ones.                                                   *)
DropFreesEach ==
  (\A t \in Threads : pc[t] = "idle") =>
    /\ {Index(p) : p \in DropVisits} = {i \in Slots : slot[i] # None}
    /\ \A p, q \in DropVisits : Index(p) = Index(q) => p = q

(* len() never under-reports: when it returns, at least as many positions  *)
(* were counted as are claimed and not yet popped.                         *)
LenNotUnder ==
  [][\A o \in Observers : LenEnq(o) => length'[o] >= enqPos - deqPos]_vars

(* Non-blocking: a call on a scheduled thread returns, wherever any other  *)
(* thread has stopped.                                                     *)
CallsReturn(Running) ==
  \A t \in Running : pc[t] # "idle" ~> pc[t] = "idle"
=============================================================================
