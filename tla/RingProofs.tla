----------------------------- MODULE RingProofs -----------------------------
(***************************************************************************)
(* Proofs about Ring for any number of threads and items and every         *)
(* capacity above one. At capacity one the stamp of a slot that holds a    *)
(* payload is that of a free slot of the next position, and the protocol   *)
(* fails: that is the run ring_one.                                        *)
(*                                                                         *)
(* The inductive invariant TurnInv says whose turn each slot is. Every     *)
(* position of the window has its own slot, a position claimed and not     *)
(* taken is being written or is published, and one not claimed yet is free *)
(* or is being emptied by the consumer of the last lap. The stamp of its   *)
(* slot tells which.                                                       *)
(***************************************************************************)
EXTENDS Ring, RingQueue, TLAPS, SequenceTheorems, WellFoundedInduction

(* A producer between its CAS and its stamp store; a consumer likewise.    *)
Writing(p) == pc[p] \in {"write", "publish"}
Reading(c) == pc[c] \in {"read", "free"}

(* Whose turn the slot of position p is, as its stamp tells.               *)
Written(p)   == stamp[Index(p)] = p /\ \E w \in Producers : Writing(w) /\ pos[w] = p
Published(p) == stamp[Index(p)] = p + 1 /\ slot[Index(p)] # None
Free(p)      == stamp[Index(p)] = p /\ slot[Index(p)] = None
Emptied(p)   == /\ stamp[Index(p)] = p - Capacity + 1
                /\ \E r \in Consumers : Reading(r) /\ pos[r] = p - Capacity

(* Between its CAS and its stamp store a producer has a position of the    *)
(* window to itself, and the slot is empty until its write.                *)
WriterTurns ==
  \A w \in Producers : Writing(w) =>
    /\ deqPos <= pos[w] /\ pos[w] < enqPos
    /\ stamp[Index(pos[w])] = pos[w]
    /\ slot[Index(pos[w])] = IF pc[w] = "write" THEN None ELSE item[w]
    /\ \A v \in Producers : Writing(v) /\ pos[v] = pos[w] => v = w

(* Between its CAS and its stamp store a consumer has a position to itself *)
(* that left the window less than a lap ago.                               *)
ReaderTurns ==
  \A r \in Consumers : Reading(r) =>
    /\ enqPos - Capacity <= pos[r] /\ pos[r] < deqPos
    /\ stamp[Index(pos[r])] = pos[r] + 1
    /\ pc[r] = "read" <=> slot[Index(pos[r])] # None
    /\ \A s \in Consumers : Reading(s) /\ pos[s] = pos[r] => s = r

(* What is in the window is being written or ready to be taken.            *)
ClaimedTurns ==
  \A p \in Nat : deqPos <= p /\ p < enqPos => Written(p) \/ Published(p)

(* What the window has not reached is free, or about to be.                *)
UnclaimedTurns ==
  \A p \in Nat : enqPos <= p /\ p < deqPos + Capacity => Free(p) \/ Emptied(p)

(* What a producer read is old, never wrong: if enqueue_pos is still what  *)
(* it loaded, so is the stamp it found there.                              *)
ProducerSees ==
  \A p \in Producers :
    /\ pc[p] \in {"stamp", "cas"} => pos[p] <= enqPos
    /\ pc[p] = "cas" /\ pos[p] = enqPos => stamp[Index(pos[p])] = pos[p]

(* What a consumer read, likewise.                                         *)
ConsumerSees ==
  \A c \in Consumers :
    /\ pc[c] \in {"stamp", "cas"} => pos[c] <= deqPos
    /\ pc[c] = "cas" /\ pos[c] = deqPos => stamp[Index(pos[c])] = pos[c] + 1

(* Who moves a payload has one; what went through is a request.            *)
Carries ==
  /\ \A p \in Producers : pc[p] # "idle" => item[p] # None
  /\ \A c \in Consumers : pc[c] = "free" => item[c] # None
  /\ shed \subseteq Items /\ delivered \subseteq Items

(* The dequeue_pos that len() loaded is never ahead of the ring's.         *)
LenSees == \A o \in Observers : seen[o] <= deqPos

(* The protocol.                                                           *)
TurnInv ==
  /\ WindowBounded
  /\ WriterTurns /\ ReaderTurns
  /\ ClaimedTurns /\ UnclaimedTurns
  /\ ProducerSees /\ ConsumerSees
  /\ Carries /\ LenSees

-----------------------------------------------------------------------------
(* A position is its lap times the capacity plus its index, in one way.    *)
LEMMA OneMultiple ==
  ASSUME NEW k \in Int, -Capacity < Capacity * k, Capacity * k < Capacity
  PROVE  k = 0
BY CapacityAssumption, Z3

(* The provers need this one spelled out.                                  *)
LEMMA Distributes ==
  ASSUME NEW a \in Int, NEW b \in Int
  PROVE  Capacity * (a - b) = Capacity * a - Capacity * b
BY CapacityAssumption, Z3

(* A position is its lap times the capacity plus its index.                *)
LEMMA Division ==
  \A p \in Int : /\ p \div Capacity \in Int
                 /\ (p % Capacity) \in 0..(Capacity - 1)
                 /\ p = Capacity * (p \div Capacity) + (p % Capacity)
BY CapacityAssumption, Z3 

(* Two positions that are d apart have the same index when d is zero or    *)
(* one lap, and different ones when d is less than a lap and not zero.     *)
LEMMA Laps ==
  ASSUME NEW a \in Int, NEW b \in Int,
         NEW r \in 0..(Capacity - 1), NEW s \in 0..(Capacity - 1),
         NEW d \in Int, Capacity * b + s = Capacity * a + r + d
  PROVE  /\ d = 0 \/ d = Capacity => s = r
         /\ r = s /\ 0 <= d /\ d < Capacity => d = 0
<1> DEFINE x == Capacity * a
           y == Capacity * b
<1>1. x \in Int /\ y \in Int /\ y + s = x + r + d
  BY CapacityAssumption
<1>2. Capacity * (b - a) = y - x
  BY Distributes
<1>3. Capacity * (b - (a + 1)) = y - x - Capacity
  <2>1. Capacity * (b - (a + 1)) = Capacity * b - Capacity * (a + 1)
    BY Distributes
  <2>2. Capacity * (a + 1) = x + Capacity
    BY CapacityAssumption, Z3
  <2> HIDE DEF x
  <2>3. QED
    BY <2>1, <2>2, <1>1, CapacityAssumption
<1> HIDE DEF x, y
<1>4. ASSUME d = Capacity PROVE s = r
  <2>1. y - x - Capacity = r - s
    BY <1>1, <1>4, CapacityAssumption
  <2>2. b - (a + 1) = 0
    BY <2>1, <1>3, OneMultiple, CapacityAssumption
  <2>3. Capacity * 0 = r - s
    BY <2>1, <2>2, <1>3
  <2>4. QED
    BY <2>3, CapacityAssumption
<1>5. ASSUME r = s, 0 <= d, d < Capacity PROVE d = 0
  <2>1. y - x = d
    BY <1>1, <1>5
  <2>2. b - a = 0
    BY <2>1, <1>2, <1>5, OneMultiple, CapacityAssumption
  <2>3. Capacity * 0 = d
    BY <2>1, <2>2, <1>2
  <2>4. QED
    BY <2>3, CapacityAssumption
<1>6. ASSUME d = 0 PROVE s = r
  <2>1. y - x = r - s
    BY <1>1, <1>6
  <2>2. b - a = 0
    BY <2>1, <1>2, OneMultiple, CapacityAssumption
  <2>3. Capacity * 0 = r - s
    BY <2>1, <2>2, <1>2
  <2>4. QED
    BY <2>3, CapacityAssumption
<1>7. QED
  BY <1>4, <1>5, <1>6

(* The same in terms of index(): a slot comes back every lap, and no       *)
(* sooner.                                                                 *)
LEMMA IndexFacts ==
  /\ \A p \in Int : Index(p) \in Slots
  /\ \A p \in Int : Index(p + Capacity) = Index(p)
  /\ \A p, q \in Int : p <= q /\ q < p + Capacity /\ Index(p) = Index(q) => p = q
<1>1. ASSUME NEW p \in Int PROVE (p + Capacity) % Capacity = p % Capacity
  <2> DEFINE q == p + Capacity
             a == p \div Capacity
             b == q \div Capacity
             r == p % Capacity
             s == q % Capacity
  <2>1. q \in Int
    BY CapacityAssumption
  <2>2. /\ a \in Int /\ r \in 0..(Capacity - 1) /\ p = Capacity * a + r
        /\ b \in Int /\ s \in 0..(Capacity - 1) /\ q = Capacity * b + s
    BY <2>1, Division
  <2>3. q = Capacity * a + r + Capacity
    BY <2>2
  <2> HIDE DEF q, a, b, r, s
  <2>4. Capacity * b + s = Capacity * a + r + Capacity
    BY <2>2, <2>3
  <2>5. s = r
    BY <2>2, <2>4, Laps, CapacityAssumption
  <2>6. QED
    BY <2>5 DEF q, r, s
<1>2. ASSUME NEW p \in Int, NEW q \in Int,
             p <= q, q < p + Capacity, p % Capacity = q % Capacity
      PROVE  p = q
  <2> DEFINE a == p \div Capacity
             b == q \div Capacity
             r == p % Capacity
             s == q % Capacity
             d == q - p
  <2>1. /\ a \in Int /\ r \in 0..(Capacity - 1) /\ p = Capacity * a + r
        /\ b \in Int /\ s \in 0..(Capacity - 1) /\ q = Capacity * b + s
    BY Division
  <2>2. d \in Int /\ 0 <= d /\ d < Capacity /\ r = s /\ q = p + d
    BY <1>2, CapacityAssumption
  <2> HIDE DEF a, b, r, s, d
  <2>3. Capacity * b + s = Capacity * a + r + d
    BY <2>1, <2>2
  <2>4. d = 0
    BY <2>1, <2>2, <2>3, Laps
  <2>5. QED
    BY <2>2, <2>4
<1>3. QED
  BY <1>1, <1>2, Division DEF Index, Slots

-----------------------------------------------------------------------------
(* The types that need no protocol: shed and delivered hold items only if  *)
(* the stamps work, which TypeOK also says.                                *)
Types ==
  /\ enqPos \in Nat /\ deqPos \in Nat
  /\ stamp \in [Slots -> Nat]
  /\ slot \in [Slots -> Items \union {None}]
  /\ pc \in [Threads -> Labels]
  /\ \A p \in Producers : pc[p] \notin {"read", "free", "len"}
  /\ \A c \in Consumers : pc[c] \notin {"write", "publish", "len"}
  /\ pos \in [Movers -> Nat]
  /\ item \in [Movers -> Items \union {None}]
  /\ seen \in [Observers -> Nat] /\ length \in [Observers -> Nat]
  /\ unsent \in SUBSET Items

(* The steps of try_enqueue keep the types.                                *)
LEMMA EnqueueTypes ==
  ASSUME Types, NEW p \in Producers,
         Enqueuing(p) \/ \E x \in unsent : EnqLoad(p, x)
  PROVE  Types'
<1> USE ThreadAssumption, CapacityAssumption
    DEF Types, Movers, Threads, Labels, Goto, Load, ringVars, lenVars, itemVars
<1>1. CASE EnqStamp(p)
  BY <1>1 DEF EnqStamp
<1>2. CASE EnqReload(p) \/ EnqCas(p) \/ EnqCasFails(p)
  BY <1>2 DEF EnqReload, EnqCas, EnqCasFails
<1>3. CASE EnqWrite(p)
  BY <1>3 DEF EnqWrite
<1>4. CASE EnqPublish(p)
  <2>1. pos[p] + 1 \in Nat
    OBVIOUS
  <2>2. stamp' \in [Slots -> Nat]
    BY <1>4, <2>1 DEF EnqPublish
  <2>3. QED
    BY <1>4, <2>2 DEF EnqPublish
<1>5. CASE \E x \in unsent : EnqLoad(p, x)
  BY <1>5 DEF EnqLoad
<1>6. QED
  BY <1>1, <1>2, <1>3, <1>4, <1>5 DEF Enqueuing

(* The steps of try_dequeue keep the types.                                *)
LEMMA DequeueTypes ==
  ASSUME Types, NEW c \in Consumers, Dequeuing(c) \/ DeqLoad(c)
  PROVE  Types'
<1> USE ThreadAssumption, CapacityAssumption
    DEF Types, Movers, Threads, Labels, Goto, Load, ringVars, lenVars, itemVars
<1>1. CASE DeqLoad(c) \/ DeqStamp(c) \/ DeqReload(c)
  BY <1>1 DEF DeqLoad, DeqStamp, DeqReload
<1>2. CASE DeqCas(c) \/ DeqCasFails(c)
  BY <1>2 DEF DeqCas, DeqCasFails
<1>3. CASE DeqRead(c)
  BY <1>3, IndexFacts DEF DeqRead
<1>4. CASE DeqFree(c)
  <2>1. pos[c] + Capacity \in Nat
    OBVIOUS
  <2>2. stamp' \in [Slots -> Nat]
    BY <1>4, <2>1 DEF DeqFree
  <2>3. QED
    BY <1>4, <2>2 DEF DeqFree
<1>5. QED
  BY <1>1, <1>2, <1>3, <1>4 DEF Dequeuing

(* The steps of len() keep the types.                                      *)
LEMMA LenTypes ==
  ASSUME Types, NEW o \in Observers, LenDeq(o) \/ LenEnq(o)
  PROVE  Types'
<1> USE ThreadAssumption, CapacityAssumption
    DEF Types, Movers, Threads, Labels, Goto, ringVars, itemVars
<1>1. CASE LenDeq(o)
  BY <1>1 DEF LenDeq
<1>2. CASE LenEnq(o)
  <2>1. Clamp(seen[o], enqPos) \in Nat
    BY DEF Clamp
  <2>2. QED
    BY <1>2, <2>1 DEF LenEnq
<1>3. QED
  BY <1>1, <1>2

(* Positions and stamps are naturals, and every thread runs only its own   *)
(* code.                                                                   *)
LEMMA TypesHold == Spec => []Types
<1>1. Init => Types
  BY ThreadAssumption, CapacityAssumption
     DEF Init, Types, Movers, Threads, Labels, Slots
<1>2. Types /\ [Next]_vars => Types'
  <2> SUFFICES ASSUME Types, [Next]_vars PROVE Types'
    OBVIOUS
  <2>1. CASE Next
    BY <2>1, EnqueueTypes, DequeueTypes, LenTypes DEF Next
  <2>2. CASE UNCHANGED vars
    BY <2>2 DEF vars, ringVars, lenVars, itemVars, Types
  <2>3. QED
    BY <2>1, <2>2
<1>3. QED
  BY <1>1, <1>2, PTL DEF Spec

-----------------------------------------------------------------------------
(* A step that moves no position and touches no slot, by a thread that     *)
(* owns none before or after.                                              *)
Quiet == /\ UNCHANGED ringVars
         /\ \A t \in Movers : Owns(t) <=> Owns(t)'
         /\ \A t \in Movers : Owns(t) => UNCHANGED <<pc[t], pos[t], item[t]>>

(* Such a step keeps whose turn each slot is.                              *)
LEMMA QuietKeeps ==
  ASSUME Types, TurnInv, Types', Quiet
  PROVE  /\ WindowBounded' /\ WriterTurns' /\ ReaderTurns'
         /\ ClaimedTurns' /\ UnclaimedTurns'
<1> USE DEF Quiet, Owns, Movers, ringVars, Writing, Reading, TurnInv
<1>1. WindowBounded'
  BY DEF WindowBounded
<1>2. \A p \in Producers : /\ Writing(p) <=> Writing(p)'
                           /\ Writing(p) => /\ pos'[p] = pos[p] /\ pc'[p] = pc[p]
                                            /\ item'[p] = item[p]
  BY DEF Types
<1>3. \A c \in Consumers : /\ Reading(c) <=> Reading(c)'
                           /\ Reading(c) => pos'[c] = pos[c] /\ pc'[c] = pc[c]
  BY DEF Types
<1>4. WriterTurns'
  BY <1>2 DEF WriterTurns
<1>5. ReaderTurns'
  BY <1>3 DEF ReaderTurns
<1>6. ClaimedTurns'
  BY <1>2 DEF ClaimedTurns, Written, Published
<1>7. UnclaimedTurns'
  BY <1>3 DEF UnclaimedTurns, Free, Emptied
<1>8. QED
  BY <1>1, <1>4, <1>5, <1>6, <1>7

(* Loading, reading a stamp and losing the CAS in try_enqueue.             *)
LEMMA EnqueueQuiet ==
  ASSUME Types, TurnInv, NEW p \in Producers,
         \/ EnqStamp(p) \/ EnqReload(p) \/ EnqCasFails(p)
         \/ \E x \in unsent : EnqLoad(p, x)
  PROVE  TurnInv'
<1> USE ThreadAssumption DEF Movers, Threads, Goto, Load, ringVars, lenVars, itemVars
<1>1. Types'
  BY EnqueueTypes DEF Enqueuing
<1>2. Quiet
  BY DEF Types, Quiet, Owns, EnqStamp, EnqReload, EnqCasFails, EnqLoad
<1>3. /\ WindowBounded' /\ WriterTurns' /\ ReaderTurns'
      /\ ClaimedTurns' /\ UnclaimedTurns'
  BY <1>1, <1>2, QuietKeeps
<1>4. ProducerSees'
  <2>1. CASE EnqStamp(p)
    <3>1. pos[p] \in Nat /\ stamp[Index(pos[p])] \in Int
      BY IndexFacts DEF Types
    <3>2. QED
      BY <2>1, <3>1 DEF Types, TurnInv, ProducerSees, EnqStamp
  <2>2. CASE EnqReload(p) \/ EnqCasFails(p) \/ \E x \in unsent : EnqLoad(p, x)
    BY <2>2 DEF Types, TurnInv, ProducerSees, EnqReload, EnqCasFails, EnqLoad
  <2>3. QED
    BY <2>1, <2>2
<1>5. ConsumerSees'
  BY DEF Types, TurnInv, ConsumerSees, EnqStamp, EnqReload, EnqCasFails, EnqLoad
<1>6. Carries'
  BY ItemAssumption
     DEF Types, TurnInv, Carries, EnqStamp, EnqReload, EnqCasFails, EnqLoad
<1>7. LenSees'
  BY DEF Types, TurnInv, LenSees, EnqStamp, EnqReload, EnqCasFails, EnqLoad
<1>8. QED
  BY <1>3, <1>4, <1>5, <1>6, <1>7 DEF TurnInv

(* The same in try_dequeue, its answer of an empty ring included.          *)
LEMMA DequeueQuiet ==
  ASSUME Types, TurnInv, NEW c \in Consumers,
         DeqLoad(c) \/ DeqStamp(c) \/ DeqReload(c) \/ DeqCasFails(c)
  PROVE  TurnInv'
<1> USE ThreadAssumption DEF Movers, Threads, Goto, Load, ringVars, lenVars, itemVars
<1>1. Types'
  BY DequeueTypes DEF Dequeuing
<1>2. Quiet
  BY DEF Types, Quiet, Owns, DeqLoad, DeqStamp, DeqReload, DeqCasFails
<1>3. /\ WindowBounded' /\ WriterTurns' /\ ReaderTurns'
      /\ ClaimedTurns' /\ UnclaimedTurns'
  BY <1>1, <1>2, QuietKeeps
<1>4. ProducerSees'
  BY DEF Types, TurnInv, ProducerSees, DeqLoad, DeqStamp, DeqReload, DeqCasFails
<1>5. ConsumerSees'
  <2>1. CASE DeqStamp(c)
    <3>1. pos[c] \in Nat /\ stamp[Index(pos[c])] \in Int
      BY IndexFacts DEF Types
    <3>2. QED
      BY <2>1, <3>1 DEF Types, TurnInv, ConsumerSees, DeqStamp
  <2>2. CASE DeqLoad(c) \/ DeqReload(c) \/ DeqCasFails(c)
    BY <2>2 DEF Types, TurnInv, ConsumerSees, DeqLoad, DeqReload, DeqCasFails
  <2>3. QED
    BY <2>1, <2>2
<1>6. Carries'
  BY DEF Types, TurnInv, Carries, DeqLoad, DeqStamp, DeqReload, DeqCasFails
<1>7. LenSees'
  BY DEF Types, TurnInv, LenSees, DeqLoad, DeqStamp, DeqReload, DeqCasFails
<1>8. QED
  BY <1>3, <1>4, <1>5, <1>6, <1>7 DEF TurnInv

(* Both loads of len().                                                    *)
LEMMA LenQuiet ==
  ASSUME Types, TurnInv, NEW o \in Observers, LenDeq(o) \/ LenEnq(o)
  PROVE  TurnInv'
<1> USE ThreadAssumption DEF Movers, Threads, Goto, ringVars, itemVars
<1>1. Types'
  BY LenTypes
<1>2. Quiet
  BY DEF Types, Quiet, Owns, LenDeq, LenEnq
<1>3. /\ WindowBounded' /\ WriterTurns' /\ ReaderTurns'
      /\ ClaimedTurns' /\ UnclaimedTurns'
  BY <1>1, <1>2, QuietKeeps
<1>4. ProducerSees' /\ ConsumerSees'
  BY DEF Types, TurnInv, ProducerSees, ConsumerSees, LenDeq, LenEnq
<1>5. Carries' /\ LenSees'
  BY DEF Types, TurnInv, Carries, LenSees, LenDeq, LenEnq
<1>6. QED
  BY <1>3, <1>4, <1>5 DEF TurnInv

-----------------------------------------------------------------------------
(* The slots of two positions less than a lap apart differ.                *)
LEMMA OtherSlot ==
  ASSUME NEW p \in Int, NEW q \in Int,
         p < q + Capacity, q < p + Capacity, p # q
  PROVE  Index(p) # Index(q)
<1>1. CASE p <= q
  BY <1>1, IndexFacts
<1>2. CASE q <= p
  BY <1>2, IndexFacts
<1>3. QED
  BY <1>1, <1>2

(* try_enqueue wins its CAS only when the slot at enqueue_pos is free and  *)
(* the ring is not full.                                                   *)
LEMMA EnqCasClaims ==
  ASSUME Types, TurnInv, Capacity > 1, NEW p \in Producers, EnqCas(p)
  PROVE  Free(enqPos) /\ enqPos < deqPos + Capacity
<1> USE CapacityAssumption DEF Types, TurnInv, WindowBounded, EnqCas
<1>1. stamp[Index(enqPos)] = enqPos
  BY DEF ProducerSees
<1>2. enqPos # deqPos + Capacity
  <2> SUFFICES ASSUME enqPos = deqPos + Capacity PROVE FALSE
    OBVIOUS
  <2>1. Written(deqPos) \/ Published(deqPos)
    BY DEF ClaimedTurns
  <2>2. Index(enqPos) = Index(deqPos)
    BY IndexFacts
  <2>3. QED
    BY <1>1, <2>1, <2>2 DEF Written, Published
<1>3. enqPos < deqPos + Capacity
  BY <1>2
<1>4. Free(enqPos) \/ Emptied(enqPos)
  BY <1>3 DEF UnclaimedTurns
<1>5. QED
  BY <1>1, <1>3, <1>4 DEF Emptied

(* The claimed slot goes from free to being written.                       *)
LEMMA EnqCasKeeps ==
  ASSUME Types, TurnInv, Capacity > 1, NEW p \in Producers, EnqCas(p)
  PROVE  TurnInv'
<1> USE ThreadAssumption, CapacityAssumption
    DEF Movers, Threads, Goto, lenVars, itemVars
<1>1. Free(enqPos) /\ enqPos < deqPos + Capacity
  BY EnqCasClaims
<1>2. /\ Types' /\ enqPos = pos[p] /\ enqPos' = enqPos + 1
      /\ UNCHANGED <<deqPos, stamp, slot, pos, item, lenVars, itemVars>>
  BY EnqueueTypes DEF Enqueuing, EnqCas
<1>3. /\ pc[p] = "cas" /\ pc'[p] = "write"
      /\ \A t \in Threads : t # p => pc'[t] = pc[t]
  BY DEF EnqCas, Types
<1>4. /\ Writing(p)' /\ ~Writing(p)
      /\ \A t \in Threads : t # p => /\ Writing(t) <=> Writing(t)'
                                     /\ Reading(t) <=> Reading(t)'
      /\ ~Reading(p)
  BY <1>3 DEF Writing, Reading
<1>5. WindowBounded'
  BY <1>1, <1>2 DEF WindowBounded, TurnInv, Types
<1>6. WriterTurns'
  BY <1>1, <1>2, <1>3, <1>4 DEF TurnInv, WriterTurns, Free, WindowBounded, Types
<1>7. ReaderTurns'
  <2>1. \A r \in Consumers : Reading(r) => enqPos - Capacity < pos[r]
    <3> SUFFICES ASSUME NEW r \in Consumers, Reading(r), enqPos - Capacity >= pos[r]
                 PROVE  FALSE
      BY DEF Types
    <3>1. /\ enqPos - Capacity = pos[r] /\ pos[r] \in Nat
          /\ stamp[Index(pos[r])] = pos[r] + 1
      BY DEF TurnInv, ReaderTurns, Types
    <3>2. Index(pos[r]) = Index(enqPos)
      BY <3>1, IndexFacts DEF Types
    <3>3. QED
      BY <1>1, <3>1, <3>2 DEF Free
  <2>2. QED
    BY <1>2, <1>3, <1>4, <2>1 DEF TurnInv, ReaderTurns, Types
<1>8. ClaimedTurns'
  BY <1>1, <1>2, <1>4 DEF TurnInv, ClaimedTurns, Written, Published, Free, Types
<1>9. UnclaimedTurns'
  BY <1>2, <1>3, <1>4 DEF TurnInv, UnclaimedTurns, Emptied, Free, Types
<1>10. ProducerSees' /\ ConsumerSees'
  BY <1>2, <1>3 DEF TurnInv, ProducerSees, ConsumerSees, Types
<1>11. Carries' /\ LenSees'
  BY <1>2, <1>3 DEF TurnInv, Carries, LenSees, Types
<1>12. QED
  BY <1>5, <1>6, <1>7, <1>8, <1>9, <1>10, <1>11 DEF TurnInv

(* A claimed position shares its slot with no other position of the last   *)
(* lap and the next; one that was taken only with that of the next lap.    *)
LEMMA ClaimedSlots ==
  ASSUME Types, NEW p \in Int, NEW q \in Int, p # q,
         deqPos <= p, p < enqPos, enqPos - Capacity <= q, q < deqPos + Capacity
  PROVE  Index(q) # Index(p)
<1>1. q < p + Capacity /\ p < q + Capacity
  BY CapacityAssumption DEF Types
<1>2. QED
  BY <1>1, OtherSlot

(* A position that was taken and not freed, likewise.                      *)
LEMMA TakenSlots ==
  ASSUME Types, WindowBounded, NEW p \in Int, NEW q \in Int,
         p # q, q # p + Capacity,
         enqPos - Capacity <= p, p < deqPos,
         enqPos - Capacity <= q, q < deqPos + Capacity
  PROVE  Index(q) # Index(p)
<1> USE CapacityAssumption DEF Types, WindowBounded
<1>1. CASE q < p + Capacity
  <2>1. p < q + Capacity
    OBVIOUS
  <2>2. QED
    BY <1>1, <2>1, OtherSlot
<1>2. CASE q > p + Capacity
  <2> DEFINE r == p + Capacity
  <2>1. r \in Int /\ r # q /\ q < r + Capacity /\ r < q + Capacity
    BY <1>2
  <2>2. Index(q) # Index(r)
    BY <2>1, OtherSlot
  <2>3. QED
    BY <2>2, IndexFacts
<1>3. QED
  BY <1>1, <1>2

(* The write touches only the slot the producer owns.                      *)
LEMMA EnqWriteKeeps ==
  ASSUME Types, TurnInv, Capacity > 1, NEW p \in Producers, EnqWrite(p)
  PROVE  TurnInv'
<1> USE ThreadAssumption, CapacityAssumption
    DEF Movers, Threads, Goto, lenVars, itemVars
<1>1. /\ Types' /\ pc[p] = "write" /\ pos[p] \in Nat
      /\ UNCHANGED <<enqPos, deqPos, stamp, pos, item, lenVars, itemVars>>
  BY EnqueueTypes DEF Enqueuing, EnqWrite, Types
<1>2. /\ pc[p] = "write" /\ pc'[p] = "publish"
      /\ \A t \in Threads : t # p => pc'[t] = pc[t]
  BY DEF EnqWrite, Types
<1>3. /\ Writing(p)' /\ Writing(p) /\ ~Reading(p)
      /\ \A t \in Threads : t # p => /\ Writing(t) <=> Writing(t)'
                                     /\ Reading(t) <=> Reading(t)'
  BY <1>2 DEF Writing, Reading
<1>4. /\ deqPos <= pos[p] /\ pos[p] < enqPos
      /\ stamp[Index(pos[p])] = pos[p]
      /\ \A v \in Producers : Writing(v) /\ pos[v] = pos[p] => v = p
  BY <1>3 DEF TurnInv, WriterTurns
<1>5. /\ item[p] # None /\ slot'[Index(pos[p])] = item[p]
      /\ \A i \in Slots : i # Index(pos[p]) => slot'[i] = slot[i]
  BY <1>1, <1>2, IndexFacts DEF TurnInv, Carries, EnqWrite, Types
<1>6. ASSUME NEW q \in Int, q # pos[p],
             enqPos - Capacity <= q, q < deqPos + Capacity
      PROVE  slot'[Index(q)] = slot[Index(q)]
  <2>1. Index(q) # Index(pos[p])
    BY <1>1, <1>4, <1>6, ClaimedSlots
  <2>2. QED
    BY <2>1, <1>5, IndexFacts
<1>7. WriterTurns'
  BY <1>1, <1>2, <1>3, <1>4, <1>5, <1>6 DEF TurnInv, WriterTurns, WindowBounded, Types
<1>8. ReaderTurns'
  BY <1>1, <1>2, <1>3, <1>4, <1>6 DEF TurnInv, ReaderTurns, Types
<1>9. ClaimedTurns'
  BY <1>1, <1>3, <1>4, <1>5, <1>6
     DEF TurnInv, ClaimedTurns, Written, Published, WindowBounded, Types
<1>10. UnclaimedTurns'
  BY <1>1, <1>2, <1>3, <1>4, <1>6
     DEF TurnInv, UnclaimedTurns, Emptied, Free, WindowBounded, Types
<1>11. ProducerSees' /\ ConsumerSees'
  BY <1>1, <1>2 DEF TurnInv, ProducerSees, ConsumerSees, Types
<1>12. Carries' /\ LenSees' /\ WindowBounded'
  BY <1>1, <1>2 DEF TurnInv, Carries, LenSees, WindowBounded, Types
<1>13. QED
  BY <1>7, <1>8, <1>9, <1>10, <1>11, <1>12 DEF TurnInv

(* The Release store of pos + 1 hands the slot to the consumer of pos.     *)
LEMMA EnqPublishKeeps ==
  ASSUME Types, TurnInv, Capacity > 1, NEW p \in Producers, EnqPublish(p)
  PROVE  TurnInv'
<1> USE ThreadAssumption, CapacityAssumption
    DEF Movers, Threads, Goto, lenVars, itemVars
<1>1. /\ Types' /\ pc[p] = "publish" /\ pos[p] \in Nat
      /\ UNCHANGED <<enqPos, deqPos, slot, pos, lenVars, itemVars>>
  BY EnqueueTypes DEF Enqueuing, EnqPublish, Types
<1>2. /\ pc'[p] = "idle"
      /\ \A t \in Threads : t # p => pc'[t] = pc[t]
  BY DEF EnqPublish, Types
<1>3. /\ ~Writing(p)' /\ Writing(p) /\ ~Reading(p)
      /\ \A t \in Threads : t # p => /\ Writing(t) <=> Writing(t)'
                                     /\ Reading(t) <=> Reading(t)'
  BY <1>1, <1>2 DEF Writing, Reading
<1>4. /\ deqPos <= pos[p] /\ pos[p] < enqPos
      /\ stamp[Index(pos[p])] = pos[p]
      /\ slot[Index(pos[p])] # None
      /\ \A v \in Producers : Writing(v) /\ pos[v] = pos[p] => v = p
  BY <1>1, <1>3 DEF TurnInv, WriterTurns, Carries
<1>5. /\ stamp'[Index(pos[p])] = pos[p] + 1
      /\ \A i \in Slots : i # Index(pos[p]) => stamp'[i] = stamp[i]
      /\ \A t \in Movers : t # p => item'[t] = item[t]
  BY <1>1, IndexFacts DEF EnqPublish, Types
<1>6. ASSUME NEW q \in Int, q # pos[p],
             enqPos - Capacity <= q, q < deqPos + Capacity
      PROVE  stamp'[Index(q)] = stamp[Index(q)]
  <2>1. Index(q) # Index(pos[p])
    BY <1>1, <1>4, <1>6, ClaimedSlots
  <2>2. QED
    BY <2>1, <1>5, IndexFacts
<1>7. WriterTurns'
  BY <1>1, <1>2, <1>3, <1>4, <1>5, <1>6 DEF TurnInv, WriterTurns, WindowBounded, Types
<1>8. ReaderTurns'
  BY <1>1, <1>2, <1>3, <1>4, <1>6 DEF TurnInv, ReaderTurns, Types
<1>9. ClaimedTurns'
  BY <1>1, <1>3, <1>4, <1>5, <1>6
     DEF TurnInv, ClaimedTurns, Written, Published, WindowBounded, Types
<1>10. UnclaimedTurns'
  BY <1>1, <1>2, <1>3, <1>4, <1>6
     DEF TurnInv, UnclaimedTurns, Emptied, Free, WindowBounded, Types
<1>11. ProducerSees'
  <2> SUFFICES ASSUME NEW t \in Producers, pc'[t] = "cas", pos[t] = enqPos
               PROVE  stamp'[Index(pos[t])] = pos[t]
    BY <1>1, <1>2 DEF TurnInv, ProducerSees, Types
  <2>1. t # p /\ stamp[Index(pos[t])] = pos[t]
    BY <1>1, <1>2 DEF TurnInv, ProducerSees, Types
  <2>2. Index(pos[t]) # Index(pos[p])
    BY <2>1, <1>4 DEF Types
  <2>3. QED
    BY <1>5, <2>1, <2>2, IndexFacts DEF Types
<1>12. ConsumerSees'
  <2> SUFFICES ASSUME NEW t \in Consumers, pc'[t] = "cas", pos[t] = deqPos
               PROVE  stamp'[Index(pos[t])] = pos[t] + 1
    BY <1>1, <1>2 DEF TurnInv, ConsumerSees, Types
  <2>1. t # p /\ stamp[Index(pos[t])] = pos[t] + 1
    BY <1>1, <1>2 DEF TurnInv, ConsumerSees, Types
  <2>2. Index(deqPos) # Index(deqPos + 1)
    BY OtherSlot DEF Types
  <2>3. Index(pos[t]) # Index(pos[p])
    BY <2>1, <2>2, <1>4 DEF Types
  <2>4. QED
    BY <1>5, <2>1, <2>3, IndexFacts DEF Types
<1>13. Carries' /\ LenSees' /\ WindowBounded'
  BY <1>1, <1>2, <1>5 DEF TurnInv, Carries, LenSees, WindowBounded, Types
<1>14. QED
  BY <1>7, <1>8, <1>9, <1>10, <1>11, <1>12, <1>13 DEF TurnInv

-----------------------------------------------------------------------------
(* try_dequeue wins its CAS only on a published slot inside the window.    *)
LEMMA DeqCasTakes ==
  ASSUME Types, TurnInv, Capacity > 1, NEW c \in Consumers, DeqCas(c)
  PROVE  Published(deqPos) /\ deqPos < enqPos
<1> USE CapacityAssumption DEF Types, TurnInv, WindowBounded, DeqCas
<1>1. stamp[Index(deqPos)] = deqPos + 1
  BY DEF ConsumerSees
<1>2. deqPos # enqPos
  <2> SUFFICES ASSUME deqPos = enqPos PROVE FALSE
    OBVIOUS
  <2>1. Free(deqPos) \/ Emptied(deqPos)
    BY DEF UnclaimedTurns
  <2>2. QED
    BY <1>1, <2>1 DEF Free, Emptied
<1>3. Written(deqPos) \/ Published(deqPos)
  BY <1>2 DEF ClaimedTurns
<1>4. QED
  BY <1>1, <1>2, <1>3 DEF Written

(* The taken slot goes from published to being read.                       *)
LEMMA DeqCasKeeps ==
  ASSUME Types, TurnInv, Capacity > 1, NEW c \in Consumers, DeqCas(c)
  PROVE  TurnInv'
<1> USE ThreadAssumption, CapacityAssumption
    DEF Movers, Threads, Goto, lenVars, itemVars
<1>1. Published(deqPos) /\ deqPos < enqPos
  BY DeqCasTakes
<1>2. /\ Types' /\ deqPos = pos[c] /\ deqPos' = deqPos + 1
      /\ UNCHANGED <<enqPos, stamp, slot, pos, item, lenVars, itemVars>>
  BY DequeueTypes DEF Dequeuing, DeqCas
<1>3. /\ pc[c] = "cas" /\ pc'[c] = "read"
      /\ \A t \in Threads : t # c => pc'[t] = pc[t]
  BY DEF DeqCas, Types
<1>4. /\ Reading(c)' /\ ~Reading(c) /\ ~Writing(c)
      /\ \A t \in Threads : t # c => /\ Writing(t) <=> Writing(t)'
                                     /\ Reading(t) <=> Reading(t)'
  BY <1>3 DEF Writing, Reading
<1>5. WindowBounded'
  BY <1>1, <1>2 DEF WindowBounded, TurnInv, Types
<1>6. WriterTurns'
  <2>1. \A w \in Producers : Writing(w) => pos[w] # deqPos
    BY <1>1 DEF TurnInv, WriterTurns, Published, Types
  <2>2. QED
    BY <1>2, <1>3, <1>4, <2>1 DEF TurnInv, WriterTurns, Types
<1>7. ReaderTurns'
  BY <1>1, <1>2, <1>3, <1>4
     DEF TurnInv, ReaderTurns, Published, WindowBounded, Types
<1>8. ClaimedTurns'
  BY <1>2, <1>4 DEF TurnInv, ClaimedTurns, Written, Published, Types
<1>9. UnclaimedTurns'
  <2>1. ASSUME NEW q \in Nat, enqPos <= q, q < deqPos + Capacity
        PROVE  Free(q)' \/ Emptied(q)'
    BY <1>2, <1>3, <1>4, <2>1 DEF TurnInv, UnclaimedTurns, Emptied, Free, Types
  <2>2. ASSUME NEW q \in Nat, q = deqPos + Capacity
        PROVE  Emptied(q)'
    <3>1. Index(q) = Index(deqPos) /\ q - Capacity = deqPos
      BY <2>2, IndexFacts DEF Types
    <3>2. stamp'[Index(q)] = q - Capacity + 1
      BY <1>1, <1>2, <3>1 DEF Published
    <3>3. QED
      BY <1>2, <1>4, <3>1, <3>2 DEF Emptied
  <2>3. QED
    BY <1>2, <2>1, <2>2 DEF UnclaimedTurns, Types
<1>10. ProducerSees' /\ ConsumerSees'
  BY <1>2, <1>3 DEF TurnInv, ProducerSees, ConsumerSees, Types
<1>11. Carries' /\ LenSees'
  BY <1>2, <1>3 DEF TurnInv, Carries, LenSees, Types
<1>12. QED
  BY <1>5, <1>6, <1>7, <1>8, <1>9, <1>10, <1>11 DEF TurnInv

(* assume_init_read touches only the slot the consumer took.               *)
LEMMA DeqReadKeeps ==
  ASSUME Types, TurnInv, Capacity > 1, NEW c \in Consumers, DeqRead(c)
  PROVE  TurnInv'
<1> USE ThreadAssumption, CapacityAssumption
    DEF Movers, Threads, Goto, lenVars, itemVars
<1>1. /\ Types' /\ pc[c] = "read" /\ pos[c] \in Nat
      /\ UNCHANGED <<enqPos, deqPos, stamp, pos, lenVars, itemVars>>
  BY DequeueTypes DEF Dequeuing, DeqRead, Types
<1>2. /\ pc'[c] = "free"
      /\ \A t \in Threads : t # c => pc'[t] = pc[t]
  BY DEF DeqRead, Types
<1>3. /\ Reading(c)' /\ Reading(c) /\ ~Writing(c)
      /\ \A t \in Threads : t # c => /\ Writing(t) <=> Writing(t)'
                                     /\ Reading(t) <=> Reading(t)'
  BY <1>1, <1>2 DEF Writing, Reading
<1>4. /\ enqPos - Capacity <= pos[c] /\ pos[c] < deqPos
      /\ stamp[Index(pos[c])] = pos[c] + 1
      /\ slot[Index(pos[c])] # None
      /\ \A s \in Consumers : Reading(s) /\ pos[s] = pos[c] => s = c
  BY <1>1, <1>3 DEF TurnInv, ReaderTurns
<1>5. /\ slot'[Index(pos[c])] = None /\ item'[c] # None
      /\ \A i \in Slots : i # Index(pos[c]) => slot'[i] = slot[i]
      /\ \A t \in Movers : t # c => item'[t] = item[t]
  BY <1>1, <1>4, IndexFacts DEF DeqRead, Types
<1>6. ASSUME NEW q \in Int, q # pos[c], q # pos[c] + Capacity,
             enqPos - Capacity <= q, q < deqPos + Capacity
      PROVE  slot'[Index(q)] = slot[Index(q)]
  <2>1. Index(q) # Index(pos[c])
    BY <1>1, <1>4, <1>6, TakenSlots DEF TurnInv
  <2>2. QED
    BY <2>1, <1>5, IndexFacts
<1>7. WriterTurns'
  BY <1>1, <1>2, <1>3, <1>4, <1>5, <1>6 DEF TurnInv, WriterTurns, WindowBounded, Types
<1>8. ReaderTurns'
  BY <1>1, <1>2, <1>3, <1>4, <1>5, <1>6
     DEF TurnInv, ReaderTurns, WindowBounded, Types
<1>9. ClaimedTurns'
  BY <1>1, <1>3, <1>4, <1>6
     DEF TurnInv, ClaimedTurns, Written, Published, WindowBounded, Types
<1>10. UnclaimedTurns'
  <2> SUFFICES ASSUME NEW q \in Nat, enqPos <= q, q < deqPos + Capacity
               PROVE  Free(q)' \/ Emptied(q)'
    BY <1>1 DEF UnclaimedTurns
  <2>1. Free(q) \/ Emptied(q)
    BY DEF TurnInv, UnclaimedTurns
  <2>2. Emptied(q) => Emptied(q)'
    BY <1>1, <1>3 DEF Emptied
  <2>3. q = pos[c] + Capacity => Emptied(q)
    BY <1>1, <1>4, <2>1, IndexFacts DEF Free
  <2>4. q # pos[c] + Capacity => slot'[Index(q)] = slot[Index(q)]
    BY <1>4, <1>6 DEF TurnInv, WindowBounded, Types
  <2>5. QED
    BY <1>1, <2>1, <2>2, <2>3, <2>4 DEF Free
<1>11. ProducerSees' /\ ConsumerSees'
  BY <1>1, <1>2 DEF TurnInv, ProducerSees, ConsumerSees, Types
<1>12. Carries' /\ LenSees' /\ WindowBounded'
  BY <1>1, <1>2, <1>5 DEF TurnInv, Carries, LenSees, WindowBounded, Types
<1>13. QED
  BY <1>7, <1>8, <1>9, <1>10, <1>11, <1>12 DEF TurnInv

(* The Release store of pos + Capacity hands the slot to the next lap.     *)
LEMMA DeqFreeKeeps ==
  ASSUME Types, TurnInv, Capacity > 1, NEW c \in Consumers, DeqFree(c)
  PROVE  TurnInv'
<1> USE ThreadAssumption, CapacityAssumption
    DEF Movers, Threads, Goto, lenVars, itemVars
<1>1. /\ Types' /\ pc[c] = "free" /\ pos[c] \in Nat
      /\ UNCHANGED <<enqPos, deqPos, slot, pos, lenVars, unsent, shed>>
  BY DequeueTypes DEF Dequeuing, DeqFree, Types
<1>2. /\ pc'[c] = "idle"
      /\ \A t \in Threads : t # c => pc'[t] = pc[t]
  BY DEF DeqFree, Types
<1>3. /\ ~Reading(c)' /\ Reading(c) /\ ~Writing(c)
      /\ \A t \in Threads : t # c => /\ Writing(t) <=> Writing(t)'
                                     /\ Reading(t) <=> Reading(t)'
  BY <1>1, <1>2 DEF Writing, Reading
<1>4. /\ enqPos - Capacity <= pos[c] /\ pos[c] < deqPos
      /\ stamp[Index(pos[c])] = pos[c] + 1
      /\ slot[Index(pos[c])] = None
      /\ \A s \in Consumers : Reading(s) /\ pos[s] = pos[c] => s = c
  BY <1>1, <1>3 DEF TurnInv, ReaderTurns
<1>5. /\ stamp'[Index(pos[c])] = pos[c] + Capacity
      /\ \A i \in Slots : i # Index(pos[c]) => stamp'[i] = stamp[i]
      /\ \A t \in Movers : t # c => item'[t] = item[t]
      /\ item[c] # None /\ delivered' = delivered \union {item[c]}
  BY <1>1, IndexFacts DEF DeqFree, TurnInv, Carries, Types
<1>6. ASSUME NEW q \in Int, q # pos[c], q # pos[c] + Capacity,
             enqPos - Capacity <= q, q < deqPos + Capacity
      PROVE  stamp'[Index(q)] = stamp[Index(q)]
  <2>1. Index(q) # Index(pos[c])
    BY <1>1, <1>4, <1>6, TakenSlots DEF TurnInv
  <2>2. QED
    BY <2>1, <1>5, IndexFacts
<1>7. WriterTurns'
  BY <1>1, <1>2, <1>3, <1>4, <1>5, <1>6 DEF TurnInv, WriterTurns, WindowBounded, Types
<1>8. ReaderTurns'
  BY <1>1, <1>2, <1>3, <1>4, <1>6 DEF TurnInv, ReaderTurns, WindowBounded, Types
<1>9. ClaimedTurns'
  BY <1>1, <1>3, <1>4, <1>6
     DEF TurnInv, ClaimedTurns, Written, Published, WindowBounded, Types
<1>10. UnclaimedTurns'
  <2> SUFFICES ASSUME NEW q \in Nat, enqPos <= q, q < deqPos + Capacity
               PROVE  Free(q)' \/ Emptied(q)'
    BY <1>1 DEF UnclaimedTurns
  <2>1. CASE q = pos[c] + Capacity
    BY <1>1, <1>4, <1>5, <2>1, IndexFacts DEF Free
  <2>2. CASE q # pos[c] + Capacity
    <3>1. Free(q) \/ Emptied(q)
      BY DEF TurnInv, UnclaimedTurns
    <3>2. stamp'[Index(q)] = stamp[Index(q)] /\ slot'[Index(q)] = slot[Index(q)]
      BY <1>1, <1>4, <1>6, <2>2 DEF TurnInv, WindowBounded, Types
    <3>3. Emptied(q) => Emptied(q)'
      BY <1>1, <1>3, <2>2, <3>2 DEF Emptied, Types
    <3>4. QED
      BY <3>1, <3>2, <3>3 DEF Free
  <2>3. QED
    BY <2>1, <2>2
<1>11. ProducerSees'
  <2> SUFFICES ASSUME NEW t \in Producers, pc'[t] = "cas", pos[t] = enqPos
               PROVE  stamp'[Index(pos[t])] = pos[t]
    BY <1>1, <1>2 DEF TurnInv, ProducerSees, Types
  <2>1. t # c /\ stamp[Index(pos[t])] = pos[t]
    BY <1>1, <1>2 DEF TurnInv, ProducerSees, Types
  <2>2. Index(pos[c]) # Index(pos[c] + 1)
    BY <1>1, OtherSlot
  <2>3. Index(pos[t]) # Index(pos[c])
    BY <1>1, <1>4, <2>1, <2>2 DEF Types
  <2>4. QED
    BY <1>5, <2>1, <2>3, IndexFacts DEF Types
<1>12. ConsumerSees'
  <2> SUFFICES ASSUME NEW t \in Consumers, pc'[t] = "cas", pos[t] = deqPos
               PROVE  stamp'[Index(pos[t])] = pos[t] + 1
    BY <1>1, <1>2 DEF TurnInv, ConsumerSees, Types
  <2>1. t # c /\ stamp[Index(pos[t])] = pos[t] + 1
    BY <1>1, <1>2 DEF TurnInv, ConsumerSees, Types
  <2>2. Index(pos[t]) # Index(pos[c])
    BY <1>4, <2>1 DEF Types
  <2>3. QED
    BY <1>5, <2>1, <2>2, IndexFacts DEF Types
<1>13. Carries'
  BY <1>1, <1>2, <1>5 DEF TurnInv, Carries, Types
<1>14. LenSees' /\ WindowBounded'
  BY <1>1, <1>2 DEF TurnInv, LenSees, WindowBounded, Types
<1>15. QED
  BY <1>7, <1>8, <1>9, <1>10, <1>11, <1>12, <1>13, <1>14 DEF TurnInv

-----------------------------------------------------------------------------
(* The protocol of ring.rs: whose turn each slot is, at every step.        *)
LEMMA TurnsHold ==
  ASSUME Capacity > 1
  PROVE  Spec => [](Types /\ TurnInv)
<1>1. Init => TurnInv
  <2> SUFFICES ASSUME Init PROVE TurnInv
    OBVIOUS
  <2>1. /\ enqPos = 0 /\ deqPos = 0 /\ shed = {} /\ delivered = {}
        /\ \A t \in Threads : pc[t] = "idle"
        /\ \A o \in Observers : seen[o] = 0
    BY DEF Init
  <2>2. \A t \in Movers : ~Writing(t) /\ ~Reading(t) /\ pc[t] = "idle"
    BY <2>1 DEF Writing, Reading, Movers, Threads
  <2>3. \A p \in Nat : p < Capacity => Free(p)
    <3> SUFFICES ASSUME NEW p \in Nat, p < Capacity PROVE Free(p)
      OBVIOUS
    <3>1. p \in Slots /\ Index(p) = p
      BY CapacityAssumption, Z3 DEF Slots, Index
    <3>2. QED
      BY <3>1 DEF Init, Free
  <2>4. UnclaimedTurns
    BY <2>1, <2>3, CapacityAssumption DEF UnclaimedTurns
  <2>5. WindowBounded /\ ClaimedTurns
    BY <2>1, CapacityAssumption DEF WindowBounded, ClaimedTurns
  <2>6. WriterTurns /\ ReaderTurns /\ ProducerSees /\ ConsumerSees
    BY <2>2 DEF WriterTurns, ReaderTurns, ProducerSees, ConsumerSees, Movers
  <2>7. Carries /\ LenSees
    BY <2>1, <2>2 DEF Carries, LenSees, Movers
  <2>8. QED
    BY <2>4, <2>5, <2>6, <2>7 DEF TurnInv
<1>2. Types /\ TurnInv /\ [Next]_vars => TurnInv'
  <2> SUFFICES ASSUME Types, TurnInv, [Next]_vars PROVE TurnInv'
    OBVIOUS
  <2>1. ASSUME NEW p \in Producers,
               Enqueuing(p) \/ \E x \in unsent : EnqLoad(p, x)
        PROVE  TurnInv'
    BY <2>1, EnqueueQuiet, EnqCasKeeps, EnqWriteKeeps, EnqPublishKeeps
       DEF Enqueuing
  <2>2. ASSUME NEW c \in Consumers, Dequeuing(c) \/ DeqLoad(c)
        PROVE  TurnInv'
    BY <2>2, DequeueQuiet, DeqCasKeeps, DeqReadKeeps, DeqFreeKeeps
       DEF Dequeuing
  <2>3. ASSUME NEW o \in Observers, LenDeq(o) \/ LenEnq(o)
        PROVE  TurnInv'
    BY <2>3, LenQuiet
  <2>4. CASE UNCHANGED vars
    BY <2>4 DEF vars, ringVars, lenVars, itemVars, TurnInv, WindowBounded,
       WriterTurns, ReaderTurns, ClaimedTurns, UnclaimedTurns, ProducerSees,
       ConsumerSees, Carries, LenSees, Written, Published, Free, Emptied,
       Writing, Reading
  <2>5. QED
    BY <2>1, <2>2, <2>3, <2>4 DEF Next
<1>3. QED
  BY <1>1, <1>2, TypesHold, PTL DEF Spec

-----------------------------------------------------------------------------
(* ring.rs: positions and stamps are usize, slots and callers hold at most *)
(* one request each, producers and consumers run only their own code, and  *)
(* what is handed back or handed out is a request: assume_init_read never  *)
(* yields an uninitialised payload.                                        *)
THEOREM RingTyping ==
  ASSUME Capacity > 1
  PROVE  Spec => []TypeOK
<1>1. Types /\ TurnInv => TypeOK
  BY DEF Types, TurnInv, Carries, TypeOK
<1>2. QED
  BY <1>1, TurnsHold, PTL

(* try_enqueue never claims past the ring, try_dequeue never past what was *)
(* claimed: 0 <= enqueue_pos - dequeue_pos <= capacity.                    *)
THEOREM WindowStaysBounded ==
  ASSUME Capacity > 1
  PROVE  Spec => []WindowBounded
<1>1. TurnInv => WindowBounded
  BY DEF TurnInv
<1>2. QED
  BY <1>1, TurnsHold, PTL

(* The first half of the SAFETY comments of try_enqueue and try_dequeue:   *)
(* between its CAS and its stamp store a thread is alone in its slot.      *)
THEOREM SlotsNeverShared ==
  ASSUME Capacity > 1
  PROVE  Spec => []NoSharedSlot
<1>1. Types /\ TurnInv => NoSharedSlot
  <2> SUFFICES ASSUME Types, TurnInv, NEW s \in Movers, NEW t \in Movers,
                      s # t, Owns(s), Owns(t)
               PROVE  Index(pos[s]) # Index(pos[t])
    BY DEF NoSharedSlot
  <2>1. ASSUME NEW u \in Movers, Owns(u)
        PROVE  /\ pos[u] \in Int /\ enqPos - Capacity <= pos[u] /\ pos[u] < enqPos
               /\ \/ u \in Producers /\ Writing(u) /\ deqPos <= pos[u]
                  \/ u \in Consumers /\ Reading(u) /\ pos[u] < deqPos
    BY <2>1, CapacityAssumption
       DEF Types, TurnInv, WindowBounded, WriterTurns, ReaderTurns, Writing,
           Reading, Owns, Movers
  <2>2. pos[s] # pos[t]
    BY <2>1 DEF Types, TurnInv, WriterTurns, ReaderTurns
  <2>3. QED
    BY <2>1, <2>2, OtherSlot, CapacityAssumption DEF Types
<1>2. QED
  BY <1>1, TurnsHold, PTL

(* The second half: the producer writes into an empty slot, the consumer   *)
(* reads an initialised one.                                               *)
THEOREM SlotsAlwaysMatch ==
  ASSUME Capacity > 1
  PROVE  Spec => []SlotsMatchOwners
<1>1. Types /\ TurnInv => SlotsMatchOwners
  BY DEF Types, TurnInv, WriterTurns, ReaderTurns, SlotsMatchOwners, Writing,
         Reading, Movers
<1>2. QED
  BY <1>1, TurnsHold, PTL

(* Every slot is visited by exactly one position of a lap.                 *)
LEMMA LapCoversSlots ==
  ASSUME NEW d \in Nat, NEW i \in Slots
  PROVE  \E p \in Nat : d <= p /\ p < d + Capacity /\ Index(p) = i
<1> DEFINE k == d % Capacity
           p == IF k <= i THEN d + (i - k) ELSE d + (i - k) + Capacity
           a == d \div Capacity
           b == p \div Capacity
           s == p % Capacity
<1>1. /\ a \in Int /\ k \in 0..(Capacity - 1) /\ d = Capacity * a + k
      /\ i \in 0..(Capacity - 1)
  BY Division DEF Slots
<1>2. p \in Nat /\ d <= p /\ p < d + Capacity
  BY <1>1, CapacityAssumption
<1>3. b \in Int /\ s \in 0..(Capacity - 1) /\ p = Capacity * b + s
  BY <1>2, Division
<1>4. p = d + (i - k) \/ p = d + (i - k) + Capacity
  OBVIOUS
<1>5. Capacity * a \in Int
  BY <1>1, CapacityAssumption
<1> HIDE DEF k, p, a, b, s
<1>6. \/ Capacity * b + s = Capacity * a + i + 0
      \/ Capacity * b + s = Capacity * a + i + Capacity
  <2>1. \/ p = Capacity * a + i + 0
        \/ p = Capacity * a + i + Capacity
    BY <1>1, <1>4, <1>5, CapacityAssumption
  <2>2. QED
    BY <1>3, <2>1
<1>7. s = i
  BY <1>1, <1>3, <1>6, Laps, CapacityAssumption
<1>8. Index(p) = i
  BY <1>7 DEF s, Index
<1>9. QED
  BY <1>2, <1>8

(* The SAFETY comment of Drop: whenever no call is under way, the payloads *)
(* freed from dequeue_pos up to enqueue_pos are all the initialised slots, *)
(* each once.                                                              *)
THEOREM DropAlwaysFreesEach ==
  ASSUME Capacity > 1
  PROVE  Spec => []DropFreesEach
<1>1. Types /\ TurnInv => DropFreesEach
  <2> SUFFICES ASSUME Types, TurnInv, \A t \in Threads : pc[t] = "idle"
               PROVE  /\ {Index(p) : p \in DropVisits} = {i \in Slots : slot[i] # None}
                      /\ \A p, q \in DropVisits : Index(p) = Index(q) => p = q
    BY DEF DropFreesEach
  <2>1. \A t \in Movers : ~Writing(t) /\ ~Reading(t)
    BY DEF Writing, Reading, Movers, Threads
  <2>2. \A p \in DropVisits : p \in Nat /\ Index(p) \in Slots /\ slot[Index(p)] # None
    BY <2>1, IndexFacts
       DEF DropVisits, Types, TurnInv, ClaimedTurns, Written, Published, Movers
  <2>3. ASSUME NEW i \in Slots, slot[i] # None
        PROVE  \E p \in DropVisits : Index(p) = i
    <3>1. PICK p \in Nat : deqPos <= p /\ p < deqPos + Capacity /\ Index(p) = i
      BY LapCoversSlots DEF Types
    <3>2. p < enqPos
      BY <2>1, <2>3, <3>1
         DEF Types, TurnInv, UnclaimedTurns, Free, Emptied, Movers
    <3>3. QED
      BY <3>1, <3>2 DEF DropVisits, Types
  <2>4. \A p, q \in DropVisits : Index(p) = Index(q) => p = q
    <3> SUFFICES ASSUME NEW p \in DropVisits, NEW q \in DropVisits, p # q
                 PROVE  Index(p) # Index(q)
      OBVIOUS
    <3>1. p \in Int /\ q \in Int /\ p < q + Capacity /\ q < p + Capacity
      BY CapacityAssumption DEF DropVisits, Types, TurnInv, WindowBounded
    <3>2. QED
      BY <3>1, OtherSlot
  <2>5. QED
    BY <2>2, <2>3, <2>4
<1>2. QED
  BY <1>1, TurnsHold, PTL

(* len() loads dequeue_pos before enqueue_pos, so what it answers is never *)
(* less than what is claimed and not popped when it answers.               *)
THEOREM LenNeverUnder ==
  ASSUME Capacity > 1
  PROVE  Spec => LenNotUnder
<1>1. Types /\ TurnInv /\ [Next]_vars
      => [\A o \in Observers : LenEnq(o) => length'[o] >= enqPos - deqPos]_vars
  <2> SUFFICES ASSUME Types, TurnInv, NEW o \in Observers, LenEnq(o)
               PROVE  length'[o] >= enqPos - deqPos
    OBVIOUS
  <2>1. length'[o] = Clamp(seen[o], enqPos)
    BY DEF LenEnq, Types
  <2>2. seen[o] \in Nat /\ seen[o] <= deqPos
    BY DEF Types, TurnInv, LenSees
  <2>3. QED
    BY <2>1, <2>2, CapacityAssumption DEF Clamp, Types, TurnInv, WindowBounded
<1>2. QED
  BY <1>1, TurnsHold, PTL DEF Spec, LenNotUnder
-----------------------------------------------------------------------------
(***************************************************************************)
(* Ring implements BoundedQueue: the mapping of RingQueue takes every      *)
(* initial state of Ring to the empty queue and every step to one step of  *)
(* the queue or to none.                                                   *)
(*                                                                         *)
(* A successful CAS of a producer is the queue's claim, its stamp store    *)
(* the queue's publication, a successful CAS of a consumer the queue's     *)
(* take and its stamp store the queue's release. A refusal is the queue's  *)
(* refusal when the stamp that justified it is read, not when the position *)
(* was loaded.                                                             *)
(***************************************************************************)

(* The order that LeastPosition minimises.                                 *)
Below == {ss \in Nat \X Nat : ss[1] < ss[2]}

(* Every non-empty set of positions has an oldest one.                     *)
LEMMA LeastPosition ==
  ASSUME NEW T \in SUBSET Nat, T # {}
  PROVE  \E m \in T : \A q \in T : m <= q
<1>1. IsWellFoundedOn(Below, Nat)
  BY NatLessThanWellFounded DEF OpToRel, Below
<1>2. PICK m \in T : \A q \in T : ~(<<q, m>> \in Below)
  BY <1>1, WFMin, Zenon
<1>3. ASSUME NEW q \in T, q < m PROVE FALSE
  <2>1. <<q, m>> \in Nat \X Nat /\ <<q, m>>[1] = q /\ <<q, m>>[2] = m
    OBVIOUS
  <2>2. <<q, m>> \in Below
    BY <1>3, <2>1 DEF Below
  <2>3. QED
    BY <1>2, <2>2
<1>4. QED
  BY <1>3

(* A request is on one producer's stack, and no longer on offer.           *)
OwnItems ==
  \A p \in Producers : item[p] # None =>
    /\ item[p] \notin unsent
    /\ \A q \in Producers : item[q] = item[p] => q = p

(* An item comes off the offered ones when a producer picks it up.         *)
LEMMA OwnItemsHold == Spec => []OwnItems
<1>1. Init => OwnItems
  BY DEF Init, OwnItems, Movers
<1>2. Types /\ OwnItems /\ [Next]_vars => OwnItems'
  <2> SUFFICES ASSUME Types, OwnItems, [Next]_vars PROVE OwnItems'
    OBVIOUS
  <2> USE ThreadAssumption, ItemAssumption DEF Types, OwnItems, Movers
  <2>1. ASSUME NEW p \in Producers, \E x \in unsent : EnqLoad(p, x)
        PROVE  OwnItems'
    BY <2>1 DEF EnqLoad
  <2>2. ASSUME NEW p \in Producers, Enqueuing(p)
        PROVE  OwnItems'
    BY <2>2 DEF Enqueuing, EnqStamp, EnqReload, EnqCas, EnqCasFails, EnqWrite,
                EnqPublish, itemVars
  <2>3. ASSUME NEW c \in Consumers, Dequeuing(c) \/ DeqLoad(c)
        PROVE  OwnItems'
    BY <2>3 DEF Dequeuing, DeqStamp, DeqReload, DeqCas, DeqCasFails, DeqRead,
                DeqFree, DeqLoad, itemVars
  <2>4. ASSUME NEW o \in Observers, LenDeq(o) \/ LenEnq(o)
        PROVE  OwnItems'
    BY <2>4 DEF LenDeq, LenEnq, itemVars
  <2>5. CASE UNCHANGED vars
    BY <2>5 DEF vars, itemVars
  <2>6. QED
    BY <2>1, <2>2, <2>3, <2>4, <2>5 DEF Next
<1>3. QED
  BY <1>1, <1>2, TypesHold, PTL DEF Spec

(* What the step lemmas below assume.                                      *)
RefInv == Types /\ TurnInv /\ OwnItems

-----------------------------------------------------------------------------
(* Where the window begins.                                                *)
WindowStart ==
  /\ Oldest \in Nat
  /\ enqPos - Capacity <= Oldest /\ Oldest <= deqPos
  /\ \A c \in Consumers : Reading(c) => Oldest <= pos[c]
  /\ Oldest = deqPos \/ \E c \in Consumers : Reading(c) /\ pos[c] = Oldest

LEMMA OldestFacts == Types /\ TurnInv => WindowStart
<1> SUFFICES ASSUME Types, TurnInv PROVE WindowStart
  OBVIOUS
<1> USE CapacityAssumption DEF Reading, HeldPositions, Types, Movers
<1>1. HeldPositions \in SUBSET Nat /\ HeldPositions # {}
  OBVIOUS
<1>2. \E m \in HeldPositions : \A q \in HeldPositions : m <= q
  BY <1>1, LeastPosition
<1>3. Oldest \in HeldPositions /\ \A q \in HeldPositions : Oldest <= q
  BY <1>2 DEF Oldest
<1>4. \A q \in HeldPositions : enqPos - Capacity <= q
  BY DEF TurnInv, WindowBounded, ReaderTurns
<1>5. QED
  BY <1>1, <1>3, <1>4 DEF WindowStart

(* It is determined by these facts.                                        *)
IsOldest(m) ==
  /\ m <= deqPos
  /\ \A c \in Consumers : Reading(c) => m <= pos[c]
  /\ m = deqPos \/ \E c \in Consumers : Reading(c) /\ pos[c] = m

LEMMA OldestIs == Types => \A m \in Nat : IsOldest(m) => Oldest = m
<1> SUFFICES ASSUME Types, NEW m \in Nat, IsOldest(m) PROVE Oldest = m
  OBVIOUS
<1> USE DEF Reading, HeldPositions, Types, Movers
<1>1. m \in HeldPositions /\ \A q \in HeldPositions : m <= q
  BY DEF IsOldest
<1>2. HeldPositions \in SUBSET Nat
  OBVIOUS
<1>3. Oldest \in HeldPositions /\ \A q \in HeldPositions : Oldest <= q
  BY <1>1 DEF Oldest
<1>4. QED
  BY <1>1, <1>2, <1>3

(* The four kinds of cells.                                                *)
TakenAt(p)    == \E c \in Consumers : Reading(c) /\ pos[c] = p
(* Some producer is moving a payload to position p.                        *)
ClaimedAt(p)  == \E w \in Producers : Writing(w) /\ pos[w] = p

(* What the mapping shows at a position, case by case.                     *)
CellKinds(p) ==
  /\ \A c \in Consumers : Reading(c) /\ pos[c] = p => CellAt(p) = TakenCell(c, p)
  /\ p < deqPos /\ ~TakenAt(p) => CellAt(p) = [item |-> None, stage |-> "released"]
  /\ \A w \in Producers : Writing(w) /\ pos[w] = p
       => CellAt(p) = [item |-> item[w], stage |-> "writing"]
  /\ deqPos <= p /\ ~ClaimedAt(p)
       => CellAt(p) = [item |-> slot[Index(p)], stage |-> "ready"]

(* The cases cover the window, and no CHOOSE is ambiguous.                 *)
LEMMA CellFacts == Types /\ TurnInv => \A p \in Nat : CellKinds(p)
<1> SUFFICES ASSUME Types, TurnInv, NEW p \in Nat PROVE CellKinds(p)
  OBVIOUS
<1>1. ASSUME NEW c \in Consumers, Reading(c), pos[c] = p
      PROVE  CellAt(p) = TakenCell(c, p)
  <2>1. p < deqPos /\ Takers(p) = {c}
    BY <1>1 DEF TurnInv, ReaderTurns, Takers, Reading
  <2>2. QED
    BY <2>1 DEF CellAt
<1>2. ASSUME p < deqPos, ~TakenAt(p)
      PROVE  CellAt(p) = [item |-> None, stage |-> "released"]
  <2>1. Takers(p) = {}
    BY <1>2 DEF TakenAt, Takers, Reading
  <2>2. QED
    BY <1>2, <2>1 DEF CellAt
<1>3. ASSUME NEW w \in Producers, Writing(w), pos[w] = p
      PROVE  CellAt(p) = [item |-> item[w], stage |-> "writing"]
  <2>1. ~(p < deqPos) /\ Claimers(p) = {w}
    BY <1>3 DEF TurnInv, WriterTurns, Claimers, Writing, Types
  <2>2. QED
    BY <2>1 DEF CellAt
<1>4. ASSUME deqPos <= p, ~ClaimedAt(p)
      PROVE  CellAt(p) = [item |-> slot[Index(p)], stage |-> "ready"]
  <2>1. ~(p < deqPos) /\ Claimers(p) = {}
    BY <1>4 DEF ClaimedAt, Claimers, Writing, Types
  <2>2. QED
    BY <2>1 DEF CellAt
<1>5. QED
  BY <1>1, <1>2, <1>3, <1>4 DEF CellKinds

(* The window as a sequence.                                               *)
Cell == [item : Items \union {None}, stage : Queue!Stages]

(* The window is a sequence of at most Capacity such cells.                *)
WindowShape ==
  /\ enqPos - Oldest \in 0..Capacity
  /\ Cells \in Seq(Cell)
  /\ Len(Cells) = enqPos - Oldest
  /\ \A k \in 1..(enqPos - Oldest) : Cells[k] = CellAt(Oldest + k - 1)

(* It is, in every state of the protocol.                                  *)
LEMMA CellsFacts == Types /\ TurnInv => WindowShape
<1> SUFFICES ASSUME Types, TurnInv PROVE WindowShape
  OBVIOUS
<1> DEFINE n == enqPos - Oldest
<1>1. WindowStart
  BY OldestFacts
<1>2. n \in 0..Capacity /\ n \in Nat
  BY <1>1, CapacityAssumption DEF WindowStart, Types, TurnInv, WindowBounded
<1>3. ASSUME NEW p \in Nat PROVE CellAt(p) \in Cell
  <2>1. CellKinds(p)
    BY CellFacts
  <2>2. slot[Index(p)] \in Items \union {None}
    BY IndexFacts DEF Types
  <2>3. CASE TakenAt(p)
    BY <2>1, <2>2, <2>3
       DEF CellKinds, TakenAt, TakenCell, Cell, Queue!Stages, Types, Movers
  <2>4. CASE ClaimedAt(p)
    BY <2>1, <2>4 DEF CellKinds, ClaimedAt, Cell, Queue!Stages, Types, Movers
  <2>5. CASE ~TakenAt(p) /\ ~ClaimedAt(p)
    BY <2>1, <2>2, <2>5 DEF CellKinds, Cell, Queue!Stages, Types
  <2>6. QED
    BY <2>3, <2>4, <2>5
<1>4. \A k \in 1..n : CellAt(Oldest + k - 1) \in Cell
  BY <1>1, <1>2, <1>3 DEF WindowStart
<1>5. Cells = [k \in 1..n |-> CellAt(Oldest + k - 1)]
  BY DEF Cells
<1>6. Cells \in Seq(Cell) /\ Len(Cells) = n
  BY <1>2, <1>4, <1>5, IsASeq
<1>7. QED
  BY <1>2, <1>5, <1>6 DEF WindowShape

(* The facts above one step later.                                         *)
LEMMA NextFacts ==
  Types' /\ TurnInv' => /\ WindowStart' /\ WindowShape'
                        /\ \A p \in Nat : CellKinds(p)'
                        /\ \A m \in Nat : IsOldest(m)' => Oldest' = m
<1>1. (Types /\ TurnInv => /\ WindowStart /\ WindowShape
                        /\ (\A p \in Nat : CellKinds(p))
                        /\ \A m \in Nat : IsOldest(m) => Oldest = m)'
  BY OldestFacts, CellsFacts, CellFacts, OldestIs, PTL
<1>2. QED
  BY <1>1

-----------------------------------------------------------------------------
(* The same cells one step later.                                          *)
LEMMA SameCells ==
  ASSUME Types, TurnInv, Types', TurnInv', enqPos' = enqPos, Oldest' = Oldest,
         ASSUME NEW p \in Nat, Oldest <= p, p < enqPos PROVE CellAt(p)' = CellAt(p)
  PROVE  Cells' = Cells
<1>1. WindowStart /\ WindowShape /\ WindowShape'
  BY OldestFacts, CellsFacts, NextFacts
<1>2. ASSUME NEW k \in 1..(enqPos - Oldest)
      PROVE  CellAt(Oldest + k - 1)' = CellAt(Oldest + k - 1)
  <2>1. PICK p \in Nat : p = Oldest + k - 1 /\ Oldest <= p /\ p < enqPos
    BY <1>1 DEF WindowStart, Types
  <2>2. CellAt(p)' = CellAt(p)
    BY <2>1
  <2>3. p = Oldest' + k - 1
    BY <2>1
  <2>4. QED
    BY <2>1, <2>2, <2>3
<1>3. QED
  BY <1>2 DEF Cells

(* A step that leaves the claims and the payloads where they are, or moves *)
(* a payload between a slot and the thread that owns it.                   *)
StillClaimed ==
  /\ UNCHANGED <<enqPos, deqPos>>
  /\ \A t \in Movers : /\ Writing(t) <=> Writing(t)'
                       /\ Reading(t) <=> Reading(t)'
                       /\ Writing(t) \/ Reading(t) => pos'[t] = pos[t]
  /\ \A w \in Producers : Writing(w) => item'[w] = item[w]
  /\ \A c \in Consumers, p \in Nat :
       Reading(c) /\ pos[c] = p => TakenCell(c, p)' = TakenCell(c, p)
  /\ \A p \in Nat : deqPos <= p /\ p < enqPos /\ ~ClaimedAt(p) =>
       slot'[Index(p)] = slot[Index(p)]

(* Such a step shows the same window.                                      *)
LEMMA StillCells ==
  ASSUME Types, TurnInv, Types', TurnInv', StillClaimed
  PROVE  Cells' = Cells
<1> USE DEF StillClaimed, Movers
<1>1. WindowStart /\ \A p \in Nat : CellKinds(p) /\ CellKinds(p)'
  BY OldestFacts, CellFacts, NextFacts
<1>2. Oldest' = Oldest
  <2>1. PICK m \in Nat : m = Oldest
    BY <1>1 DEF WindowStart
  <2>2. IsOldest(m)'
    BY <1>1, <2>1 DEF WindowStart, IsOldest
  <2>3. QED
    BY <2>1, <2>2, NextFacts
<1>3. ASSUME NEW p \in Nat, Oldest <= p, p < enqPos
      PROVE  CellAt(p)' = CellAt(p)
  <2>1. /\ TakenAt(p) <=> TakenAt(p)'
        /\ ClaimedAt(p) <=> ClaimedAt(p)'
    BY DEF TakenAt, ClaimedAt
  <2>2. CellKinds(p) /\ CellKinds(p)'
    BY <1>1
  <2>3. CASE TakenAt(p)
    <3>1. PICK c \in Consumers : Reading(c) /\ pos[c] = p
      BY <2>3 DEF TakenAt
    <3>2. Reading(c)' /\ pos'[c] = p /\ TakenCell(c, p)' = TakenCell(c, p)
      BY <3>1
    <3>3. QED
      BY <2>2, <3>1, <3>2 DEF CellKinds
  <2>4. CASE ClaimedAt(p)
    <3>1. PICK w \in Producers : Writing(w) /\ pos[w] = p
      BY <2>4 DEF ClaimedAt
    <3>2. Writing(w)' /\ pos'[w] = p /\ item'[w] = item[w]
      BY <3>1
    <3>3. QED
      BY <2>2, <3>1, <3>2 DEF CellKinds
  <2>5. CASE ~TakenAt(p) /\ ~ClaimedAt(p)
    <3>1. CASE p < deqPos
      BY <2>1, <2>2, <2>5, <3>1 DEF CellKinds
    <3>2. CASE deqPos <= p
      BY <1>3, <2>1, <2>2, <2>5, <3>2 DEF CellKinds
    <3>3. QED
      BY <3>1, <3>2 DEF Types
  <2>6. QED
    BY <2>3, <2>4, <2>5
<1>4. QED
  BY <1>2, <1>3, SameCells

-----------------------------------------------------------------------------
(* Each action of the ring is a step of the queue or leaves it unchanged.  *)
QueueStep == [Queue!Next]_(Queue!vars)

(* The first load of try_enqueue: the queue is offered the request.        *)
LEMMA EnqLoadOffers ==
  ASSUME RefInv, RefInv', NEW p \in Producers, NEW x \in unsent, EnqLoad(p, x)
  PROVE  QueueStep
<1> USE ThreadAssumption DEF RefInv, Types, Movers, Threads
<1>1. /\ pc[p] = "idle" /\ pc'[p] = "stamp" /\ item'[p] = x
      /\ \A t \in Threads : t # p => pc'[t] = pc[t]
      /\ \A t \in Movers : t # p => item'[t] = item[t] /\ pos'[t] = pos[t]
      /\ UNCHANGED <<ringVars, shed, delivered>> /\ unsent' = unsent \ {x}
  BY DEF EnqLoad, Goto, Load
<1>2. StillClaimed
  BY <1>1 DEF StillClaimed, Writing, Reading, TakenCell, ringVars
<1>3. Cells' = Cells
  BY <1>2, StillCells
<1>4. Waiting' = Waiting \union {x}
  BY <1>1 DEF Waiting
<1>5. Queue!Offer(x)
  BY <1>1, <1>3, <1>4 DEF Queue!Offer
<1>6. QED
  BY <1>5 DEF QueueStep, Queue!Next

(* Rereading a position, a lost CAS and the payload write: nothing that    *)
(* the queue shows.                                                        *)
LEMMA EnqueueStutters ==
  ASSUME RefInv, RefInv', NEW p \in Producers,
         EnqReload(p) \/ EnqCasFails(p) \/ EnqWrite(p)
  PROVE  QueueStep
<1> USE ThreadAssumption DEF RefInv, Movers, Threads
<1>1. /\ \A t \in Threads : t # p => pc'[t] = pc[t]
      /\ \A t \in Movers : t # p => pos'[t] = pos[t]
      /\ UNCHANGED <<enqPos, deqPos, item, itemVars>>
      /\ \/ /\ {pc[p], pc'[p]} \subseteq {"stamp", "reload", "cas"}
            /\ UNCHANGED slot
         \/ /\ pc[p] = "write" /\ pc'[p] = "publish" /\ pos'[p] = pos[p]
            /\ slot' = [slot EXCEPT ![Index(pos[p])] = item[p]]
  BY DEF Types, EnqReload, EnqCasFails, EnqWrite, Goto, Load, ringVars
<1>2. StillClaimed
  <2>1. CASE UNCHANGED slot
    BY <1>1, <2>1 DEF StillClaimed, Writing, Reading, TakenCell
  <2>2. CASE pc[p] = "write"
    <3>1. Writing(p) /\ deqPos <= pos[p] /\ pos[p] < enqPos /\ pos[p] \in Nat
      BY <2>2 DEF Writing, TurnInv, WriterTurns, Types
    <3>2. ASSUME NEW q \in Int, q # pos[p],
                 enqPos - Capacity <= q, q < deqPos + Capacity
          PROVE  slot'[Index(q)] = slot[Index(q)]
      <4>1. Index(q) # Index(pos[p])
        BY <3>1, <3>2, ClaimedSlots
      <4>2. QED
        BY <1>1, <2>2, <4>1, IndexFacts DEF Types
    <3>3. ASSUME NEW c \in Consumers, NEW q \in Nat, Reading(c), pos[c] = q
          PROVE  TakenCell(c, q)' = TakenCell(c, q)
      <4>1. enqPos - Capacity <= q /\ q < deqPos
        BY <3>3 DEF TurnInv, ReaderTurns
      <4>2. slot'[Index(q)] = slot[Index(q)]
        BY <3>1, <3>2, <4>1, CapacityAssumption DEF Types
      <4>3. QED
        BY <1>1, <4>2 DEF TakenCell
    <3>4. ASSUME NEW q \in Nat, deqPos <= q, q < enqPos, ~ClaimedAt(q)
          PROVE  slot'[Index(q)] = slot[Index(q)]
      <4>1. q # pos[p]
        BY <3>1, <3>4 DEF ClaimedAt
      <4>2. QED
        BY <3>2, <3>4, <4>1, CapacityAssumption
           DEF Types, TurnInv, WindowBounded
    <3>5. QED
      BY <1>1, <2>2, <3>3, <3>4 DEF StillClaimed, Writing, Reading
  <2>3. QED
    BY <1>1, <2>1, <2>2
<1>3. Cells' = Cells
  BY <1>2, StillCells
<1>4. Waiting' = Waiting
  BY <1>1 DEF Waiting
<1>5. QED
  BY <1>1, <1>3, <1>4 DEF QueueStep, Queue!vars, itemVars

(* A stamp behind the position read is that of the last lap: the window    *)
(* holds Capacity cells, whatever has happened since the position was      *)
(* loaded.                                                                 *)
LEMMA BehindIsFull ==
  ASSUME Types, TurnInv, NEW p \in Producers, pc[p] = "stamp",
         stamp[Index(pos[p])] < pos[p]
  PROVE  enqPos - Oldest = Capacity
<1> USE CapacityAssumption DEF Types, Movers
<1>1. WindowStart /\ pos[p] \in Nat /\ pos[p] <= enqPos
  BY OldestFacts DEF TurnInv, ProducerSees
<1>2. PICK q \in Nat : /\ deqPos <= q /\ q < deqPos + Capacity
                       /\ Index(q) = Index(pos[p])
  <2> DEFINE i == Index(pos[p])
  <2>1. i \in Slots
    BY <1>1, IndexFacts
  <2> HIDE DEF i
  <2>2. \E q \in Nat : deqPos <= q /\ q < deqPos + Capacity /\ Index(q) = i
    BY <2>1, LapCoversSlots
  <2>3. QED
    BY <2>2 DEF i
<1>3. CASE q < enqPos
  <2>1. stamp[Index(q)] >= q
    BY <1>2, <1>3 DEF TurnInv, ClaimedTurns, Written, Published
  <2>2. q < pos[p]
    <3>1. stamp[Index(q)] \in Nat /\ stamp[Index(q)] < pos[p]
      BY <1>2, IndexFacts
    <3>2. QED
      BY <1>1, <2>1, <3>1
  <2>3. q + Capacity <= pos[p]
    BY <1>1, <1>2, <2>2, OtherSlot
  <2>4. QED
    BY <1>1, <1>2, <2>3 DEF TurnInv, WindowBounded, WindowStart
<1>4. CASE q >= enqPos
  <2>1. Free(q) \/ Emptied(q)
    BY <1>2, <1>4 DEF TurnInv, UnclaimedTurns
  <2>2. ~Free(q)
    BY <1>1, <1>2, <1>4 DEF Free
  <2>3. Emptied(q)
    BY <2>1, <2>2
  <2>4. PICK c \in Consumers : Reading(c) /\ pos[c] = q - Capacity
    BY <2>3 DEF Emptied
  <2>5. q - Capacity + 1 < pos[p]
    BY <1>2, <2>3 DEF Emptied
  <2>6. q <= pos[p]
    <3>1. CASE q > pos[p]
      BY <1>1, <1>2, <2>5, <3>1, OtherSlot
    <3>2. QED
      BY <1>1, <3>1
  <2>7. Oldest <= q - Capacity
    BY <1>1, <2>4 DEF WindowStart
  <2>8. QED
    BY <1>1, <1>4, <2>6, <2>7 DEF WindowStart
<1>5. QED
  BY <1>3, <1>4

(* Reading the stamp: a refusal is one of the queue, anything else shows   *)
(* nothing.                                                                *)
LEMMA EnqStampRefines ==
  ASSUME RefInv, RefInv', NEW p \in Producers, EnqStamp(p)
  PROVE  QueueStep
<1> USE ThreadAssumption DEF RefInv, Movers, Threads
<1> DEFINE diff == stamp[Index(pos[p])] - pos[p]
<1>1. /\ \A t \in Threads : t # p => pc'[t] = pc[t]
      /\ \A t \in Movers : t # p => item'[t] = item[t]
      /\ pc[p] = "stamp" /\ pc'[p] \in {"idle", "cas", "reload"}
      /\ UNCHANGED <<ringVars, pos, unsent, delivered>>
  BY DEF Types, EnqStamp, Goto
<1>2. StillClaimed
  BY <1>1 DEF StillClaimed, Writing, Reading, TakenCell, ringVars
<1>3. Cells' = Cells
  BY <1>2, StillCells
<1>4. CASE UNCHANGED <<item, shed>> /\ pc'[p] # "idle"
  <2>1. Waiting' = Waiting
    BY <1>1, <1>4 DEF Waiting
  <2>2. QED
    BY <1>1, <1>3, <1>4, <2>1 DEF QueueStep, Queue!vars
<1>5. CASE diff < 0 /\ shed' = shed \union {item[p]} /\ pc'[p] = "idle"
  <2>1. item[p] \in Waiting /\ item[p] # None
    BY <1>1 DEF Waiting, TurnInv, Carries
  <2>2. Waiting' = Waiting \ {item[p]}
    <3>1. \A q \in Producers : item[q] = item[p] => q = p
      BY <2>1 DEF OwnItems
    <3>2. QED
      BY <1>1, <1>5, <3>1 DEF Waiting
  <2>3. Len(Cells) = Capacity
    <3>1. pos[p] \in Nat /\ stamp[Index(pos[p])] \in Nat
      BY IndexFacts DEF Types
    <3>2. stamp[Index(pos[p])] < pos[p]
      BY <1>5, <3>1
    <3>3. enqPos - Oldest = Capacity
      BY <1>1, <3>2, BehindIsFull
    <3>4. QED
      BY <3>3, CellsFacts DEF WindowShape
  <2>4. Queue!Refuse(item[p])
    BY <1>1, <1>3, <1>5, <2>1, <2>2, <2>3 DEF Queue!Refuse
  <2>5. QED
    BY <2>1, <2>4 DEF QueueStep, Queue!Next
<1>6. QED
  BY <1>4, <1>5 DEF EnqStamp, Goto, Types

(* Winning the CAS on enqueue_pos claims the next cell of the window.      *)
LEMMA EnqCasRefines ==
  ASSUME RefInv, RefInv', Capacity > 1, NEW p \in Producers, EnqCas(p)
  PROVE  QueueStep
<1> USE ThreadAssumption, CapacityAssumption DEF RefInv, Movers, Threads
<1>1. /\ \A t \in Threads : t # p => pc'[t] = pc[t]
      /\ pc[p] = "cas" /\ pc'[p] = "write" /\ pos[p] = enqPos
      /\ enqPos' = enqPos + 1
      /\ UNCHANGED <<deqPos, stamp, slot, pos, item, unsent, shed, delivered>>
  BY DEF Types, EnqCas, Goto, itemVars
<1>2. /\ Writing(p)' /\ ~Reading(p) /\ ~Writing(p)
      /\ \A t \in Movers : t # p => /\ Writing(t) <=> Writing(t)'
                                    /\ Reading(t) <=> Reading(t)'
      /\ \A c \in Consumers : Reading(c) <=> Reading(c)'
  BY <1>1 DEF Writing, Reading
<1>3. /\ WindowStart /\ WindowStart' /\ WindowShape /\ WindowShape'
      /\ \A q \in Nat : CellKinds(q) /\ CellKinds(q)'
  BY OldestFacts, CellsFacts, CellFacts, NextFacts
<1>4. Oldest' = Oldest
  <2>1. PICK m \in Nat : m = Oldest
    BY <1>3 DEF WindowStart
  <2>2. IsOldest(m)'
    BY <1>1, <1>2, <1>3, <2>1 DEF WindowStart, IsOldest
  <2>3. QED
    BY <2>1, <2>2, NextFacts
<1>5. ASSUME NEW q \in Nat, q < enqPos
      PROVE  CellAt(q)' = CellAt(q)
  <2>1. /\ TakenAt(q) <=> TakenAt(q)'
        /\ ClaimedAt(q) <=> ClaimedAt(q)'
    BY <1>1, <1>2, <1>5 DEF TakenAt, ClaimedAt, Types
  <2>2. CellKinds(q) /\ CellKinds(q)'
    BY <1>3
  <2>3. CASE TakenAt(q)
    <3>1. PICK c \in Consumers : Reading(c) /\ pos[c] = q
      BY <2>3 DEF TakenAt
    <3>2. Reading(c)' /\ pos'[c] = q /\ TakenCell(c, q)' = TakenCell(c, q)
      BY <1>1, <1>2, <3>1 DEF TakenCell
    <3>3. QED
      BY <2>2, <3>1, <3>2 DEF CellKinds
  <2>4. CASE ClaimedAt(q)
    <3>1. PICK w \in Producers : Writing(w) /\ pos[w] = q
      BY <2>4 DEF ClaimedAt
    <3>2. Writing(w)' /\ pos'[w] = q /\ item'[w] = item[w]
      BY <1>1, <1>2, <3>1
    <3>3. QED
      BY <2>2, <3>1, <3>2 DEF CellKinds
  <2>5. CASE ~TakenAt(q) /\ ~ClaimedAt(q)
    BY <1>1, <2>1, <2>2, <2>5 DEF CellKinds, Types
  <2>6. QED
    BY <2>3, <2>4, <2>5
<1> DEFINE x == item[p]
           cell == [item |-> x, stage |-> "writing"]
           n == enqPos - Oldest
<1>6. x \in Items
  BY <1>1 DEF Types, TurnInv, Carries
<1>7. ASSUME NEW q \in Nat, q = enqPos PROVE CellAt(q)' = cell
  <2>1. Writing(p)' /\ pos'[p] = q /\ item'[p] = x /\ CellKinds(q)'
    BY <1>1, <1>2, <1>3, <1>7
  <2>2. QED
    BY <2>1 DEF CellKinds
<1>8. n \in 0..Capacity /\ n < Capacity /\ Len(Cells) = n /\ n + 1 = enqPos' - Oldest'
  BY <1>1, <1>3, <1>4 DEF WindowShape, WindowStart, Types
<1>9. Cells' = Append(Cells, cell)
  <2>1. /\ Append(Cells, cell) \in Seq(Cell) /\ Len(Append(Cells, cell)) = n + 1
        /\ \A k \in 1..n : Append(Cells, cell)[k] = Cells[k]
        /\ Append(Cells, cell)[n + 1] = cell
    <3>1. cell \in Cell /\ Cells \in Seq(Cell)
      BY <1>3, <1>6 DEF Cell, Queue!Stages, WindowShape
    <3>2. QED
      BY <1>8, <3>1, AppendProperties
  <2>2. Cells' \in Seq(Cell) /\ Len(Cells') = n + 1
    BY <1>3, <1>8 DEF WindowShape, Cell
  <2>3. ASSUME NEW k \in 1..(n + 1)
        PROVE  Cells'[k] = Append(Cells, cell)[k]
    <3>1. PICK q \in Nat : q = Oldest + k - 1 /\ q <= enqPos
      BY <1>3, <1>8 DEF WindowStart, Types
    <3>2. Cells'[k] = CellAt(q)'
      BY <1>3, <1>4, <1>8, <3>1 DEF WindowShape
    <3>3. CASE k \in 1..n
      <4>1. q < enqPos /\ Cells[k] = CellAt(q)
        BY <1>3, <1>8, <3>1, <3>3 DEF WindowShape, WindowStart, Types
      <4>2. QED
        BY <1>5, <2>1, <3>2, <3>3, <4>1
    <3>4. CASE k = n + 1
      <4>1. q = enqPos
        BY <1>3, <3>1, <3>4 DEF WindowStart, Types
      <4>2. QED
        BY <1>7, <2>1, <3>2, <3>4, <4>1
    <3>5. QED
      BY <1>8, <3>3, <3>4
  <2>4. QED
    BY <2>1, <2>2, <2>3, SeqEqual
<1>10. x \in Waiting /\ Waiting' = Waiting \ {x}
  <2>1. \A q \in Producers : item[q] = item[p] => q = p
    BY <1>6, ItemAssumption DEF OwnItems
  <2>2. QED
    BY <1>1, <2>1 DEF Waiting
<1>11. Queue!Claim(x)
  BY <1>1, <1>8, <1>9, <1>10 DEF Queue!Claim
<1>12. QED
  BY <1>10, <1>11 DEF QueueStep, Queue!Next

(* One cell of the window changes.                                         *)
LEMMA OneCell ==
  ASSUME Types, TurnInv, Types', TurnInv', enqPos' = enqPos, Oldest' = Oldest,
         NEW p \in Nat, Oldest <= p, p < enqPos,
         ASSUME NEW q \in Nat, Oldest <= q, q < enqPos, q # p
         PROVE  CellAt(q)' = CellAt(q)
  PROVE  \E k \in 1..Len(Cells) :
           /\ p = Oldest + k - 1
           /\ Cells[k] = CellAt(p)
           /\ Cells' = [Cells EXCEPT ![k] = CellAt(p)']
<1>1. WindowStart /\ WindowShape /\ WindowShape'
  BY OldestFacts, CellsFacts, NextFacts
<1> DEFINE n == enqPos - Oldest
           k == p - Oldest + 1
<1>2. n \in 0..Capacity /\ Len(Cells) = n /\ k \in 1..n /\ p = Oldest + k - 1
  BY <1>1 DEF WindowStart, WindowShape, Types
<1>3. ASSUME NEW j \in 1..n
      PROVE  /\ j = k => Cells'[j] = CellAt(p)' /\ Cells[j] = CellAt(p)
             /\ j # k => Cells'[j] = Cells[j]
  <2>1. PICK q \in Nat : q = Oldest + j - 1 /\ Oldest <= q /\ q < enqPos
    BY <1>1 DEF WindowStart, Types
  <2>2. Cells[j] = CellAt(q) /\ Cells'[j] = CellAt(q)'
    BY <1>1, <2>1 DEF WindowShape
  <2>3. j = k <=> q = p
    BY <1>1, <2>1 DEF WindowStart
  <2>4. j # k => CellAt(q)' = CellAt(q)
    BY <2>1, <2>3
  <2>5. QED
    BY <2>2, <2>3, <2>4
<1>4. /\ Cells = [j \in 1..n |-> Cells[j]]
      /\ Cells' = [j \in 1..n |-> Cells'[j]]
  BY DEF Cells
<1>5. Cells' = [Cells EXCEPT ![k] = CellAt(p)']
  <2>1. \A j \in 1..n : Cells'[j] = IF j = k THEN CellAt(p)' ELSE Cells[j]
    BY <1>3
  <2> DEFINE new == CellAt(p)'
             old == Cells
             nxt == Cells'
  <2>2. /\ old = [j \in 1..n |-> old[j]] /\ nxt = [j \in 1..n |-> nxt[j]]
        /\ \A j \in 1..n : nxt[j] = IF j = k THEN new ELSE old[j]
    BY <1>4, <2>1
  <2> HIDE DEF new, old, nxt, n, k
  <2>3. nxt = [old EXCEPT ![k] = new]
    BY <2>2
  <2>4. QED
    BY <2>3 DEF new, old, nxt
<1>6. QED
  BY <1>2, <1>3, <1>5

(* The stamp store of try_enqueue makes the claimed cell ready.            *)
LEMMA EnqPublishRefines ==
  ASSUME RefInv, RefInv', NEW p \in Producers, EnqPublish(p)
  PROVE  QueueStep
<1> USE ThreadAssumption, CapacityAssumption DEF RefInv, Movers, Threads
<1>1. /\ \A t \in Threads : t # p => pc'[t] = pc[t]
      /\ \A t \in Movers : t # p => item'[t] = item[t]
      /\ pc[p] = "publish" /\ pc'[p] = "idle"
      /\ UNCHANGED <<enqPos, deqPos, slot, pos, unsent, shed, delivered>>
  BY DEF Types, EnqPublish, Goto, itemVars
<1>2. /\ Writing(p) /\ ~Writing(p)' /\ ~Reading(p)
      /\ \A t \in Movers : t # p => (Writing(t) <=> Writing(t)')
      /\ \A c \in Consumers : /\ Reading(c) <=> Reading(c)'
                              /\ item'[c] = item[c] /\ pc'[c] = pc[c]
  BY <1>1 DEF Writing, Reading
<1>3. /\ WindowStart /\ WindowStart'
      /\ \A q \in Nat : CellKinds(q) /\ CellKinds(q)'
  BY OldestFacts, CellFacts, NextFacts
<1>4. Oldest' = Oldest
  <2>1. PICK m \in Nat : m = Oldest
    BY <1>3 DEF WindowStart
  <2>2. IsOldest(m)'
    BY <1>1, <1>2, <1>3, <2>1 DEF WindowStart, IsOldest
  <2>3. QED
    BY <2>1, <2>2, NextFacts
<1>5. PICK v \in Nat : v = pos[p]
  BY DEF Types
<1>6. /\ deqPos <= v /\ v < enqPos
      /\ \A w \in Producers : Writing(w) /\ pos[w] = v => w = p
  BY <1>2, <1>5 DEF TurnInv, WriterTurns
<1>7. ASSUME NEW q \in Nat, Oldest <= q, q < enqPos, q # v
      PROVE  CellAt(q)' = CellAt(q)
  <2>1. /\ TakenAt(q) <=> TakenAt(q)'
        /\ ClaimedAt(q) <=> ClaimedAt(q)'
    BY <1>1, <1>2, <1>5, <1>7 DEF TakenAt, ClaimedAt
  <2>2. CellKinds(q) /\ CellKinds(q)'
    BY <1>3
  <2>3. CASE TakenAt(q)
    <3>1. PICK c \in Consumers : Reading(c) /\ pos[c] = q
      BY <2>3 DEF TakenAt
    <3>2. Reading(c)' /\ pos'[c] = q /\ TakenCell(c, q)' = TakenCell(c, q)
      BY <1>1, <1>2, <3>1 DEF TakenCell
    <3>3. QED
      BY <2>2, <3>1, <3>2 DEF CellKinds
  <2>4. CASE ClaimedAt(q)
    <3>1. PICK w \in Producers : Writing(w) /\ pos[w] = q
      BY <2>4 DEF ClaimedAt
    <3>2. w # p
      BY <1>5, <1>7, <3>1
    <3>3. Writing(w)' /\ pos'[w] = q /\ item'[w] = item[w]
      BY <1>1, <1>2, <3>1, <3>2
    <3>4. QED
      BY <2>2, <3>1, <3>3 DEF CellKinds
  <2>5. CASE ~TakenAt(q) /\ ~ClaimedAt(q)
    BY <1>1, <2>1, <2>2, <2>5 DEF CellKinds, Types
  <2>6. QED
    BY <2>3, <2>4, <2>5
<1>8. CellAt(v) = [item |-> item[p], stage |-> "writing"]
  BY <1>2, <1>3, <1>5 DEF CellKinds
<1>9. CellAt(v)' = [item |-> item[p], stage |-> "ready"]
  <2>1. ~ClaimedAt(v)'
    BY <1>1, <1>2, <1>6 DEF ClaimedAt
  <2>2. slot'[Index(v)] = item[p]
    BY <1>1, <1>2, <1>5 DEF TurnInv, WriterTurns
  <2>3. QED
    BY <1>1, <1>3, <1>6, <2>1, <2>2 DEF CellKinds
<1>10. PICK k \in 1..Len(Cells) :
         /\ Cells[k] = CellAt(v)
         /\ Cells' = [Cells EXCEPT ![k] = CellAt(v)']
  <2>1. Oldest <= v
    BY <1>3, <1>6 DEF WindowStart, Types
  <2>2. QED
    BY <1>1, <1>4, <1>6, <1>7, <2>1, OneCell
<1>11. k \in DOMAIN Cells /\ Cells' = Queue!Staged(k, "ready")
  <2>1. k \in DOMAIN Cells
    BY <1>10, CellsFacts DEF WindowShape, Cells
  <2>2. QED
    BY <1>8, <1>9, <1>10, <2>1 DEF Queue!Staged
<1>12. Waiting' = Waiting
  BY <1>1 DEF Waiting
<1>13. Queue!Publish(k)
  BY <1>1, <1>8, <1>10, <1>11, <1>12 DEF Queue!Publish
<1>14. QED
  BY <1>11, <1>13 DEF QueueStep, Queue!Next

(* Loading and reading stamps, lost CASes and the payload's move out of    *)
(* the slot: nothing that the queue shows.                                 *)
LEMMA DequeueStutters ==
  ASSUME RefInv, RefInv', NEW c \in Consumers,
         DeqLoad(c) \/ DeqStamp(c) \/ DeqReload(c) \/ DeqCasFails(c) \/ DeqRead(c)
  PROVE  QueueStep
<1> USE ThreadAssumption, CapacityAssumption DEF RefInv, Movers, Threads
<1>1. /\ \A t \in Threads : t # c => pc'[t] = pc[t]
      /\ \A t \in Movers : t # c => pos'[t] = pos[t] /\ item'[t] = item[t]
      /\ UNCHANGED <<enqPos, deqPos, itemVars>>
      /\ \/ /\ {pc[c], pc'[c]} \subseteq {"idle", "stamp", "reload", "cas"}
            /\ UNCHANGED slot
         \/ /\ pc[c] = "read" /\ pc'[c] = "free" /\ pos'[c] = pos[c]
            /\ slot' = [slot EXCEPT ![Index(pos[c])] = None]
            /\ item'[c] = slot[Index(pos[c])]
  BY DEF Types, DeqLoad, DeqStamp, DeqReload, DeqCasFails, DeqRead, Goto, Load,
         ringVars
<1>2. StillClaimed
  <2>1. CASE UNCHANGED slot /\ pc[c] # "read"
    BY <1>1, <2>1 DEF StillClaimed, Writing, Reading, TakenCell
  <2>2. CASE pc[c] = "read"
    <3>1. /\ Reading(c) /\ enqPos - Capacity <= pos[c] /\ pos[c] < deqPos
          /\ pos[c] \in Nat
          /\ \A s \in Consumers : Reading(s) /\ pos[s] = pos[c] => s = c
      BY <2>2 DEF Reading, TurnInv, ReaderTurns, Types
    <3>2. ASSUME NEW q \in Int, q # pos[c],
                 enqPos - Capacity <= q, q < enqPos
          PROVE  slot'[Index(q)] = slot[Index(q)]
      <4>1. Index(q) # Index(pos[c])
        BY <3>1, <3>2, OtherSlot DEF Types, TurnInv, WindowBounded
      <4>2. QED
        BY <1>1, <2>2, <4>1, IndexFacts DEF Types
    <3>3. ASSUME NEW d \in Consumers, NEW q \in Nat, Reading(d), pos[d] = q
          PROVE  TakenCell(d, q)' = TakenCell(d, q)
      <4>1. CASE d = c
        BY <1>1, <2>2, <3>3, <4>1 DEF TakenCell, Types
      <4>2. CASE d # c
        <5>1. q # pos[c] /\ enqPos - Capacity <= q /\ q < enqPos
          BY <3>1, <3>3, <4>2 DEF TurnInv, ReaderTurns, WindowBounded, Types
        <5>2. slot'[Index(q)] = slot[Index(q)]
          BY <3>2, <5>1
        <5>3. QED
          BY <1>1, <4>2, <5>2 DEF TakenCell
      <4>3. QED
        BY <4>1, <4>2
    <3>4. ASSUME NEW q \in Nat, deqPos <= q, q < enqPos, ~ClaimedAt(q)
          PROVE  slot'[Index(q)] = slot[Index(q)]
      BY <3>1, <3>2, <3>4 DEF Types, TurnInv, WindowBounded
    <3>5. QED
      BY <1>1, <2>2, <3>3, <3>4 DEF StillClaimed, Writing, Reading
  <2>3. QED
    BY <1>1, <2>1, <2>2
<1>3. Cells' = Cells
  BY <1>2, StillCells
<1>4. Waiting' = Waiting
  BY <1>1 DEF Waiting
<1>5. QED
  BY <1>1, <1>3, <1>4 DEF QueueStep, Queue!vars, itemVars

(* len() only looks.                                                       *)
LEMMA LenStutters ==
  ASSUME RefInv, RefInv', NEW o \in Observers, LenDeq(o) \/ LenEnq(o)
  PROVE  QueueStep
<1> USE ThreadAssumption DEF RefInv, Movers, Threads
<1>1. /\ \A t \in Movers : pc'[t] = pc[t]
      /\ UNCHANGED <<ringVars, pos, item, itemVars>>
  BY DEF Types, LenDeq, LenEnq, Goto
<1>2. StillClaimed
  BY <1>1 DEF StillClaimed, Writing, Reading, TakenCell, ringVars
<1>3. Cells' = Cells
  BY <1>2, StillCells
<1>4. Waiting' = Waiting
  BY <1>1 DEF Waiting
<1>5. QED
  BY <1>1, <1>3, <1>4 DEF QueueStep, Queue!vars, itemVars

(* Winning the CAS on dequeue_pos takes the oldest cell not taken yet,     *)
(* which is ready.                                                         *)
LEMMA DeqCasRefines ==
  ASSUME RefInv, RefInv', Capacity > 1, NEW c \in Consumers, DeqCas(c)
  PROVE  QueueStep
<1> USE ThreadAssumption, CapacityAssumption DEF RefInv, Movers, Threads
<1>1. /\ \A t \in Threads : t # c => pc'[t] = pc[t]
      /\ pc[c] = "cas" /\ pc'[c] = "read" /\ pos[c] = deqPos
      /\ deqPos' = deqPos + 1
      /\ UNCHANGED <<enqPos, stamp, slot, pos, item, unsent, shed, delivered>>
  BY DEF Types, DeqCas, Goto, itemVars
<1>2. /\ Reading(c)' /\ ~Reading(c)
      /\ \A t \in Movers : t # c => (Reading(t) <=> Reading(t)')
      /\ \A w \in Producers : Writing(w) <=> Writing(w)'
  BY <1>1 DEF Writing, Reading
<1>3. /\ WindowStart /\ WindowStart'
      /\ \A q \in Nat : CellKinds(q) /\ CellKinds(q)'
  BY OldestFacts, CellFacts, NextFacts
<1>4. Published(deqPos) /\ deqPos < enqPos
  BY DeqCasTakes
<1>5. PICK v \in Nat : v = deqPos
  BY DEF Types
<1>6. Oldest' = Oldest
  <2>1. PICK m \in Nat : m = Oldest
    BY <1>3 DEF WindowStart
  <2>2. /\ m <= deqPos' /\ \A d \in Consumers : Reading(d)' => m <= pos'[d]
    BY <1>1, <1>2, <1>3, <2>1 DEF WindowStart, Types
  <2>3. \E d \in Consumers : Reading(d)' /\ pos'[d] = m
    <3>1. CASE m = deqPos
      BY <1>1, <1>2, <3>1
    <3>2. CASE m # deqPos
      BY <1>1, <1>2, <1>3, <2>1, <3>2 DEF WindowStart
    <3>3. QED
      BY <3>1, <3>2
  <2>4. IsOldest(m)'
    BY <2>2, <2>3 DEF IsOldest
  <2>5. QED
    BY <2>1, <2>4, NextFacts
<1>7. ASSUME NEW q \in Nat, q # v
      PROVE  /\ CellAt(q)' = CellAt(q)
             /\ q < v => CellAt(q).stage \in {"reading", "released"}
  <2>1. /\ TakenAt(q) <=> TakenAt(q)'
        /\ ClaimedAt(q) <=> ClaimedAt(q)'
    BY <1>1, <1>2, <1>5, <1>7 DEF TakenAt, ClaimedAt
  <2>2. CellKinds(q) /\ CellKinds(q)' /\ (q < deqPos <=> q < deqPos')
    BY <1>1, <1>3, <1>5, <1>7 DEF Types
  <2>3. CASE TakenAt(q)
    <3>1. PICK d \in Consumers : Reading(d) /\ pos[d] = q
      BY <2>3 DEF TakenAt
    <3>2. d # c
      BY <1>2, <3>1
    <3>3. Reading(d)' /\ pos'[d] = q /\ TakenCell(d, q)' = TakenCell(d, q)
      BY <1>1, <1>2, <3>1, <3>2 DEF TakenCell
    <3>4. QED
      BY <2>2, <3>1, <3>3 DEF CellKinds, TakenCell
  <2>4. CASE ClaimedAt(q)
    <3>1. PICK w \in Producers : Writing(w) /\ pos[w] = q
      BY <2>4 DEF ClaimedAt
    <3>2. Writing(w)' /\ pos'[w] = q /\ item'[w] = item[w]
      BY <1>1, <1>2, <3>1
    <3>3. ~(q < v)
      BY <1>5, <3>1 DEF TurnInv, WriterTurns, Types
    <3>4. QED
      BY <2>2, <3>1, <3>2, <3>3 DEF CellKinds
  <2>5. CASE ~TakenAt(q) /\ ~ClaimedAt(q)
    <3>1. CASE q < deqPos
      BY <2>1, <2>2, <2>5, <3>1 DEF CellKinds
    <3>2. CASE ~(q < deqPos)
      BY <1>1, <1>5, <2>1, <2>2, <2>5, <3>2 DEF CellKinds, Types
    <3>3. QED
      BY <3>1, <3>2
  <2>6. QED
    BY <2>3, <2>4, <2>5
<1>8. CellAt(v) = [item |-> slot[Index(v)], stage |-> "ready"]
  <2>1. ~ClaimedAt(v)
    BY <1>4, <1>5 DEF ClaimedAt, TurnInv, WriterTurns, Published, Types
  <2>2. QED
    BY <1>3, <1>5, <2>1 DEF CellKinds, Types
<1>9. CellAt(v)' = [item |-> slot[Index(v)], stage |-> "reading"]
  <2>1. Reading(c)' /\ pos'[c] = v
    BY <1>1, <1>2, <1>5
  <2>2. CellAt(v)' = TakenCell(c, v)'
    BY <1>3, <2>1 DEF CellKinds
  <2>3. QED
    BY <1>1, <2>2 DEF TakenCell
<1>10. PICK k \in 1..Len(Cells) :
         /\ v = Oldest + k - 1
         /\ Cells[k] = CellAt(v)
         /\ Cells' = [Cells EXCEPT ![k] = CellAt(v)']
  <2>1. Oldest <= v /\ v < enqPos
    BY <1>3, <1>4, <1>5 DEF WindowStart
  <2>2. QED
    BY <1>1, <1>6, <1>7, <2>1, OneCell
<1>11. k \in DOMAIN Cells /\ Cells' = Queue!Staged(k, "reading")
  <2>1. k \in DOMAIN Cells
    BY <1>10, CellsFacts DEF WindowShape, Cells
  <2>2. Cells[k].item = slot[Index(v)]
    BY <1>8, <1>10
  <2>3. CellAt(v)' = [item |-> Cells[k].item, stage |-> "reading"]
    BY <1>9, <2>2
  <2>4. QED
    BY <1>10, <2>1, <2>3 DEF Queue!Staged
<1>12. ASSUME NEW j \in 1..(k - 1)
       PROVE  Cells[j].stage \in {"reading", "released"}
  <2>1. WindowShape
    BY CellsFacts
  <2>2. PICK q \in Nat : q = Oldest + j - 1
    BY <1>3 DEF WindowStart
  <2>3. q < v /\ j \in 1..(enqPos - Oldest)
    BY <1>3, <1>10, <2>1, <2>2 DEF WindowStart, WindowShape
  <2>4. Cells[j] = CellAt(q)
    BY <2>1, <2>2, <2>3 DEF WindowShape
  <2>5. QED
    BY <1>7, <2>3, <2>4
<1>13. Waiting' = Waiting
  BY <1>1 DEF Waiting
<1>14. Queue!Take(k)
  BY <1>1, <1>8, <1>10, <1>11, <1>12, <1>13 DEF Queue!Take
<1>15. QED
  BY <1>11, <1>14 DEF QueueStep, Queue!Next

(* Where the window begins once its released prefix has left.              *)
LEMMA FirstLive ==
  ASSUME NEW s \in Seq(Cell), NEW f \in 1..(Len(s) + 1),
         \A j \in 1..Len(s) : j < f => s[j].stage = "released",
         f <= Len(s) => s[f].stage # "released"
  PROVE  LET live == {j \in DOMAIN s : s[j].stage # "released"}
         IN  f = IF live = {} THEN Len(s) + 1
                 ELSE CHOOSE j \in live : \A i \in live : j <= i
<1> DEFINE live == {j \in DOMAIN s : s[j].stage # "released"}
<1>1. Len(s) \in Nat /\ DOMAIN s = 1..Len(s)
  BY LenProperties
<1>2. live \subseteq 1..Len(s) /\ \A i \in live : f <= i
  BY <1>1
<1>3. CASE f = Len(s) + 1
  <2>1. live = {}
    BY <1>1, <1>2, <1>3
  <2>2. QED
    BY <1>3, <2>1
<1>4. CASE f <= Len(s)
  <2>1. f \in live
    BY <1>1, <1>4
  <2> HIDE DEF live
  <2>2. \A j \in live : (\A i \in live : j <= i) => j = f
    BY <1>1, <1>2, <2>1
  <2>3. f = CHOOSE j \in live : \A i \in live : j <= i
    BY <1>2, <2>1, <2>2
  <2>4. QED
    BY <2>1, <2>3 DEF live
<1>5. QED
  BY <1>1, <1>3, <1>4

(* The stamp store of try_dequeue releases the cell, and with it the cells *)
(* released before that it was holding back.                               *)
LEMMA DeqFreeRefines ==
  ASSUME RefInv, RefInv', NEW c \in Consumers, DeqFree(c)
  PROVE  QueueStep
<1> USE ThreadAssumption, CapacityAssumption DEF RefInv, Movers, Threads
<1>1. /\ \A t \in Threads : t # c => pc'[t] = pc[t]
      /\ \A t \in Movers : t # c => item'[t] = item[t]
      /\ pc[c] = "free" /\ pc'[c] = "idle"
      /\ UNCHANGED <<enqPos, deqPos, slot, pos, unsent, shed>>
      /\ delivered' = delivered \union {item[c]}
  BY DEF Types, DeqFree, Goto
<1>2. /\ Reading(c) /\ ~Reading(c)'
      /\ \A t \in Movers : t # c => (Reading(t) <=> Reading(t)')
      /\ \A w \in Producers : Writing(w) <=> Writing(w)'
  BY <1>1 DEF Writing, Reading
<1>3. /\ WindowStart /\ WindowStart' /\ WindowShape /\ WindowShape'
      /\ \A q \in Nat : CellKinds(q) /\ CellKinds(q)'
  BY OldestFacts, CellsFacts, CellFacts, NextFacts
<1>4. PICK v \in Nat : v = pos[c]
  BY DEF Types
<1>5. /\ Oldest <= v /\ v < deqPos /\ v < enqPos
      /\ \A d \in Consumers : Reading(d) /\ pos[d] = v => d = c
  BY <1>2, <1>3, <1>4
     DEF TurnInv, ReaderTurns, WindowBounded, WindowStart, Types
<1>6. ASSUME NEW q \in Nat, q # v PROVE CellAt(q)' = CellAt(q)
  <2>1. /\ TakenAt(q) <=> TakenAt(q)'
        /\ ClaimedAt(q) <=> ClaimedAt(q)'
    BY <1>1, <1>2, <1>4, <1>6 DEF TakenAt, ClaimedAt
  <2>2. CellKinds(q) /\ CellKinds(q)'
    BY <1>3
  <2>3. CASE TakenAt(q)
    <3>1. PICK d \in Consumers : Reading(d) /\ pos[d] = q
      BY <2>3 DEF TakenAt
    <3>2. d # c
      BY <1>4, <1>6, <3>1
    <3>3. Reading(d)' /\ pos'[d] = q /\ TakenCell(d, q)' = TakenCell(d, q)
      BY <1>1, <1>2, <3>1, <3>2 DEF TakenCell
    <3>4. QED
      BY <2>2, <3>1, <3>3 DEF CellKinds
  <2>4. CASE ClaimedAt(q)
    <3>1. PICK w \in Producers : Writing(w) /\ pos[w] = q
      BY <2>4 DEF ClaimedAt
    <3>2. Writing(w)' /\ pos'[w] = q /\ item'[w] = item[w]
      BY <1>1, <1>2, <3>1
    <3>3. QED
      BY <2>2, <3>1, <3>2 DEF CellKinds
  <2>5. CASE ~TakenAt(q) /\ ~ClaimedAt(q)
    BY <1>1, <2>1, <2>2, <2>5 DEF CellKinds, Types
  <2>6. QED
    BY <2>3, <2>4, <2>5
<1> DEFINE gone == [item |-> None, stage |-> "released"]
<1>7. CellAt(v) = [item |-> item[c], stage |-> "reading"]
  BY <1>1, <1>2, <1>3, <1>4 DEF CellKinds, TakenCell
<1>8. CellAt(v)' = gone
  <2>1. ~TakenAt(v)'
    BY <1>1, <1>2, <1>5 DEF TakenAt
  <2>2. QED
    BY <1>1, <1>3, <1>5, <2>1 DEF CellKinds
<1>a. PICK end \in Nat, old \in Nat, new \in Nat :
        end = enqPos /\ old = Oldest /\ new = Oldest'
  BY <1>3 DEF WindowStart, Types
<1> DEFINE n == end - old
           k == v - old + 1
           after == [Cells EXCEPT ![k] = gone]
           f == new - old + 1
<1>9. /\ n \in Nat /\ Len(Cells) = n /\ k \in 1..n /\ v = old + k - 1
      /\ Cells \in Seq(Cell) /\ Cells[k] = CellAt(v)
  <2>1. n \in Nat /\ k \in 1..n /\ v = old + k - 1
    BY <1>5, <1>a
  <2>2. Len(Cells) = n /\ Cells \in Seq(Cell) /\ Cells[k] = CellAt(v)
    BY <1>3, <1>a, <2>1 DEF WindowShape
  <2>3. QED
    BY <2>1, <2>2
<1>10. /\ after \in Seq(Cell) /\ Len(after) = n
       /\ \A j \in 1..n : after[j] = IF j = k THEN gone ELSE Cells[j]
  <2>1. gone \in Cell
    BY DEF Cell, Queue!Stages
  <2> HIDE DEF gone, n, k
  <2>2. QED
    BY <1>9, <2>1, ExceptSeq
<1>11. ASSUME NEW j \in 1..n, NEW q \in Nat, q = old + j - 1
       PROVE  after[j] = CellAt(q)'
  <2>1. Cells[j] = CellAt(q)
    BY <1>3, <1>a, <1>11 DEF WindowShape
  <2>2. j = k <=> q = v
    BY <1>11
  <2>3. QED
    BY <1>6, <1>8, <1>10, <2>1, <2>2
<1>12. old <= new /\ new <= end /\ enqPos' = end
  BY <1>1, <1>2, <1>3, <1>5, <1>a DEF WindowStart, WindowBounded, TurnInv, Types
<1>13. f \in 1..(n + 1) /\ n - f + 1 = enqPos' - Oldest'
  <2>1. f \in 1..(n + 1)
    BY <1>12
  <2>2. n - f + 1 = end - new
    OBVIOUS
  <2>3. enqPos' - Oldest' = end - new
    BY <1>a, <1>12
  <2>4. QED
    BY <2>1, <2>2, <2>3
<1>14. \A j \in 1..n : j < f => after[j].stage = "released"
  <2> SUFFICES ASSUME NEW j \in 1..n, j < f PROVE after[j].stage = "released"
    OBVIOUS
  <2>a. PICK q \in Nat : q = old + j - 1 /\ q < new
    OBVIOUS
  <2>1. q < Oldest'
    BY <1>a, <2>a
  <2>2. q < deqPos' /\ ~TakenAt(q)'
    BY <1>1, <1>3, <2>1 DEF WindowStart, TakenAt, Types
  <2>3. CellAt(q)' = gone
    BY <1>3, <2>2 DEF CellKinds
  <2>4. QED
    BY <1>11, <2>a, <2>3
<1>15. f <= n => after[f].stage # "released"
  <2> SUFFICES ASSUME f <= n PROVE after[f].stage # "released"
    OBVIOUS
  <2>1. PICK q \in Nat : q = Oldest' /\ q = new
    BY <1>a
  <2>2. f \in 1..n /\ q = old + f - 1
    BY <1>12, <2>1
  <2>3. CellAt(q)'.stage # "released"
    <3>1. CASE TakenAt(q)'
      BY <1>3, <3>1 DEF TakenAt, CellKinds, TakenCell
    <3>2. CASE ~TakenAt(q)'
      <4>1. q = deqPos'
        BY <1>3, <2>1, <3>2 DEF WindowStart, TakenAt
      <4>2. CASE ClaimedAt(q)'
        BY <1>3, <4>2 DEF ClaimedAt, CellKinds
      <4>3. CASE ~ClaimedAt(q)'
        BY <1>3, <4>1, <4>3 DEF CellKinds
      <4>4. QED
        BY <4>2, <4>3
    <3>3. QED
      BY <3>1, <3>2
  <2>4. QED
    BY <1>11, <2>2, <2>3
<1>16. Queue!Released(k) = SubSeq(after, f, n)
  <2> DEFINE live == {j \in DOMAIN after : after[j].stage # "released"}
             first == IF live = {} THEN Len(after) + 1
                      ELSE CHOOSE j \in live : \A i \in live : j <= i
  <2>1. Queue!Released(k) = SubSeq(after, first, Len(after))
    BY DEF Queue!Released
  <2> HIDE DEF after, f, n
  <2>2. f = first
    BY <1>10, <1>13, <1>14, <1>15, FirstLive
  <2> HIDE DEF first
  <2>3. QED
    BY <1>10, <2>1, <2>2
<1>17. Cells' = SubSeq(after, f, n)
  <2>1. /\ SubSeq(after, f, n) \in Seq(Cell)
        /\ Len(SubSeq(after, f, n)) = n - f + 1
        /\ \A i \in 1..(n - f + 1) : SubSeq(after, f, n)[i] = after[f + i - 1]
    <3> HIDE DEF after, f, n
    <3>1. f \in 1..(Len(after) + 1) /\ n \in (f - 1)..Len(after)
      BY <1>9, <1>10, <1>13
    <3>2. QED
      BY <1>9, <1>10, <1>13, <3>1, SubSeqProperties
  <2>2. Cells' \in Seq(Cell) /\ Len(Cells') = n - f + 1
    BY <1>3, <1>13 DEF WindowShape, Cell
  <2>3. ASSUME NEW i \in 1..(n - f + 1)
        PROVE  Cells'[i] = SubSeq(after, f, n)[i]
    <3>1. PICK q \in Nat : q = new + i - 1
      BY <1>12
    <3>2. Cells'[i] = CellAt(q)'
      BY <1>3, <1>a, <1>13, <3>1 DEF WindowShape
    <3>3. f + i - 1 \in 1..n /\ q = old + (f + i - 1) - 1
      BY <1>12, <3>1
    <3>4. after[f + i - 1] = CellAt(q)'
      BY <1>11, <3>3
    <3>5. QED
      BY <2>1, <3>2, <3>4
  <2> HIDE DEF after, f, n
  <2>4. QED
    BY <2>1, <2>2, <2>3, SeqEqual
<1>18. Waiting' = Waiting
  BY <1>1 DEF Waiting
<1>19. Cells[k].stage = "reading" /\ Cells[k].item = item[c]
  BY <1>7, <1>9
<1>20. Queue!Release(k)
  BY <1>1, <1>16, <1>17, <1>18, <1>19 DEF Queue!Release
<1>21. k \in DOMAIN Cells
  <2> HIDE DEF k, n
  <2>1. QED
    BY <1>9, LenProperties
<1>22. QED
  BY <1>20, <1>21 DEF QueueStep, Queue!Next

-----------------------------------------------------------------------------
(* try_enqueue and try_dequeue, whatever their interleaving, behave as     *)
(* operations of a bounded FIFO queue: claimed in order, refused only when *)
(* Capacity cells are in use, taken in the order they were claimed.        *)
THEOREM RingImplementsQueue ==
  ASSUME Capacity > 1
  PROVE  Spec => ImplementsQueue
<1>1. Init => Queue!Init
  <2> SUFFICES ASSUME Init PROVE Queue!Init
    OBVIOUS
  <2>1. HeldPositions = {0}
    BY DEF Init, HeldPositions, Movers, Threads
  <2>2. Oldest = 0
    BY <2>1 DEF Oldest
  <2>3. Cells = <<>>
    BY <2>2 DEF Init, Cells
  <2>4. Waiting = {}
    BY DEF Init, Waiting, Movers, Threads
  <2>5. QED
    BY <2>3, <2>4 DEF Init, Queue!Init
<1>2. RefInv /\ RefInv' /\ [Next]_vars => QueueStep
  <2> SUFFICES ASSUME RefInv, RefInv', [Next]_vars PROVE QueueStep
    OBVIOUS
  <2>1. ASSUME NEW p \in Producers,
               Enqueuing(p) \/ \E x \in unsent : EnqLoad(p, x)
        PROVE  QueueStep
    BY <2>1, EnqLoadOffers, EnqueueStutters, EnqStampRefines, EnqCasRefines,
       EnqPublishRefines DEF Enqueuing
  <2>2. ASSUME NEW c \in Consumers, Dequeuing(c) \/ DeqLoad(c)
        PROVE  QueueStep
    BY <2>2, DequeueStutters, DeqCasRefines, DeqFreeRefines DEF Dequeuing
  <2>3. ASSUME NEW o \in Observers, LenDeq(o) \/ LenEnq(o)
        PROVE  QueueStep
    BY <2>3, LenStutters
  <2>4. CASE UNCHANGED vars
    <3>1. UNCHANGED <<enqPos, deqPos, slot, pc, pos, item, itemVars>>
      BY <2>4 DEF vars, ringVars
    <3>2. StillClaimed
      BY <3>1 DEF StillClaimed, Writing, Reading, TakenCell
    <3>3. Cells' = Cells
      BY <3>2, StillCells DEF RefInv
    <3>4. Waiting' = Waiting
      BY <3>1 DEF Waiting
    <3>5. QED
      BY <3>1, <3>3, <3>4 DEF QueueStep, Queue!vars, itemVars
  <2>5. QED
    BY <2>1, <2>2, <2>3, <2>4 DEF Next
<1>3. Spec => []RefInv
  BY TurnsHold, OwnItemsHold, PTL DEF RefInv
<1>4. QED
  BY <1>1, <1>2, <1>3, PTL DEF Spec, ImplementsQueue, Queue!Spec, QueueStep
=============================================================================
