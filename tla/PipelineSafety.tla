--------------------------- MODULE PipelineSafety ---------------------------
(***************************************************************************)
(* Proofs of the engine's safety properties.  First its types, with the    *)
(* lemmas about its data that all the rest uses, then the properties of    *)
(* the log, the LSNs and the floor:                                        *)
(*                                                                         *)
(*   WalBeforeStore      what the store holds was logged first             *)
(*   FloorRespected      a checkpoint respects the pending LSNs its thread *)
(*                       could know of                                     *)
(*   LsnsUnique          one LSN, one record                               *)
(*   UndrainedFrameKept  what the floor buys a durable write               *)
(*                                                                         *)
(* WalBeforeStore alone is not inductive: the states of a batch enter the  *)
(* store three steps after they were logged, so the invariant also says    *)
(* that a batch at its persist step is logged.  FloorRespected is          *)
(* inductive as it stands.                                                 *)
(*                                                                         *)
(* LsnsUnique speaks of the log; an LSN gets there through the hands of a  *)
(* thread that alloc gave it to.  So LsnInv says of the frames in hand     *)
(* what must be true when they are appended (none has an LSN of the log,   *)
(* no two share theirs), and of next that it is above all of them.         *)
(*                                                                         *)
(* UndrainedFrameKept needs to know where an LSN can be at a time.  KeptInv*)
(* says that a request is in one ring cell or in one drain, that nobody    *)
(* else has the LSN of a durable write on its way to the ring, and that a  *)
(* durable write in the ring is still pending; then the LSN a drain lifts  *)
(* is not one the ring holds, and the frame a checkpoint discards is not   *)
(* one that is pending, unless it was registered after the watermark.      *)
(*                                                                         *)
(* Last, those of the writes: NoUpdateLost and CleanExit.                  *)
(***************************************************************************)
EXTENDS Pipeline, TLAPS, WellFoundedInduction, FiniteSetTheorems,
        SequenceTheorems

-----------------------------------------------------------------------------
(* Types, and lemmas about the data                                        *)

(* The library's order on Nat is the usual one.                            *)
LEMMA LessThan == \A x, y \in Nat : x < y => <<x, y>> \in OpToRel(<, Nat)
  BY DEF OpToRel

(* A nonempty set of naturals has a least member, and Min finds it (the    *)
(* floor of lsn.rs).                                                       *)
LEMMA MinIsLeast ==
  ASSUME NEW S \in SUBSET Nat, S # {}
  PROVE  Min(S) \in S /\ \A y \in S : Min(S) <= y
<1>1. PICK x \in S : \A y \in S : <<y, x>> \notin OpToRel(<, Nat)
  BY NatLessThanWellFounded, WFMin, Zenon
<1>2. \A y \in S : ~(y < x)
  BY <1>1, LessThan, Zenon
<1>3. \A y \in S : x <= y
  BY <1>2
<1>4. QED
  BY <1>3 DEF Min

(* checkpoint_watermark (lsn.rs): the answer is a natural, at most the     *)
(* proposal and below every pending LSN.                                   *)
LEMMA WatermarkClamps ==
  ASSUME NEW P \in SUBSET (Nat \ {0}), NEW p \in Nat
  PROVE  /\ Watermark(P, p) \in Nat
         /\ Watermark(P, p) <= p
         /\ \A l \in P : Watermark(P, p) < l
<1>1. CASE P = {}
  BY <1>1 DEF Watermark
<1>2. CASE P # {}
  <2>1. PICK low \in P : low = Min(P) /\ \A y \in P : low <= y
    BY <1>2, MinIsLeast
  <2>2. /\ low \in Nat \ {0}
        /\ Watermark(P, p) = IF low - 1 < p THEN low - 1 ELSE p
    BY <1>2, <2>1 DEF Watermark
  <2>3. /\ Watermark(P, p) \in Nat
        /\ Watermark(P, p) <= p
        /\ Watermark(P, p) < low
    BY <2>2
  <2>4. QED
    BY <2>1, <2>2, <2>3
<1>3. QED
  BY <1>1, <1>2

(* The image of a finite set under a function is finite.                   *)
LEMMA ImageIsFinite ==
  ASSUME NEW S, IsFiniteSet(S), NEW X, NEW f \in [S -> X]
  PROVE  IsFiniteSet({f[x] : x \in S})
<1> DEFINE T == {f[x] : x \in S}
<1>1. f \in Surjection(S, T)
  BY DEF Surjection
<1>2. QED
  BY <1>1, FS_Surjection

-----------------------------------------------------------------------------
(***************************************************************************)
(* The types of Pipeline as an inductive invariant.  TypeOK alone is not   *)
(* inductive: a drain reads the head of its scratch, a submission appends  *)
(* its op, a batch is counted, and the floor of LSN 0 would be below it.   *)
(***************************************************************************)
Submitting == {"publish", "dnote", "dappend", "dundo", "dclaim", "dpublish"}

Shape ==
  /\ \A t \in Threads : pc[t] \in {"lift", "apply"} => scratch[t] # <<>>
  /\ pc[Worker] \notin Submitting
  /\ \A c \in Callers : pc[c] \in Submitting =>
       op[c] \in Requests /\ seq[c] # 0
  /\ \A t \in Threads : IsFiniteSet(batch[t])
  /\ 0 \notin pending

TypeInv == TypeOK /\ Shape

(* What a request becomes on its way: ring cell, log frame, frame without  *)
(* its LSN.                                                                *)
LEMMA DataTypes ==
  /\ Requests \subseteq State
  /\ Versions \subseteq Nat
  /\ \A r \in State, l \in Nat :
       WithLsn(r, l) \in Frame /\ WithLsn(r, l).lsn = l
  /\ \A f \in Frame : /\ Plainly(f) \in State
                      /\ f.lsn \in Nat
                      /\ [f EXCEPT !.lsn = 0] \in Frame
                      /\ \A l \in Nat : WithLsn(f, l) \in Frame
  /\ \A r \in Requests, n \in Nat :
       [req |-> r, seq |-> n, ready |-> FALSE] \in Cell
  /\ \A x \in Cell : x.req \in Requests /\ x.seq \in Nat
<1>1. Requests \subseteq State
  BY RequestAssumption DEF State, Versions, Vals
<1>2. Versions \subseteq Nat
  BY RequestAssumption DEF Versions
<1>3. QED
  BY <1>1, <1>2 DEF State, Frame, Cell, WithLsn, Plainly

(* The producer's stamp store (ring.rs) changes no request and no LSN.     *)
LEMMA PublishedType ==
  ASSUME ring \in Seq(Cell), NEW s
  PROVE  /\ Published(s) \in Seq(Cell)
         /\ Len(Published(s)) = Len(ring)
         /\ \A k \in 1..Len(ring) : Published(s)[k].req = ring[k].req
                                 /\ Published(s)[k].seq = ring[k].seq
<1>1. ASSUME NEW k \in 1..Len(ring)
      PROVE  [ring[k] EXCEPT !.ready = TRUE] \in Cell
  <2>1. ring[k] \in Cell
    BY ElementOfSeq
  <2>2. \A x \in Cell : [x EXCEPT !.ready = TRUE] \in Cell
    BY DEF Cell
  <2>3. QED
    BY <2>1, <2>2
<1>2. \A k \in 1..Len(ring) : ring[k] \in Cell
  BY ElementOfSeq
<1>3. QED
  BY <1>1, <1>2 DEF Published

(* apply, take_dirty, requeue_dirty (cache.rs) and persist_batch (store.rs)*)
(* keep their tables well formed.                                          *)
LEMMA TableTypes ==
  /\ EmptyTable \in CacheTable /\ EmptyTable \in StoreTable
  /\ \A table \in CacheTable, r \in State : Apply(table, r) \in CacheTable
  /\ \A table \in CacheTable : \A ids \in SUBSET DirtyIds(table) :
       Cleared(table, ids) \in CacheTable
  /\ \A table \in CacheTable : \A b \in SUBSET Frame :
       Requeued(table, b) \in CacheTable
  /\ \A table \in StoreTable : \A b \in SUBSET Frame :
       Upserted(table, b) \in StoreTable
<1>1. EmptyTable \in CacheTable /\ EmptyTable \in StoreTable
  BY DEF EmptyTable, CacheTable, StoreTable
<1>2. ASSUME NEW table \in CacheTable, NEW r \in State
      PROVE  Apply(table, r) \in CacheTable
  BY DEF Apply, Dirtied, State, CacheTable
<1>3. ASSUME NEW table \in CacheTable, NEW ids \in SUBSET DirtyIds(table)
      PROVE  Cleared(table, ids) \in CacheTable
  <2>1. ASSUME NEW i \in ids
        PROVE  [table[i] EXCEPT !.dirty = FALSE]
                 \in [ver : Versions, val : Vals, dirty : BOOLEAN]
    <3>1. table[i] \in [ver : Versions, val : Vals, dirty : BOOLEAN]
      BY DEF CacheTable, DirtyIds
    <3>2. QED
      BY <3>1
  <2>2. QED
    BY <2>1 DEF Cleared, CacheTable
<1>4. ASSUME NEW table \in CacheTable, NEW b \in SUBSET Frame
      PROVE  Requeued(table, b) \in CacheTable
  <2>1. ASSUME NEW f \in Frame
        PROVE  Dirtied(f) \in [ver : Versions, val : Vals, dirty : BOOLEAN]
    BY DEF Frame, Dirtied
  <2>2. \A i \in Ids : Current(table, b, i) # {} =>
          (CHOOSE s \in Current(table, b, i) : TRUE) \in Frame
    BY DEF Current
  <2>3. QED
    BY <2>1, <2>2 DEF Requeued, CacheTable
<1>5. ASSUME NEW table \in StoreTable, NEW b \in SUBSET Frame
      PROVE  Upserted(table, b) \in StoreTable
  <2>1. ASSUME NEW f \in Frame
        PROVE  StateOf(f) \in [ver : Versions, val : Vals]
    BY DEF Frame, StateOf
  <2>2. \A i \in Ids : Current(table, b, i) # {} =>
          (CHOOSE s \in Current(table, b, i) : TRUE) \in Frame
    BY DEF Current
  <2>3. QED
    BY <2>1, <2>2 DEF Upserted, StoreTable
<1>6. QED
  BY <1>1, <1>2, <1>3, <1>4, <1>5

(* append_batch that returns Ok (wal.rs) keeps the log well formed.        *)
LEMMA AppendOkType ==
  ASSUME TypeInv, NEW b \in SUBSET Frame, NEW h \in Nat, AppendOk(b, h)
  PROVE  /\ wal' \in SUBSET Frame /\ walBuf' \in SUBSET Frame
         /\ walLast' \in Nat /\ logged' \in SUBSET State
<1>1. \A f \in b : Plainly(f) \in State
  BY DataTypes
<1>2. logged' \in SUBSET State
  BY <1>1 DEF TypeInv, TypeOK, AppendOk
<1>3. QED
  BY <1>2 DEF TypeInv, TypeOK, AppendOk, Later

(* append_batch that returns Err (wal.rs) keeps the log well formed.       *)
LEMMA AppendErrType ==
  ASSUME TypeInv, NEW b \in SUBSET Frame, AppendErr(b)
  PROVE  /\ wal' \in SUBSET Frame /\ walBuf' \in SUBSET Frame
         /\ walLast' = walLast /\ logged' = logged
  BY DEF TypeInv, TypeOK, AppendErr

(* The dirty set of the cache is finite, so dirty_len is a natural.        *)
LEMMA DirtyIsFinite ==
  ASSUME NEW ids \in SUBSET DirtyIds(cache)
  PROVE  IsFiniteSet(ids) /\ Cardinality(ids) \in Nat
<1>1. IsFiniteSet(ids)
  BY IdsAssumption, FS_Subset DEF DirtyIds
<1>2. QED
  BY <1>1, FS_CardinalityType

(* take_dirty (cache.rs) hands out a finite batch of well-formed states.   *)
LEMMA CopiesType ==
  ASSUME cache \in CacheTable, NEW ids \in SUBSET DirtyIds(cache)
  PROVE  /\ {WithLsn(s, 0) : s \in Copies(cache, ids)} \in SUBSET Frame
         /\ IsFiniteSet({WithLsn(s, 0) : s \in Copies(cache, ids)})
<1> DEFINE copy(i) == [id |-> i, ver |-> cache[i].ver, val |-> cache[i].val]
           f == [i \in ids |-> WithLsn(copy(i), 0)]
<1>1. \A i \in ids : copy(i) \in State
  BY DEF CacheTable, DirtyIds, State
<1>2. \A i \in ids : f[i] \in Frame
  BY <1>1, DataTypes
<1>3. {WithLsn(s, 0) : s \in Copies(cache, ids)} = {f[i] : i \in ids}
  BY DEF Copies
<1>4. f \in [ids -> Frame]
  BY <1>2
<1>5. IsFiniteSet({f[i] : i \in ids})
  <2>1. IsFiniteSet(ids)
    BY DirtyIsFinite
  <2> HIDE DEF f
  <2>2. QED
    BY <1>4, <2>1, ImageIsFinite
<1>6. QED
  BY <1>2, <1>3, <1>5

(* Stamping a batch with LSNs (alloc_block, worker.rs and api.rs) keeps it *)
(* finite and well formed.                                                 *)
LEMMA StampedType ==
  ASSUME TypeInv, NEW t \in Threads, NEW f \in Stampings(batch[t], next)
  PROVE  /\ {WithLsn(s, f[s]) : s \in batch[t]} \in SUBSET Frame
         /\ IsFiniteSet({WithLsn(s, f[s]) : s \in batch[t]})
         /\ Cardinality(batch[t]) \in Nat
<1> DEFINE g == [s \in batch[t] |-> WithLsn(s, f[s])]
<1>1. /\ batch[t] \in SUBSET Frame /\ IsFiniteSet(batch[t])
      /\ next \in Nat \ {0}
  BY DEF TypeInv, TypeOK, Shape
<1>2. Cardinality(batch[t]) \in Nat
  BY <1>1, FS_CardinalityType
<1>3. \A s \in batch[t] : f[s] \in Nat
  BY <1>1, <1>2 DEF Stampings
<1>4. g \in [batch[t] -> Frame]
  BY <1>1, <1>3, DataTypes
<1>5. {WithLsn(s, f[s]) : s \in batch[t]} = {g[s] : s \in batch[t]}
  OBVIOUS
<1> HIDE DEF g
<1>6. IsFiniteSet({g[s] : s \in batch[t]})
  BY <1>1, <1>4, ImageIsFinite
<1>7. QED
  BY <1>2, <1>4, <1>5, <1>6

(* Spending one of the bounded occurrences keeps the others.               *)
LEMMA SpendType ==
  ASSUME TypeInv, NEW what \in Bounded \ {"faults"},
         Spend(what)
  PROVE  left' \in [Bounded -> Nat]
<1>1. left \in [Bounded -> Nat]
  BY DEF TypeInv, TypeOK
<1>2. "faults" \in Bounded /\ what \in Bounded /\ what # "faults"
  BY DEF Bounded
<1>3. CASE what \in Faults
  <2>1. /\ left["faults"] - 1 \in Nat /\ left[what] - 1 \in Nat
        /\ left' = [left EXCEPT ![what]    = @ - 1, !["faults"] = @ - 1]
    BY <1>1, <1>2, <1>3 DEF Spend
  <2>2. QED
    BY <1>1, <1>2, <2>1
<1>4. CASE what \notin Faults
  <2>1. /\ left["faults"] \in Nat /\ left[what] - 1 \in Nat
        /\ left' = [left EXCEPT ![what] = @ - 1, !["faults"] = @]
    BY <1>1, <1>2, <1>4 DEF Spend
  <2>2. QED
    BY <1>1, <1>2, <2>1
<1>5. QED
  BY <1>3, <1>4

(* The types survive alloc and the claim of a ring cell in submit (api.rs).*)
LEMMA SubmitTypes ==
  ASSUME TypeInv, NEW c \in Callers, NEW r \in unsent, Submit(c, r)
  PROVE  TypeInv'
<1>1. r \in Requests /\ next \in Nat /\ next # 0 /\ next + 1 \in Nat \ {0}
  BY DEF TypeInv, TypeOK
<1>2. Append(ring, [req |-> r, seq |-> next, ready |-> FALSE]) \in Seq(Cell)
  BY <1>1, DataTypes, AppendProperties DEF TypeInv, TypeOK
<1>3. ring' \in Seq(Cell)
  BY <1>2 DEF TypeInv, TypeOK, Submit, Claimed
<1>4. op' \in [Callers -> Requests \union {None}] /\ seq' \in [Callers -> Nat]
  BY <1>1, ZenonT(60) DEF TypeInv, TypeOK, Submit
<1>5. pc' \in [Threads -> Labels]
  BY DEF TypeInv, TypeOK, Submit, Goto, Labels
<1>6. unsent' \in SUBSET Requests
  BY DEF TypeInv, TypeOK, Submit
<1>7. \A d \in Callers : pc'[d] \in Submitting =>
        op'[d] \in Requests /\ seq'[d] # 0
  BY <1>1 DEF TypeInv, TypeOK, Shape, Submitting, Submit, Goto, Threads
<1>8. QED
  BY WorkerAssumption, <1>1, <1>2, <1>3, <1>4, <1>5, <1>6, <1>7, ZenonT(60)
  DEF TypeInv, TypeOK, Shape, Submitting, Threads, Labels, Submit, Claimed,
      Goto, walVars, drainVars, flushVars, stopVars, history

(* The types survive alloc in submit_durable (api.rs).                     *)
LEMMA DurableAllocTypes ==
  ASSUME TypeInv, NEW c \in Callers, NEW r \in unsent, DurableAlloc(c, r)
  PROVE  TypeInv'
<1>1. r \in Requests /\ next \in Nat /\ next # 0 /\ next + 1 \in Nat \ {0}
  BY DEF TypeInv, TypeOK
<1>2. QED
  BY WorkerAssumption, <1>1
  DEF TypeInv, TypeOK, Shape, Submitting, Threads, Labels, DurableAlloc, Goto,
      walVars, drainVars, flushVars, stopVars, history

(* The types survive the stamp store of submit's enqueue (ring.rs).        *)
LEMMA PublishTypes ==
  ASSUME TypeInv, NEW c \in Callers, Publish(c)
  PROVE  TypeInv'
  BY DataTypes, TableTypes, WorkerAssumption, PublishedType
  DEF TypeInv, TypeOK, Shape, Submitting, Threads, Labels, Publish, Goto,
      lsnVars, walVars, drainVars, flushVars, stopVars, callVars

(* The types survive note_pending in submit_durable (api.rs).              *)
LEMMA DurableNoteTypes ==
  ASSUME TypeInv, NEW c \in Callers, DurableNote(c)
  PROVE  TypeInv'
<1>1. seq[c] \in Nat /\ seq[c] # 0
  BY DEF TypeInv, TypeOK, Shape, Submitting, DurableNote
<1>2. exposed' \in SUBSET Nat
  BY <1>1 DEF TypeInv, TypeOK, DurableNote
<1>3. QED
  BY WorkerAssumption, <1>1, <1>2
  DEF TypeInv, TypeOK, Shape, Submitting, Threads, Labels, DurableNote, Goto,
      walVars, drainVars, flushVars, stopVars, callVars

(* The types survive submit_durable's append that succeeds (api.rs).       *)
LEMMA DurableAppendTypes ==
  ASSUME TypeInv, NEW c \in Callers, DurableAppend(c)
  PROVE  TypeInv'
<1>1. op[c] \in State /\ seq[c] \in Nat
  BY DataTypes DEF TypeInv, TypeOK, Shape, Submitting, DurableAppend
<1>2. WithLsn(op[c], seq[c]) \in Frame
  BY <1>1, DataTypes
<1>3. /\ wal' \in SUBSET Frame /\ walBuf' \in SUBSET Frame /\ walLast' \in Nat
      /\ logged' \in SUBSET State
  BY <1>1, <1>2, AppendOkType DEF DurableAppend
<1>4. QED
  BY WorkerAssumption, <1>1, <1>2, <1>3
  DEF TypeInv, TypeOK, Shape, Submitting, Threads, Labels, DurableAppend, Goto,
      lsnVars, drainVars, flushVars, stopVars, callVars

(* The types survive submit_durable's append that fails (api.rs).          *)
LEMMA DurableAppendFailsTypes ==
  ASSUME TypeInv, NEW c \in Callers, DurableAppendFails(c)
  PROVE  TypeInv'
<1>1. op[c] \in State /\ seq[c] \in Nat
  BY DataTypes DEF TypeInv, TypeOK, Shape, Submitting, DurableAppendFails
<1>2. WithLsn(op[c], seq[c]) \in Frame
  BY <1>1, DataTypes
<1>3. /\ wal' \in SUBSET Frame /\ walBuf' \in SUBSET Frame
      /\ walLast' = walLast /\ logged' = logged
  BY <1>2, AppendErrType DEF DurableAppendFails
<1>4. left' \in [Bounded -> Nat]
  BY SpendType DEF Bounded, Faults, DurableAppendFails
<1>5. QED
  BY WorkerAssumption, <1>1, <1>2, <1>3, <1>4
  DEF TypeInv, TypeOK, Shape, Submitting, Threads, Labels, DurableAppendFails,
      Goto, lsnVars, drainVars, flushVars, stopVars, callVars

(* The types survive note_drained on submit_durable's error path (api.rs). *)
LEMMA DurableUndoTypes ==
  ASSUME TypeInv, NEW c \in Callers, DurableUndo(c)
  PROVE  TypeInv'
  BY DataTypes, TableTypes, WorkerAssumption
  DEF TypeInv, TypeOK, Shape, Submitting, Threads, Labels, DurableUndo, Goto,
      walVars, drainVars, flushVars, stopVars, callVars, history

(* The types survive submit_durable's best-effort enqueue (api.rs).        *)
LEMMA DurableClaimTypes ==
  ASSUME TypeInv, NEW c \in Callers, DurableClaim(c)
  PROVE  TypeInv'
<1>1. op[c] \in Requests /\ op[c] \in State /\ seq[c] \in Nat
  BY DataTypes DEF TypeInv, TypeOK, Shape, Submitting, DurableClaim
<1>2. acked \union {WithLsn(op[c], seq[c])} \in SUBSET Frame
  BY <1>1, DataTypes DEF TypeInv, TypeOK

<1>3. Append(ring, [req |-> op[c], seq |-> seq[c], ready |-> FALSE])
        \in Seq(Cell)
  BY <1>1, DataTypes, AppendProperties DEF TypeInv, TypeOK
<1>4. QED
  BY WorkerAssumption, <1>1, <1>2, <1>3
  DEF TypeInv, TypeOK, Shape, Submitting, Threads, Labels, DurableClaim,
      Claimed, Ack, Goto, lsnVars, walVars, drainVars, flushVars, stopVars,
      callVars

(* The types survive the stamp store of submit_durable's enqueue (ring.rs).*)
LEMMA DurablePublishTypes ==
  ASSUME TypeInv, NEW c \in Callers, DurablePublish(c)
  PROVE  TypeInv'
<1>1. op[c] \in Requests /\ op[c] \in State /\ seq[c] \in Nat
  BY DataTypes DEF TypeInv, TypeOK, Shape, Submitting, DurablePublish
<1>2. acked \union {WithLsn(op[c], seq[c])} \in SUBSET Frame
  BY <1>1, DataTypes DEF TypeInv, TypeOK

<1>3. Published(seq[c]) \in Seq(Cell)
  BY PublishedType DEF TypeInv, TypeOK
<1>4. QED
  BY WorkerAssumption, <1>1, <1>2, <1>3
  DEF TypeInv, TypeOK, Shape, Submitting, Threads, Labels, DurablePublish, Ack,
      Goto, lsnVars, walVars, drainVars, flushVars, stopVars, callVars

(* The types survive the start of flush_now (api.rs).                      *)
LEMMA NowStartTypes ==
  ASSUME TypeInv, NEW c \in Callers, NowStart(c)
  PROVE  TypeInv'
<1>1. left' \in [Bounded -> Nat]
  BY SpendType DEF Bounded, Faults, NowStart
<1>2. QED
  BY WorkerAssumption, <1>1
  DEF TypeInv, TypeOK, Shape, Submitting, Threads, Labels, NowStart, Goto,
      lsnVars, walVars, flushVars, stopVars, callVars, history

(* The types survive flush_now's loop test (api.rs).                       *)
LEMMA NowCheckTypes ==
  ASSUME TypeInv, NEW c \in Callers, NowCheck(c)
  PROVE  TypeInv'
  BY DataTypes, TableTypes, WorkerAssumption
  DEF TypeInv, TypeOK, Shape, Submitting, Threads, Labels, NowCheck, Goto,
      IsCaller, lsnVars, walVars, flushVars, stopVars, callVars, history

(* The types survive flush_now returning (api.rs).                         *)
LEMMA NowReturnsOkTypes ==
  ASSUME TypeInv, NEW c \in Callers, NowReturnsOk(c)
  PROVE  TypeInv'
  BY DataTypes, TableTypes, WorkerAssumption
  DEF TypeInv, TypeOK, Shape, Submitting, Threads, Labels, NowReturnsOk, Goto,
      IsCaller, lsnVars, walVars, drainVars, flushVars, stopVars, callVars,
      history

(* The types survive one pop of drain_into (ring.rs).                      *)
LEMMA PopTypes ==
  ASSUME TypeInv, NEW t \in Threads, Pop(t)
  PROVE  TypeInv'
<1>1. ring # <<>>
  BY DEF Pop, CanPop
<1>2. Head(ring) \in Cell /\ Tail(ring) \in Seq(Cell)
  BY <1>1, HeadTailProperties DEF TypeInv, TypeOK
<1>3. scratch[t] \in Seq(Cell)
  BY DEF TypeInv, TypeOK
<1>4. /\ Append(scratch[t], Head(ring)) \in Seq(Cell)
      /\ Append(scratch[t], Head(ring)) # <<>>
  BY <1>2, <1>3, AppendProperties
<1>5. QED
  BY WorkerAssumption, <1>1, <1>2, <1>3, <1>4
  DEF TypeInv, TypeOK, Shape, Submitting, Threads, Labels, Pop, lsnVars,
      walVars, flushVars, stopVars, callVars, history

(* The types survive the end of drain_into (ring.rs).                      *)
LEMMA PopEndTypes ==
  ASSUME TypeInv, NEW t \in Threads, PopEnd(t)
  PROVE  TypeInv'
<1>1. scratch[t] \in Seq(Cell)
  BY DEF TypeInv, TypeOK
<1>2. Len(scratch[t]) \in Nat
  BY <1>1, LenProperties
<1>3. ret[t] \in Labels \ ({"lift", "apply"} \union Submitting)
  BY DEF TypeInv, TypeOK, Labels, Submitting
<1>4. QED
  BY WorkerAssumption, <1>1, <1>2, <1>3
  DEF TypeInv, TypeOK, Shape, Submitting, Threads, Labels, PopEnd, Goto,
      lsnVars, walVars, flushVars, stopVars, callVars, history

(* The types survive note_drained in the drain (worker.rs, api.rs).        *)
LEMMA LiftFloorTypes ==
  ASSUME TypeInv, NEW t \in Threads, LiftFloor(t)
  PROVE  TypeInv'
<1>1. scratch[t] \in Seq(Cell) /\ scratch[t] # <<>>
  BY DEF TypeInv, TypeOK, Shape, LiftFloor
<1>2. Head(scratch[t]) \in Cell
  BY <1>1, HeadTailProperties
<1>3. drained' \in SUBSET Nat
  BY <1>2, DataTypes DEF TypeInv, TypeOK, LiftFloor
<1>4. QED
  BY <1>3, DataTypes, TableTypes, WorkerAssumption
  DEF TypeInv, TypeOK, Shape, Submitting, Threads, Labels, LiftFloor, Goto,
      walVars, drainVars, flushVars, stopVars, callVars, history

(* The types survive cache.apply in the drain (worker.rs, api.rs).         *)
LEMMA ApplyNextTypes ==
  ASSUME TypeInv, NEW t \in Threads, ApplyNext(t)
  PROVE  TypeInv'
<1>1. scratch[t] \in Seq(Cell) /\ scratch[t] # <<>>
  BY DEF TypeInv, TypeOK, Shape, ApplyNext
<1>2. Head(scratch[t]) \in Cell /\ Tail(scratch[t]) \in Seq(Cell)
  BY <1>1, HeadTailProperties
<1>3. Apply(cache, Head(scratch[t]).req) \in CacheTable
  BY <1>2, DataTypes, TableTypes DEF TypeInv, TypeOK
<1>4. ret[t] \in Labels \ ({"lift", "apply"} \union Submitting)
  BY DEF TypeInv, TypeOK, Labels, Submitting
<1>5. QED
  BY WorkerAssumption, <1>1, <1>2, <1>3, <1>4
  DEF TypeInv, TypeOK, Shape, Submitting, Threads, Labels, ApplyNext, Goto,
      IsCaller, lsnVars, walVars, flushVars, stopVars, callVars, history

(* The types survive take_dirty (cache.rs).                                *)
LEMMA TakeTypes ==
  ASSUME TypeInv, NEW t \in Threads, Take(t)
  PROVE  TypeInv'
<1>1. PICK ids \in SUBSET DirtyIds(cache) :
        /\ batch' = [batch EXCEPT
                       ![t] = {WithLsn(s, 0) : s \in Copies(cache, ids)}]
        /\ cache' = Cleared(cache, ids)
  BY DEF Take
<1>2. cache' \in CacheTable
  BY <1>1, TableTypes DEF TypeInv, TypeOK
<1>3. /\ {WithLsn(s, 0) : s \in Copies(cache, ids)} \in SUBSET Frame
      /\ IsFiniteSet({WithLsn(s, 0) : s \in Copies(cache, ids)})
  BY CopiesType DEF TypeInv, TypeOK
<1>4. QED
  BY WorkerAssumption, <1>1, <1>2, <1>3
  DEF TypeInv, TypeOK, Shape, Submitting, Threads, Labels, Take, Goto, lsnVars,
      walVars, drainVars, stopVars, callVars, history

(* The types survive alloc_block (worker.rs, api.rs).                      *)
LEMMA AllocTypes ==
  ASSUME TypeInv, NEW t \in Threads, Alloc(t)
  PROVE  TypeInv'
<1>1. PICK f \in Stampings(batch[t], next) :
        batch' = [batch EXCEPT ![t] = {WithLsn(s, f[s]) : s \in batch[t]}]
  BY DEF Alloc
<1>2. /\ {WithLsn(s, f[s]) : s \in batch[t]} \in SUBSET Frame
      /\ IsFiniteSet({WithLsn(s, f[s]) : s \in batch[t]})
      /\ Cardinality(batch[t]) \in Nat
  BY StampedType
<1>3. next + Cardinality(batch[t]) \in Nat \ {0}
  BY <1>2 DEF TypeInv, TypeOK
<1>4. next' - 1 \in Nat
  BY <1>3 DEF Alloc
<1>5. QED
  BY WorkerAssumption, <1>1, <1>2, <1>3, <1>4
  DEF TypeInv, TypeOK, Shape, Submitting, Threads, Labels, Alloc, Goto,
      walVars, drainVars, stopVars, callVars, history

(* The types survive a batch's append that succeeds (worker.rs, api.rs).   *)
LEMMA AppendBatchTypes ==
  ASSUME TypeInv, NEW t \in Threads, AppendBatch(t)
  PROVE  TypeInv'
<1>1. batch[t] \in SUBSET Frame /\ upTo[t] \in Nat
  BY DEF TypeInv, TypeOK
<1>2. /\ wal' \in SUBSET Frame /\ walBuf' \in SUBSET Frame /\ walLast' \in Nat
      /\ logged' \in SUBSET State
  BY <1>1, AppendOkType DEF AppendBatch
<1>3. QED
  BY WorkerAssumption, <1>1, <1>2
  DEF TypeInv, TypeOK, Shape, Submitting, Threads, Labels, AppendBatch, Goto,
      lsnVars, drainVars, stopVars, callVars

(* The types survive a batch's append that fails (worker.rs, api.rs).      *)
LEMMA AppendBatchFailsTypes ==
  ASSUME TypeInv, NEW t \in Threads, AppendBatchFails(t)
  PROVE  TypeInv'
<1>1. batch[t] \in SUBSET Frame
  BY DEF TypeInv, TypeOK
<1>2. /\ wal' \in SUBSET Frame /\ walBuf' \in SUBSET Frame
      /\ walLast' = walLast /\ logged' = logged
  BY <1>1, AppendErrType DEF AppendBatchFails
<1>3. left' \in [Bounded -> Nat]
  BY SpendType DEF Bounded, Faults, AppendBatchFails
<1>4. QED
  BY WorkerAssumption, <1>1, <1>2, <1>3
  DEF TypeInv, TypeOK, Shape, Submitting, Threads, Labels, AppendBatchFails,
      Goto, lsnVars, drainVars, flushVars, stopVars, callVars

(* The types survive a persist_batch that succeeds (worker.rs, api.rs).    *)
LEMMA PersistTypes ==
  ASSUME TypeInv, NEW t \in Threads, Persist(t)
  PROVE  TypeInv'
  BY DataTypes, TableTypes, WorkerAssumption, FS_EmptySet
  DEF TypeInv, TypeOK, Shape, Submitting, Threads, Labels, Persist, Goto,
      lsnVars, walVars, drainVars, stopVars, callVars, history

(* The types survive a persist_batch that fails (worker.rs, api.rs).       *)
LEMMA PersistFailsTypes ==
  ASSUME TypeInv, NEW t \in Threads, PersistFails(t)
  PROVE  TypeInv'
<1>1. left' \in [Bounded -> Nat]
  BY SpendType DEF Bounded, Faults, PersistFails
<1>2. attempt[t] + 1 \in Nat /\ attempt \in [Threads -> Nat]
  BY DEF TypeInv, TypeOK
<1>3. attempt' \in [Threads -> Nat]
  BY <1>2 DEF PersistFails
<1>4. pc' \in [Threads -> Labels]
  BY DEF TypeInv, TypeOK, PersistFails, Goto, Labels
<1>5. \A u \in Threads : pc'[u] = pc[u] \/ pc'[u] = "requeue"
  BY DEF TypeInv, TypeOK, PersistFails, Goto
<1>6. QED
  BY WorkerAssumption, <1>1, <1>2, <1>3, <1>4, <1>5
  DEF TypeInv, TypeOK, Shape, Submitting, Threads, Labels, PersistFails, Goto,
      lsnVars, walVars, drainVars, stopVars, callVars, history

(* The types survive requeue_dirty (worker.rs, api.rs).                    *)
LEMMA RequeueTypes ==
  ASSUME TypeInv, NEW t \in Threads, Requeue(t)
  PROVE  TypeInv'
  BY DataTypes, TableTypes, WorkerAssumption, FS_EmptySet
  DEF TypeInv, TypeOK, Shape, Submitting, Threads, Labels, Requeue, FlushLoop,
      Goto, IsCaller, lsnVars, walVars, drainVars, stopVars, callVars, history

(* The types survive checkpoint_watermark (worker.rs, api.rs).             *)
LEMMA MarkTypes ==
  ASSUME TypeInv, NEW t \in Threads, Mark(t)
  PROVE  TypeInv'
<1>1. pending \in SUBSET (Nat \ {0}) /\ upTo[t] \in Nat
  BY DEF TypeInv, TypeOK, Shape
<1>2. Watermark(pending, upTo[t]) \in Nat
  BY <1>1, WatermarkClamps
<1>3. QED
  BY WorkerAssumption, <1>1, <1>2
  DEF TypeInv, TypeOK, Shape, Submitting, Threads, Labels, Mark, Goto, lsnVars,
      walVars, drainVars, stopVars, callVars, history

(* The types survive a checkpoint (wal.rs).                                *)
LEMMA CheckpointTypes ==
  ASSUME TypeInv, NEW t \in Threads, Checkpoint(t)
  PROVE  TypeInv'
<1>1. upTo[t] \in Nat
  BY DEF TypeInv, TypeOK
<1>2. wal' \in SUBSET Frame
  BY DEF TypeInv, TypeOK, Checkpoint
<1>3. walLast' \in Nat
  BY <1>1, <1>2, DataTypes DEF Checkpoint
<1>4. AfterBatch(t) \in {"check", "take"}
  BY DEF AfterBatch
<1>5. QED
  BY WorkerAssumption, <1>1, <1>2, <1>3, <1>4
  DEF TypeInv, TypeOK, Shape, Submitting, Threads, Labels, Checkpoint, Goto,
      lsnVars, drainVars, flushVars, stopVars, callVars, history

(* The types survive a checkpoint that fails (wal.rs).                     *)
LEMMA CheckpointFailsTypes ==
  ASSUME TypeInv, NEW t \in Threads, CheckpointFails(t)
  PROVE  TypeInv'
<1>1. AfterBatch(t) \in {"check", "take"}
  BY DEF AfterBatch
<1>2. wal' \in SUBSET Frame /\ walBuf' \in SUBSET Frame
  BY DEF TypeInv, TypeOK, CheckpointFails
<1>3. left' \in [Bounded -> Nat]
  BY SpendType DEF Bounded, Faults, CheckpointFails
<1>4. QED
  BY WorkerAssumption, <1>1, <1>2, <1>3
  DEF TypeInv, TypeOK, Shape, Submitting, Threads, Labels, CheckpointFails,
      Goto, IsCaller, lsnVars, drainVars, flushVars, stopVars, callVars,
      history

(* The types survive the worker's loop test (worker.rs run).               *)
LEMMA TopTypes ==
  ASSUME TypeInv, Top
  PROVE  TypeInv'
  BY DataTypes, TableTypes, WorkerAssumption
  DEF TypeInv, TypeOK, Shape, Submitting, Threads, Labels, Top, Goto, lsnVars,
      walVars, flushVars, callVars, history

(* The types survive the worker's decision to flush (worker.rs run).       *)
LEMMA DecideFlushTypes ==
  ASSUME TypeInv, DecideFlush
  PROVE  TypeInv'
  BY DataTypes, TableTypes, WorkerAssumption
  DEF TypeInv, TypeOK, Shape, Submitting, Threads, Labels, DecideFlush, Goto,
      lsnVars, walVars, drainVars, flushVars, stopVars, callVars, history

(* The types survive the worker's decision to wait (worker.rs run).        *)
LEMMA DecideWaitTypes ==
  ASSUME TypeInv, DecideWait
  PROVE  TypeInv'
  BY DataTypes, TableTypes, WorkerAssumption
  DEF TypeInv, TypeOK, Shape, Submitting, Threads, Labels, DecideWait, Goto,
      lsnVars, walVars, drainVars, flushVars, stopVars, callVars, history

(* The types survive the end of the worker's flush (worker.rs flush).      *)
LEMMA FlushDoneTypes ==
  ASSUME TypeInv, FlushDone
  PROVE  TypeInv'
  BY DataTypes, TableTypes, WorkerAssumption
  DEF TypeInv, TypeOK, Shape, Submitting, Threads, Labels, FlushDone,
      FlushLoop, Goto, lsnVars, walVars, drainVars, flushVars, stopVars,
      callVars, history

(* The types survive final_drain after its drain (worker.rs).              *)
LEMMA EndCheckTypes ==
  ASSUME TypeInv, EndCheck
  PROVE  TypeInv'
<1>1. Cardinality(DirtyIds(cache)) \in Nat
  BY DirtyIsFinite
<1>2. QED
  BY WorkerAssumption, <1>1
  DEF TypeInv, TypeOK, Shape, Submitting, Threads, Labels, EndCheck, Goto,
      lsnVars, walVars, drainVars, flushVars, callVars, history

(* The types survive final_drain's stall test (worker.rs).                 *)
LEMMA EndAfterTypes ==
  ASSUME TypeInv, EndAfter
  PROVE  TypeInv'
<1>1. stalled' \in Nat
  BY DEF TypeInv, TypeOK, EndAfter
<1>2. \E l \in {"pop", "exit"} : pc' = [pc EXCEPT ![Worker] = l]
  BY DEF EndAfter, Goto
<1>3. QED
  BY WorkerAssumption, <1>1, <1>2, ZenonT(60)
  DEF TypeInv, TypeOK, Shape, Submitting, Threads, Labels, EndAfter, Goto,
      lsnVars, walVars, drainVars, flushVars, callVars, history

(* The types survive shutdown setting the stop flag (api.rs).              *)
LEMMA ShutdownTypes ==
  ASSUME TypeInv, Shutdown
  PROVE  TypeInv'
<1>1. left' \in [Bounded -> Nat]
  BY SpendType DEF Bounded, Faults, Shutdown
<1>2. QED
  BY WorkerAssumption, <1>1
  DEF TypeInv, TypeOK, Shape, Submitting, Threads, Labels, Shutdown, lsnVars,
      walVars, drainVars, flushVars, stopVars, callVars, history

-----------------------------------------------------------------------------
(* The variables a crash resets have their types.                          *)
MemoryTypes ==
  /\ ring \in Seq(Cell)
  /\ cache \in CacheTable
  /\ next \in Nat \ {0} /\ pending \in SUBSET Nat
  /\ walBuf \in SUBSET Frame /\ walLast \in Nat
  /\ pc \in [Threads -> Labels]
  /\ ret \in [Threads -> {"decide", "check", "take", "endcheck"}]
  /\ op \in [Callers -> Requests \union {None}] /\ seq \in [Callers -> Nat]
  /\ scratch \in [Threads -> Seq(Cell)] /\ moved \in [Threads -> Nat]
  /\ batch \in [Threads -> SUBSET Frame]
  /\ upTo \in [Threads -> Nat] /\ attempt \in [Threads -> Nat]
  /\ final \in BOOLEAN /\ stalled \in Nat /\ before \in Nat
  /\ acked \in SUBSET Frame
  /\ exposed \in SUBSET Nat /\ drained \in SUBSET Nat
  /\ Shape

(* Losing all memory leaves the variables of a process not yet started.    *)
LEMMA MemoryGoneType ==
  ASSUME TypeInv, MemoryGone
  PROVE  MemoryTypes'
<1>1. acked' \in SUBSET Frame
  BY DataTypes DEF TypeInv, TypeOK, MemoryGone
<1>2. pc' \in [Threads -> {"off", "idle"}]
  BY DEF MemoryGone, NoPc
<1>3. Shape'
  BY <1>2, FS_EmptySet, WorkerAssumption
  DEF Shape, Submitting, MemoryGone, Each, Threads
<1>4. <<>> \in Seq(Cell)
  BY EmptySeq
<1>5. /\ ret' \in [Threads -> {"decide", "check", "take", "endcheck"}]
      /\ op' \in [Callers -> Requests \union {None}]
      /\ seq' \in [Callers -> Nat]
      /\ scratch' \in [Threads -> Seq(Cell)] /\ moved' \in [Threads -> Nat]
      /\ batch' \in [Threads -> SUBSET Frame]
      /\ upTo' \in [Threads -> Nat] /\ attempt' \in [Threads -> Nat]
  BY <1>4 DEF MemoryGone, Each
<1>6. pc' \in [Threads -> Labels]
  BY <1>2 DEF Labels
<1>7. /\ ring' \in Seq(Cell) /\ cache' \in CacheTable
      /\ next' \in Nat \ {0} /\ pending' \in SUBSET Nat
      /\ walBuf' \in SUBSET Frame /\ walLast' \in Nat
  BY <1>4, TableTypes DEF MemoryGone
<1>8. /\ final' \in BOOLEAN /\ stalled' \in Nat /\ before' \in Nat
      /\ exposed' \in SUBSET Nat /\ drained' \in SUBSET Nat
  BY DEF MemoryGone
<1>9. QED
  BY <1>1, <1>3, <1>5, <1>6, <1>7, <1>8 DEF MemoryTypes

(* The types survive shutdown returning (api.rs).                          *)
LEMMA ShutdownReturnsTypes ==
  ASSUME TypeInv, ShutdownReturns
  PROVE  TypeInv'
<1>1. MemoryTypes'
  BY MemoryGoneType DEF ShutdownReturns
<1>2. QED
  BY <1>1 DEF TypeInv, TypeOK, ShutdownReturns, MemoryTypes

(* The types survive the death of the process.                             *)
LEMMA CrashTypes ==
  ASSUME TypeInv, Crash
  PROVE  TypeInv'
<1>1. MemoryTypes'
  BY MemoryGoneType DEF Crash
<1>2. \A t \in Threads : Appending(t) \in SUBSET Frame
  <2>1. ASSUME NEW c \in Callers, pc[c] = "dappend"
        PROVE  WithLsn(op[c], seq[c]) \in Frame
    BY <2>1, DataTypes DEF TypeInv, TypeOK, Shape, Submitting
  <2>2. ASSUME NEW t \in Threads
        PROVE  Appending(t) \in SUBSET Frame
    <3>1. CASE pc[t] = "append"
      BY <3>1 DEF Appending, TypeInv, TypeOK
    <3>2. CASE pc[t] = "dappend" /\ t \in Callers
      BY <2>1, <3>2 DEF Appending
    <3>3. CASE pc[t] \notin {"append", "dappend"}
      BY <3>3 DEF Appending
    <3>4. QED
      BY <3>1, <3>2, <3>3 DEF Threads, TypeInv, Shape, Submitting
  <2>3. QED
    BY <2>2
<1>3. wal' \in SUBSET Frame
  BY <1>2 DEF TypeInv, TypeOK, Crash
<1>4. left' \in [Bounded -> Nat]
  BY SpendType DEF Bounded, Faults, Crash
<1>5. QED
  BY <1>1, <1>3, <1>4 DEF TypeInv, TypeOK, Crash, MemoryTypes

(* The types survive recovery in start (api.rs).                           *)
LEMMA RestartTypes ==
  ASSUME TypeInv, Restart
  PROVE  TypeInv'
<1>1. cache' \in CacheTable
  <2>1. PICK last \in [Ids -> wal \union {None}] : cache' = Replayed(last)
    BY DEF Restart
  <2>2. \A f \in Frame :
          Dirtied(f) \in [ver : Versions, val : Vals, dirty : BOOLEAN]
    BY DEF Frame, Dirtied
  <2>3. QED
    BY <2>1, <2>2 DEF Replayed, CacheTable, TypeInv, TypeOK
<1>2. \A f \in wal : f.lsn \in Nat /\ Plainly(f) \in State
  BY DataTypes DEF TypeInv, TypeOK
<1>3. walLast' \in Nat
  BY <1>2 DEF Restart
<1>4. next' \in Nat \ {0}
  <2>1. next' = walLast' + 1
    BY DEF Restart, Seed
  <2>2. \A n \in Nat : n + 1 \in Nat \ {0}
    OBVIOUS
  <2>3. QED
    BY <1>3, <2>1, <2>2
<1>5. promised' \in SUBSET State
  BY <1>2 DEF Restart
<1>6. pc' \in [Threads -> {"top", "idle"}]
  BY DEF Restart, FreshPc
<1>7. QED
  BY <1>1, <1>3, <1>4, <1>5, <1>6, ZenonT(60)
  DEF TypeInv, TypeOK, Shape, Submitting, Labels, Threads, Restart, walVars,
      lsnVars, drainVars, callVars, flushVars, stopVars

-----------------------------------------------------------------------------
(* Start on an empty directory (api.rs start) has the types.               *)
LEMMA InitTypes ==
  ASSUME Init
  PROVE  TypeInv
<1>1. Budget \in [Bounded -> Nat]
  BY ConfigAssumption
<1>2. pc \in [Threads -> {"top", "idle"}]
  BY DEF Init, FreshPc
<1>3. <<>> \in Seq(Cell)
  BY EmptySeq
<1>4. /\ ret \in [Threads -> {"decide", "check", "take", "endcheck"}]
      /\ op \in [Callers -> Requests \union {None}] /\ seq \in [Callers -> Nat]
      /\ scratch \in [Threads -> Seq(Cell)] /\ moved \in [Threads -> Nat]
      /\ batch \in [Threads -> SUBSET Frame]
      /\ upTo \in [Threads -> Nat] /\ attempt \in [Threads -> Nat]
  BY <1>3 DEF Init, Each
<1>5. pc \in [Threads -> Labels]
  BY <1>2 DEF Labels
<1>6. ring \in Seq(Cell) /\ cache \in CacheTable /\ store \in StoreTable
  BY <1>3, TableTypes DEF Init
<1>7. left \in [Bounded -> Nat]
  BY <1>1 DEF Init
<1>8. TypeOK
  <2>1. /\ next \in Nat \ {0} /\ pending \in SUBSET Nat
        /\ wal \in SUBSET Frame /\ walBuf \in SUBSET Frame /\ walLast \in Nat
        /\ stalled \in Nat /\ before \in Nat
    BY DEF Init
  <2>2. final \in BOOLEAN
    BY DEF Init
  <2>3. /\ unsent \in SUBSET Requests
        /\ acked \in SUBSET Frame /\ promised \in SUBSET State
        /\ logged \in SUBSET State
        /\ exposed \in SUBSET Nat /\ drained \in SUBSET Nat
        /\ phase \in {"up", "stopping", "down"}
    BY DEF Init
  <2>4. QED
    BY <1>4, <1>5, <1>6, <1>7, <2>1, <2>2, <2>3 DEF TypeOK
<1>9. Shape
  BY <1>2, FS_EmptySet DEF Shape, Submitting, Init, Each, Threads
<1>10. QED
  BY <1>8, <1>9 DEF TypeInv

(* A step that changes nothing keeps the types.                            *)
LEMMA StutterTypes ==
  ASSUME TypeInv, UNCHANGED vars
  PROVE  TypeInv'
  BY DEF TypeInv, TypeOK, Shape, vars, lsnVars, walVars, drainVars, callVars,
         flushVars, stopVars, history

(* Every step of the engine (api.rs, worker.rs) keeps the types.           *)
LEMMA NextTypes ==
  ASSUME TypeInv, [Next]_vars
  PROVE  TypeInv'
<1>1. ASSUME NEW c \in Callers, CallBegins(c)
      PROVE  TypeInv'
  BY <1>1, SubmitTypes, DurableAllocTypes, NowStartTypes DEF CallBegins
<1>2. ASSUME NEW c \in Callers, CallProceeds(c)
      PROVE  TypeInv'
  BY <1>2, PublishTypes, DurableNoteTypes, DurableAppendTypes,
     DurableAppendFailsTypes, DurableUndoTypes, DurableClaimTypes,
     DurablePublishTypes, NowCheckTypes, NowReturnsOkTypes
  DEF CallProceeds
<1>3. ASSUME NEW t \in Threads, FlushPath(t)
      PROVE  TypeInv'
  BY <1>3, PopTypes, PopEndTypes, LiftFloorTypes, ApplyNextTypes, TakeTypes,
     AllocTypes, AppendBatchTypes, AppendBatchFailsTypes, PersistTypes,
     PersistFailsTypes, RequeueTypes, MarkTypes, CheckpointTypes,
     CheckpointFailsTypes
  DEF FlushPath
<1>4. ASSUME WorkerLoop
      PROVE  TypeInv'
  BY <1>4, TopTypes, DecideFlushTypes, DecideWaitTypes, FlushDoneTypes,
     EndCheckTypes, EndAfterTypes
  DEF WorkerLoop
<1>5. QED
  BY <1>1, <1>2, <1>3, <1>4, ShutdownTypes, ShutdownReturnsTypes, CrashTypes,
     RestartTypes, StutterTypes
  DEF Next

(* TypeInv, the inductive strengthening of TypeOK, always holds.           *)
THEOREM TypeInvAlways == Spec => []TypeInv
<1>1. Init => TypeInv
  BY InitTypes
<1>2. TypeInv /\ [Next]_vars => TypeInv'
  BY NextTypes
<1>3. QED
  BY <1>1, <1>2, PTL DEF Spec

(* Every variable keeps the type its Rust field has, through failures,     *)
(* crashes and restarts (api.rs FluxEngine, cache.rs, lsn.rs, ring.rs,     *)
(* store.rs, wal.rs).                                                      *)
THEOREM Typing == Spec => []TypeOK
<1>1. TypeInv => TypeOK
  BY DEF TypeInv
<1>2. QED
  BY <1>1, TypeInvAlways, PTL

-----------------------------------------------------------------------------
(* The log, the LSNs and the floor                                         *)

(* A batch waiting for the store has been made durable by its own append.  *)
WriteAheadInv ==
  /\ WalBeforeStore
  /\ \A t \in Threads : pc[t] = "persist" =>
       \A s \in batch[t] : Plainly(s) \in logged

(* Every step keeps the log ahead of the store; the two that matter are    *)
(* the append of a batch and persist_batch.                                *)
LEMMA WriteAheadNext ==
  ASSUME TypeInv, WriteAheadInv, Next
  PROVE  WriteAheadInv'
<1> USE DEF TypeInv, TypeOK, WriteAheadInv, WalBeforeStore, Threads, Goto,
            flushVars, history
<1>1. ASSUME NEW c \in Callers, CallBegins(c)
      PROVE  WriteAheadInv'
  BY <1>1 DEF CallBegins, Submit, DurableAlloc, NowStart
<1>2. ASSUME NEW c \in Callers, CallProceeds(c)
      PROVE  WriteAheadInv'
  BY <1>2
  DEF CallProceeds, Publish, DurableNote, DurableAppend, DurableAppendFails,
      DurableUndo, DurableClaim, DurablePublish, NowCheck, NowReturnsOk,
      AppendOk, AppendErr
<1>3. ASSUME NEW t \in Threads,
             Pop(t) \/ PopEnd(t) \/ LiftFloor(t) \/ ApplyNext(t)
      PROVE  WriteAheadInv'
  BY <1>3 DEF Pop, PopEnd, LiftFloor, ApplyNext
<1>4. ASSUME NEW t \in Threads, Take(t) \/ Alloc(t) \/ Requeue(t)
      PROVE  WriteAheadInv'
  BY <1>4 DEF Take, Alloc, Requeue, FlushLoop
<1>5. ASSUME NEW t \in Threads, AppendBatch(t)
      PROVE  WriteAheadInv'
  BY <1>5 DEF AppendBatch, AppendOk
<1>6. ASSUME NEW t \in Threads,
             AppendBatchFails(t) \/ PersistFails(t)
      PROVE  WriteAheadInv'
  BY <1>6 DEF AppendBatchFails, AppendErr, PersistFails
<1>7. ASSUME NEW t \in Threads, Persist(t)
      PROVE  WriteAheadInv'
  BY <1>7 DEF Persist, Upserted, Current, StateOf, Plainly
<1>8. ASSUME NEW t \in Threads, Mark(t) \/ Checkpoint(t) \/ CheckpointFails(t)
      PROVE  WriteAheadInv'
  BY <1>8 DEF Mark, Checkpoint, CheckpointFails, AfterBatch
<1>9. ASSUME WorkerLoop \/ Shutdown
      PROVE  WriteAheadInv'
  BY <1>9 DEF WorkerLoop, Top, DecideFlush, DecideWait, FlushDone, EndCheck,
              EndAfter, FlushLoop, Shutdown
<1>10. ASSUME ShutdownReturns \/ Crash \/ Restart
       PROVE  WriteAheadInv'
  BY <1>10 DEF ShutdownReturns, Crash, Restart, MemoryGone, NoPc, FreshPc
<1>11. QED
  BY <1>1, <1>2, <1>3, <1>4, <1>5, <1>6, <1>7, <1>8, <1>9, <1>10
  DEF Next, FlushPath

(* Write-ahead (worker.rs flush_batch, api.rs flush_states): the store     *)
(* never holds a state that was not made durable in the log before.        *)
THEOREM WriteAhead == Spec => []WalBeforeStore
<1>1. Init => WriteAheadInv
  BY DEF Init, WriteAheadInv, WalBeforeStore, EmptyTable, FreshPc, Threads
<1>2. TypeInv /\ WriteAheadInv /\ [Next]_vars => WriteAheadInv'
  <2>1. ASSUME WriteAheadInv, UNCHANGED vars
        PROVE  WriteAheadInv'
    BY <2>1 DEF WriteAheadInv, WalBeforeStore, vars, flushVars, history
  <2>2. QED
    BY <2>1, WriteAheadNext
<1>3. WriteAheadInv => WalBeforeStore
  BY DEF WriteAheadInv
<1>4. QED
  BY <1>1, <1>2, <1>3, TypeInvAlways, PTL DEF Spec

-----------------------------------------------------------------------------
(* Every step keeps the floor; the two that matter are note_pending and    *)
(* checkpoint_watermark (lsn.rs).                                          *)
LEMMA FloorNext ==
  ASSUME TypeInv, FloorRespected, Next
  PROVE  FloorRespected'
<1> USE DEF TypeInv, TypeOK, FloorRespected, Threads, Goto,
            flushVars, lsnVars, history
<1>1. ASSUME NEW c \in Callers, CallBegins(c)
      PROVE  FloorRespected'
  BY <1>1 DEF CallBegins, Submit, DurableAlloc, NowStart
<1>2. ASSUME NEW c \in Callers, CallProceeds(c)
      PROVE  FloorRespected'
  <2>1. CASE DurableNote(c)
    BY <2>1 DEF DurableNote
  <2>2. CASE \/ Publish(c) \/ DurableAppend(c) \/ DurableAppendFails(c)
             \/ DurableUndo(c) \/ DurableClaim(c) \/ DurablePublish(c)
             \/ NowCheck(c) \/ NowReturnsOk(c)
    BY <2>2
    DEF Publish, DurableAppend, DurableAppendFails, DurableUndo, DurableClaim,
        DurablePublish, NowCheck, NowReturnsOk
  <2>3. QED
    BY <1>2, <2>1, <2>2 DEF CallProceeds
<1>3. ASSUME NEW t \in Threads,
             Pop(t) \/ PopEnd(t) \/ LiftFloor(t) \/ ApplyNext(t)
      PROVE  FloorRespected'
  BY <1>3 DEF Pop, PopEnd, LiftFloor, ApplyNext
<1>4. ASSUME NEW t \in Threads, Take(t) \/ Alloc(t) \/ Requeue(t)
      PROVE  FloorRespected'
  BY <1>4 DEF Take, Alloc, Requeue, FlushLoop
<1>5. ASSUME NEW t \in Threads, AppendBatch(t) \/ Persist(t)
      PROVE  FloorRespected'
  BY <1>5 DEF AppendBatch, Persist
<1>6. ASSUME NEW t \in Threads,
             AppendBatchFails(t) \/ PersistFails(t)
      PROVE  FloorRespected'
  BY <1>6 DEF AppendBatchFails, PersistFails
<1>7. ASSUME NEW t \in Threads, Mark(t)
      PROVE  FloorRespected'
  <2>1. pending \in SUBSET (Nat \ {0}) /\ upTo[t] \in Nat
    BY DEF Shape
  <2>2. \A l \in pending : Watermark(pending, upTo[t]) < l
    BY <2>1, WatermarkClamps
  <2>3. Watermark(pending, upTo[t]) \in Nat
    BY <2>1, WatermarkClamps
  <2>4. QED
    BY <1>7, <2>1, <2>2, <2>3 DEF Mark
<1>8. ASSUME NEW t \in Threads, Checkpoint(t) \/ CheckpointFails(t)
      PROVE  FloorRespected'
  BY <1>8 DEF Checkpoint, CheckpointFails, AfterBatch
<1>9. ASSUME WorkerLoop \/ Shutdown
      PROVE  FloorRespected'
  BY <1>9 DEF WorkerLoop, Top, DecideFlush, DecideWait, FlushDone, EndCheck,
              EndAfter, FlushLoop, Shutdown
<1>10. ASSUME ShutdownReturns \/ Crash \/ Restart
       PROVE  FloorRespected'
  BY <1>10 DEF ShutdownReturns, Crash, Restart, MemoryGone, NoPc, FreshPc
<1>11. QED
  BY <1>1, <1>2, <1>3, <1>4, <1>5, <1>6, <1>7, <1>8, <1>9, <1>10
  DEF Next, FlushPath

(* The checkpoint floor (lsn.rs checkpoint_watermark): a thread about to   *)
(* checkpoint passes a pending LSN only if it was registered after that    *)
(* thread computed its watermark.                                          *)
THEOREM Floor == Spec => []FloorRespected
<1>1. Init => FloorRespected
  BY DEF Init, FloorRespected, FreshPc, Threads
<1>2. TypeInv /\ FloorRespected /\ [Next]_vars => FloorRespected'
  <2>1. ASSUME FloorRespected, UNCHANGED vars
        PROVE  FloorRespected'
    BY <2>1 DEF FloorRespected, vars, flushVars, lsnVars, history
  <2>2. QED
    BY <2>1, FloorNext
<1>3. QED
  BY <1>1, <1>2, TypeInvAlways, PTL DEF Spec

-----------------------------------------------------------------------------

(* The frames a thread is about to append: a stamped batch, or a durable   *)
(* write from its alloc to its append_batch.                               *)
InHand(t) ==
  IF pc[t] = "append" THEN batch[t]
  ELSE IF pc[t] \in {"dnote", "dappend"} THEN {WithLsn(op[t], seq[t])}
  ELSE {}

Logged == wal \union walBuf

(* One LSN, one frame of the log; no frame of the log has the LSN of one   *)
(* in hand; and no two in hand share theirs.                               *)
LogUnique  == \A f, g \in Logged : f.lsn = g.lsn => f = g
HandFresh  == \A t \in Threads : \A s \in InHand(t) : \A f \in Logged :
                s.lsn # f.lsn
HandUnique == \A t, u \in Threads : \A s \in InHand(t), r \in InHand(u) :
                s.lsn = r.lsn => t = u /\ s = r

(* alloc hands out each LSN once: all that were handed out are below next, *)
(* and at a restart next goes above all that the log has.                  *)
BelowNext ==
  /\ \A f \in Logged : 0 < f.lsn /\ (phase # "down" => f.lsn < next)
  /\ \A t \in Threads : \A s \in InHand(t) : 0 < s.lsn /\ s.lsn < next

(* A process that is gone left no buffer and no thread.                    *)
NothingRuns ==
  phase = "down" => walBuf = {} /\ \A t \in Threads : pc[t] \in {"idle", "off"}

(* The inductive invariant of LsnsUnique.                                  *)
LsnInv == LogUnique /\ HandFresh /\ HandUnique /\ BelowNext /\ NothingRuns

(* What is in hand are frames.                                             *)
HandsTyped == \A t \in Threads : InHand(t) \in SUBSET Frame

LEMMA HandTypes == TypeInv => HandsTyped
<1> SUFFICES ASSUME TypeInv, NEW t \in Threads PROVE InHand(t) \in SUBSET Frame
  BY DEF HandsTyped
<1>1. CASE pc[t] \in {"dnote", "dappend"}
  <2>1. t \in Callers /\ op[t] \in State /\ seq[t] \in Nat
    BY <1>1, DataTypes DEF TypeInv, TypeOK, Shape, Submitting, Threads
  <2>2. WithLsn(op[t], seq[t]) \in Frame
    BY <2>1, DataTypes DEF WithLsn, State, Frame
  <2>3. QED
    BY <1>1, <2>2 DEF InHand
<1>2. QED
  BY <1>1 DEF InHand, TypeInv, TypeOK

(* A step that takes frames out of hand, and lets into the log only what   *)
(* it takes.                                                               *)
LEMMA HandsMove ==
  ASSUME TypeInv, TypeInv', LsnInv, NEW t \in Threads,
         \A f \in Logged' : f \in Logged \/ (f \in InHand(t) /\ InHand(t)' = {}),
         \A u \in Threads : \A s \in InHand(u)' : s \in InHand(u),
         phase' # "down" => phase # "down" /\ next <= next',
         next <= next' \/ \A u \in Threads : InHand(u)' = {}
  PROVE  LogUnique' /\ HandFresh' /\ HandUnique' /\ BelowNext'
<1>1. /\ next \in Nat /\ next' \in Nat
      /\ \A f \in Logged : f.lsn \in Nat
      /\ \A u \in Threads : \A s \in InHand(u) : s.lsn \in Nat
  BY HandTypes, ZenonT(30) DEF HandsTyped, TypeInv, TypeOK, Logged, Frame
<1>2. LogUnique'
  BY DEF LsnInv, LogUnique, HandFresh, HandUnique
<1>3. HandFresh'
  BY DEF LsnInv, HandFresh, HandUnique
<1>4. HandUnique'
  BY DEF LsnInv, HandUnique
<1>5. BelowNext'
  BY <1>1 DEF LsnInv, BelowNext
<1>6. QED
  BY <1>2, <1>3, <1>4, <1>5

(* A step that takes LSNs from next on into the hands of one thread.       *)
LEMMA HandsStamp ==
  ASSUME TypeInv, TypeInv', LsnInv, NEW t \in Threads, phase # "down",
         Logged' = Logged, next <= next',
         \A u \in Threads : u # t => InHand(u)' = InHand(u),
         \A s \in InHand(t)' : next <= s.lsn /\ s.lsn < next',
         \A r, s \in InHand(t)' : r.lsn = s.lsn => r = s
  PROVE  LogUnique' /\ HandFresh' /\ HandUnique' /\ BelowNext'
<1>1. /\ next \in Nat \ {0} /\ next' \in Nat
      /\ \A f \in Logged : f.lsn \in Nat
      /\ \A u \in Threads : \A s \in InHand(u) : s.lsn \in Nat
  BY HandTypes, ZenonT(30) DEF HandsTyped, TypeInv, TypeOK, Logged, Frame
<1>2. HandsTyped'
  <2>1. (TypeInv => HandsTyped)'
    BY HandTypes, PTL
  <2>2. QED
    BY <2>1
<1>3. \A u \in Threads : \A s \in InHand(u)' : s.lsn \in Nat
  BY <1>2 DEF HandsTyped, Frame
<1>4. LogUnique'
  BY DEF LsnInv, LogUnique
<1>5. HandFresh'
  BY <1>1, <1>3 DEF LsnInv, HandFresh, BelowNext
<1>6. HandUnique'
  BY <1>1, <1>3 DEF LsnInv, HandUnique, BelowNext
<1>7. BelowNext'
  BY <1>1, <1>3 DEF LsnInv, BelowNext
<1>8. QED
  BY <1>4, <1>5, <1>6, <1>7

(* alloc_block: the batch comes back with its frames' LSNs distinct and    *)
(* from next on.                                                           *)
LEMMA BlockStamped ==
  ASSUME TypeInv, NEW t \in Threads, Alloc(t)
  PROVE  /\ next' \in Nat /\ next <= next'
         /\ \A s \in batch'[t] : next <= s.lsn /\ s.lsn < next'
         /\ \A r, s \in batch'[t] : r.lsn = s.lsn => r = s
<1>1. PICK f \in Stampings(batch[t], next) :
        batch' = [batch EXCEPT ![t] = {WithLsn(s, f[s]) : s \in batch[t]}]
  BY DEF Alloc
<1>2. next \in Nat /\ Cardinality(batch[t]) \in Nat
  BY <1>1, StampedType DEF TypeInv, TypeOK
<1>3. PICK n \in Nat : n = Cardinality(batch[t])
  BY <1>2
<1>4. next' = next + n
  BY <1>3 DEF Alloc
<1>5. f \in [batch[t] -> next..(next + n - 1)]
  BY <1>1, <1>3 DEF Stampings
<1>6. \A a, b \in batch[t] : f[a] = f[b] => a = b
  BY <1>1 DEF Stampings
<1>7. batch'[t] = {WithLsn(s, f[s]) : s \in batch[t]}
  BY <1>1 DEF TypeInv, TypeOK
<1>8. \A s \in batch'[t] : next <= s.lsn /\ s.lsn < next'
  BY <1>2, <1>4, <1>5, <1>7 DEF WithLsn
<1>9. \A r, s \in batch'[t] : r.lsn = s.lsn => r = s
  BY <1>6, <1>7 DEF WithLsn
<1>10. QED
  BY <1>2, <1>4, <1>8, <1>9

(* Every step keeps that so.                                               *)
LEMMA NothingRunsNext ==
  ASSUME TypeInv, NothingRuns, Next
  PROVE  NothingRuns'
<1> USE DEF TypeInv, TypeOK, NothingRuns, Threads, Goto, walVars
<1>1. ASSUME NEW c \in Callers, CallBegins(c)
      PROVE  NothingRuns'
  BY <1>1 DEF CallBegins, Submit, DurableAlloc, NowStart
<1>2. ASSUME NEW c \in Callers, CallProceeds(c)
      PROVE  NothingRuns'
  BY <1>2
  DEF CallProceeds, Publish, DurableNote, DurableAppend, DurableAppendFails,
      DurableUndo, DurableClaim, DurablePublish, NowCheck, NowReturnsOk
<1>3. ASSUME NEW t \in Threads,
             Pop(t) \/ PopEnd(t) \/ LiftFloor(t) \/ ApplyNext(t)
      PROVE  NothingRuns'
  BY <1>3 DEF Pop, PopEnd, LiftFloor, ApplyNext
<1>4. ASSUME NEW t \in Threads,
             Take(t) \/ Alloc(t) \/ AppendBatch(t) \/ AppendBatchFails(t)
      PROVE  NothingRuns'
  BY <1>4 DEF Take, Alloc, AppendBatch, AppendBatchFails
<1>5. ASSUME NEW t \in Threads,
             \/ Persist(t) \/ PersistFails(t) \/ Requeue(t)
             \/ Mark(t) \/ Checkpoint(t) \/ CheckpointFails(t)
      PROVE  NothingRuns'
  BY <1>5
  DEF Persist, PersistFails, Requeue, Mark, Checkpoint, CheckpointFails
<1>6. ASSUME WorkerLoop \/ Shutdown
      PROVE  NothingRuns'
  BY <1>6 DEF WorkerLoop, Top, DecideFlush, DecideWait, FlushDone, EndCheck,
              EndAfter, Shutdown
<1>7. ASSUME ShutdownReturns \/ Crash \/ Restart
      PROVE  NothingRuns'
  BY <1>7 DEF ShutdownReturns, Crash, Restart, MemoryGone, NoPc
<1>8. QED
  BY <1>1, <1>2, <1>3, <1>4, <1>5, <1>6, <1>7 DEF Next, FlushPath

(* What most steps have in common: one thread moves, takes no frame into   *)
(* its hands, and the log only gets smaller.                               *)
LsnQuiet(t) ==
  /\ \A f \in Logged' : f \in Logged
  /\ phase = "down" => phase' = "down"
  /\ next' = next \/ next' = next + 1
  /\ \A u \in Threads : u # t => pc'[u] = pc[u]
  /\ \A u \in Threads : u # t => batch'[u] = batch[u]
  /\ \A c \in Callers : c # t => op'[c] = op[c] /\ seq'[c] = seq[c]
  /\ pc'[t] \notin {"append", "dnote", "dappend"}
       \/ UNCHANGED <<pc, batch, op, seq>>

(* Such a step keeps LsnInv.                                               *)
LEMMA LsnQuietKeeps ==
  ASSUME TypeInv, TypeInv', LsnInv, NEW t \in Threads, LsnQuiet(t)
  PROVE  LogUnique' /\ HandFresh' /\ HandUnique' /\ BelowNext'
<1>1. next <= next'
  BY DEF LsnQuiet, TypeInv, TypeOK
<1>2. ASSUME NEW u \in Threads PROVE InHand(u)' = {} \/ InHand(u)' = InHand(u)
  <2>1. CASE u # t
    BY <2>1 DEF InHand, LsnQuiet, TypeInv, Shape, Submitting, Threads
  <2>2. CASE u = t
    BY <2>2 DEF InHand, LsnQuiet
  <2>3. QED
    BY <2>1, <2>2
<1>3. QED
  BY <1>1, <1>2, HandsMove DEF LsnQuiet

(* Every step keeps each LSN on one record.                                *)
LEMMA LsnNext ==
  ASSUME TypeInv, TypeInv', LsnInv, Next
  PROVE  LsnInv'
<1> DEFINE Goal == LogUnique' /\ HandFresh' /\ HandUnique' /\ BelowNext'
<1> USE WorkerAssumption DEF Threads, Goto
<1>1. ASSUME NEW c \in Callers, NEW r \in unsent, Submit(c, r)
      PROVE  Goal
  <2>1. LsnQuiet(c)
    BY <1>1 DEF Submit, LsnQuiet, TypeInv, TypeOK, walVars, flushVars, Logged
  <2>2. QED
    BY <2>1, LsnQuietKeeps
<1>2. ASSUME NEW c \in Callers, NEW r \in unsent, DurableAlloc(c, r)
      PROVE  Goal
  <2>1. /\ phase = "up" /\ Logged' = Logged /\ next' = next + 1 /\ next \in Nat
        /\ pc'[c] = "dnote" /\ op'[c] = r /\ seq'[c] = next
        /\ batch' = batch
        /\ \A u \in Threads : u # c => pc'[u] = pc[u]
        /\ \A u \in Callers : u # c => op'[u] = op[u] /\ seq'[u] = seq[u]
    BY <1>2 DEF DurableAlloc, TypeInv, TypeOK, walVars, flushVars, Logged
  <2>2. InHand(c)' = {WithLsn(r, next)}
    BY <2>1 DEF InHand, WithLsn
  <2>3. \A u \in Threads : u # c => InHand(u)' = InHand(u)
    BY <2>1 DEF InHand, TypeInv, Shape, Submitting
  <2>4. \A s \in InHand(c)' : next <= s.lsn /\ s.lsn < next'
    BY <2>1, <2>2 DEF WithLsn
  <2>5. next <= next' /\ phase # "down"
    BY <2>1
  <2>6. QED
    BY <2>1, <2>2, <2>3, <2>4, <2>5, HandsStamp
<1>3. ASSUME NEW c \in Callers,
             \/ NowStart(c) \/ Publish(c) \/ DurableUndo(c) \/ DurableClaim(c)
             \/ DurablePublish(c) \/ NowCheck(c) \/ NowReturnsOk(c)
      PROVE  Goal
  <2>1. LsnQuiet(c)
    BY <1>3
    DEF NowStart, Publish, DurableUndo, DurableClaim, DurablePublish, NowCheck,
        NowReturnsOk, LsnQuiet, TypeInv, TypeOK, walVars, lsnVars, flushVars,
        callVars, Logged
  <2>2. QED
    BY <2>1, LsnQuietKeeps
<1>4. ASSUME NEW c \in Callers, DurableNote(c)
      PROVE  Goal
  <2>1. /\ UNCHANGED <<phase, next, batch, op, seq>> /\ Logged' = Logged
        /\ pc[c] = "dnote" /\ pc'[c] = "dappend"
        /\ \A u \in Threads : u # c => pc'[u] = pc[u]
    BY <1>4 DEF DurableNote, TypeInv, TypeOK, walVars, flushVars, callVars, Logged
  <2>2. \A u \in Threads : InHand(u)' = InHand(u)
    BY <2>1 DEF InHand
  <2>3. next <= next'
    BY <2>1 DEF TypeInv, TypeOK
  <2>4. QED
    BY <2>1, <2>2, <2>3, HandsMove
<1>5. ASSUME NEW c \in Callers, DurableAppend(c) \/ DurableAppendFails(c)
      PROVE  Goal
  <2>1. /\ UNCHANGED <<phase, next, batch, op, seq>>
        /\ pc[c] = "dappend" /\ pc'[c] \in {"dclaim", "dundo"}
        /\ \A u \in Threads : u # c => pc'[u] = pc[u]
        /\ \A f \in Logged' : f \in Logged \/ f = WithLsn(op[c], seq[c])
    BY <1>5 DEF DurableAppend, DurableAppendFails, AppendOk, AppendErr, TypeInv,
                TypeOK, lsnVars, flushVars, callVars, Logged
  <2>2. InHand(c) = {WithLsn(op[c], seq[c])} /\ InHand(c)' = {}
    BY <2>1 DEF InHand
  <2>3. \A u \in Threads : u # c => InHand(u)' = InHand(u)
    BY <2>1 DEF InHand
  <2>4. next <= next'
    BY <2>1 DEF TypeInv, TypeOK
  <2>5. QED
    BY <2>1, <2>2, <2>3, <2>4, HandsMove
<1>6. ASSUME NEW t \in Threads,
             Pop(t) \/ PopEnd(t) \/ LiftFloor(t) \/ ApplyNext(t)
      PROVE  Goal
  <2>1. LsnQuiet(t)
    BY <1>6
    DEF Pop, PopEnd, LiftFloor, ApplyNext, LsnQuiet, TypeInv, TypeOK, walVars,
        lsnVars, flushVars, callVars, Logged
  <2>2. QED
    BY <2>1, LsnQuietKeeps
<1>7. ASSUME NEW t \in Threads, Alloc(t)
      PROVE  Goal
  <2>1. /\ phase' = phase /\ Logged' = Logged
        /\ pc[t] = "alloc" /\ pc'[t] = "append" /\ UNCHANGED <<op, seq>>
        /\ \A u \in Threads : u # t => pc'[u] = pc[u]
        /\ \A u \in Threads : u # t => batch'[u] = batch[u]
    BY <1>7 DEF Alloc, TypeInv, TypeOK, walVars, callVars, Logged
  <2>2. InHand(t)' = batch'[t]
    BY <2>1 DEF InHand
  <2>3. \A u \in Threads : u # t => InHand(u)' = InHand(u)
    BY <2>1 DEF InHand
  <2>4. phase # "down"
    BY <2>1 DEF LsnInv, NothingRuns
  <2>5. QED
    BY <1>7, <2>1, <2>2, <2>3, <2>4, BlockStamped, HandsStamp
<1>8. ASSUME NEW t \in Threads, AppendBatch(t) \/ AppendBatchFails(t)
      PROVE  Goal
  <2>1. /\ UNCHANGED <<phase, next, batch, op, seq>>
        /\ pc[t] = "append" /\ pc'[t] \in {"persist", "requeue"}
        /\ \A u \in Threads : u # t => pc'[u] = pc[u]
        /\ \A f \in Logged' : f \in Logged \/ f \in batch[t]
    BY <1>8 DEF AppendBatch, AppendBatchFails, AppendOk, AppendErr, TypeInv,
                TypeOK, lsnVars, flushVars, callVars, Logged
  <2>2. InHand(t) = batch[t] /\ InHand(t)' = {}
    BY <2>1 DEF InHand
  <2>3. \A u \in Threads : u # t => InHand(u)' = InHand(u)
    BY <2>1 DEF InHand
  <2>4. next <= next'
    BY <2>1 DEF TypeInv, TypeOK
  <2>5. QED
    BY <2>1, <2>2, <2>3, <2>4, HandsMove
<1>9. ASSUME NEW t \in Threads,
             \/ Take(t) \/ Persist(t) \/ PersistFails(t) \/ Requeue(t)
             \/ Mark(t) \/ Checkpoint(t) \/ CheckpointFails(t)
      PROVE  Goal
  <2>1. CASE Take(t) \/ Persist(t) \/ PersistFails(t) \/ Requeue(t) \/ Mark(t)
    <3>1. LsnQuiet(t)
      BY <2>1, ZenonT(30)
      DEF Take, Persist, PersistFails, Requeue, FlushLoop, Mark, LsnQuiet,
          TypeInv, TypeOK, walVars, lsnVars, callVars, Logged
    <3>2. QED
      BY <3>1, LsnQuietKeeps
  <2>2. CASE Checkpoint(t) \/ CheckpointFails(t)
    <3>1. LsnQuiet(t)
      BY <2>2
      DEF Checkpoint, CheckpointFails, AfterBatch, LsnQuiet, TypeInv, TypeOK,
          lsnVars, callVars, flushVars, Logged
    <3>2. QED
      BY <3>1, LsnQuietKeeps
  <2>3. QED
    BY <1>9, <2>1, <2>2
<1>10. ASSUME WorkerLoop \/ Shutdown
       PROVE  Goal
  <2> USE DEF LsnQuiet, TypeInv, TypeOK, walVars, lsnVars, flushVars, callVars,
              Logged
  <2>1. CASE Top \/ DecideFlush \/ DecideWait \/ FlushDone
    BY <2>1, LsnQuietKeeps DEF Top, DecideFlush, DecideWait, FlushDone, FlushLoop
  <2>2. CASE EndCheck
    <3>1. pc'[Worker] \in {"take", "exit", "after"}
      BY <2>2 DEF EndCheck
    <3>2. QED
      BY <2>2, <3>1, LsnQuietKeeps DEF EndCheck
  <2>3. CASE EndAfter
    <3>1. pc' = [pc EXCEPT ![Worker] = "pop"] \/ pc' = [pc EXCEPT ![Worker] = "exit"]
      BY <2>3, Zenon DEF EndAfter
    <3>2. UNCHANGED <<phase, lsnVars, walVars, callVars, flushVars>>
      BY <2>3, Zenon DEF EndAfter
    <3>3. QED
      BY <3>1, <3>2, LsnQuietKeeps
  <2>4. CASE Shutdown
    BY <2>4, LsnQuietKeeps DEF Shutdown
  <2>5. QED
    BY <1>10, <2>1, <2>2, <2>3, <2>4 DEF WorkerLoop
<1>11. ASSUME ShutdownReturns \/ Crash
       PROVE  Goal
  <2>1. phase' = "down" /\ MemoryGone
    BY <1>11 DEF ShutdownReturns, Crash
  <2>2. \A u \in Threads : InHand(u)' = {}
    BY <2>1 DEF MemoryGone, NoPc, InHand
  <2>3. walBuf' = {}
    BY <2>1 DEF MemoryGone
  <2>4. CASE wal' \subseteq Logged
    BY <2>1, <2>2, <2>3, <2>4, HandsMove DEF Logged
  <2>5. ASSUME NEW t \in Threads, NEW k \in 0..next,
               wal' = Logged \union {f \in Appending(t) : f.lsn <= k}
        PROVE  Goal
    <3>1. \A f \in Appending(t) : f \in InHand(t)
      BY DEF Appending, InHand
    <3>2. \A f \in Logged' : f \in Logged \/ f \in InHand(t)
      BY <2>3, <2>5, <3>1 DEF Logged
    <3>3. QED
      BY <2>1, <2>2, <3>2, HandsMove
  <2>6. QED
    BY <1>11, <2>4, <2>5 DEF ShutdownReturns, Crash, Logged
<1>12. ASSUME Restart
       PROVE  Goal
  <2>1. /\ phase = "down" /\ UNCHANGED <<wal, walBuf>>
        /\ \A f \in wal : f.lsn <= walLast'
        /\ next' = walLast' + 1 /\ pc' = FreshPc
    BY <1>12 DEF Restart, Seed
  <2>2. walBuf = {} /\ Logged' = Logged /\ Logged = wal
    BY <2>1 DEF LsnInv, NothingRuns, Logged
  <2>3. \A u \in Threads : InHand(u)' = {}
    BY <2>1 DEF FreshPc, InHand
  <2>4. \A f \in Logged : f.lsn \in Nat /\ walLast' \in Nat
    BY <2>2 DEF TypeInv, TypeOK, Frame
  <2>5. \A f \in Logged' : 0 < f.lsn /\ f.lsn < next'
    BY <2>1, <2>2, <2>4 DEF LsnInv, BelowNext
  <2>6. QED
    BY <2>2, <2>3, <2>5 DEF LsnInv, LogUnique, HandFresh, HandUnique, BelowNext
<1>13. Goal
  BY <1>1, <1>2, <1>3, <1>4, <1>5, <1>6, <1>7, <1>8, <1>9, <1>10, <1>11, <1>12
  DEF Next, CallBegins, CallProceeds, FlushPath
<1>14. QED
  BY <1>13, NothingRunsNext DEF LsnInv

(* One LSN, one record (lsn.rs alloc and alloc_block, the seed in api.rs   *)
(* start): no two records of the log share their LSN, nor one of the log   *)
(* and one about to be appended, through failed appends, crashes in the    *)
(* middle of one, checkpoints and restarts.                                *)
THEOREM LsnsStayUnique == Spec => []LsnsUnique
<1>1. Init => LsnInv
  BY WorkerAssumption
  DEF Init, LsnInv, LogUnique, HandFresh, HandUnique, BelowNext, NothingRuns,
      InHand, Logged, FreshPc, Threads
<1>2. TypeInv /\ TypeInv' /\ LsnInv /\ [Next]_vars => LsnInv'
  <2>1. ASSUME LsnInv, UNCHANGED vars PROVE LsnInv'
    BY <2>1
    DEF LsnInv, LogUnique, HandFresh, HandUnique, BelowNext, NothingRuns,
        InHand, Logged, vars, walVars, lsnVars, callVars, flushVars
  <2>2. QED
    BY <2>1, LsnNext
<1>3. LsnInv => LsnsUnique
  BY DEF LsnInv, LogUnique, HandFresh, HandUnique, BelowNext, InHand, Logged,
         LsnsUnique
<1>4. QED
  BY <1>1, <1>2, <1>3, TypeInvAlways, PTL DEF Spec

-----------------------------------------------------------------------------
(* The LSNs of the requests in the ring, and of those a drain has popped   *)
(* and not yet applied.                                                    *)
RingSeqs  == {ring[k].seq : k \in 1..Len(ring)}
DrainSeqs == UNION {{scratch[t][k].seq : k \in 1..Len(scratch[t])} : t \in Threads}

(* A durable write between its alloc and its claim of a ring cell.         *)
ToClaim      == {"dnote", "dappend", "dundo", "dclaim"}
Unclaimed(c) == pc[c] \in ToClaim

(* Each request is in one place.                                           *)
CellsUnique ==
  \A j, k \in 1..Len(ring) : ring[j].seq = ring[k].seq => j = k
DrainedLeft == \A l \in RingSeqs : l \notin DrainSeqs

(* The LSN of a durable write is nobody else's, and no copy of it can be   *)
(* drained before the write claims its cell.                               *)
UnclaimedFresh ==
  \A c \in Callers : Unclaimed(c) =>
    /\ seq[c] \notin RingSeqs /\ seq[c] \notin DrainSeqs
    /\ \A d \in Callers : Unclaimed(d) /\ seq[d] = seq[c] => d = c
    /\ pc[c] # "dclaim" => \A a \in DurableFrames : a.lsn # seq[c]

(* A durable write is pending from note_pending until a drain lifts it:    *)
(* its ring copy is never the only sign that it is not drained.            *)
Registered ==
  /\ \A c \in Callers : pc[c] \in {"dappend", "dclaim"} => seq[c] \in pending
  /\ \A a \in DurableFrames : a.lsn \in RingSeqs => a.lsn \in pending

(* What alloc will hand out is on none of them.                            *)
SeqsBelowNext ==
  /\ \A c \in Callers : seq[c] < next
  /\ \A l \in RingSeqs : l < next
  /\ \A l \in DrainSeqs : l < next
  /\ \A a \in acked : a.lsn < next

(* Of a process that is gone only the log, the store and what callers were *)
(* told are left.                                                          *)
NothingLeft ==
  phase = "down" =>
    /\ ring = <<>> /\ pending = {}
    /\ \A t \in Threads : scratch[t] = <<>> /\ pc[t] \in {"idle", "off"}
    /\ \A c \in Callers : seq[c] = 0
    /\ \A a \in acked : a.lsn = 0

(* A frame the floor still protects: its LSN is pending, or its copy is in *)
(* the ring.                                                               *)
Unlifted(a) == \/ a.lsn \in pending
               \/ \E k \in 1..Len(ring) : ring[k].seq = a.lsn

UnliftedFrameKept ==
  \A a \in DurableFrames : Unlifted(a) /\ a.lsn \notin exposed => a \in wal

(* The floor protects it until a drain takes its write over.               *)
UndrainedPending == \A a \in DurableFrames : a.lsn \in pending \union drained

(* The inductive invariant of UnliftedFrameKept.                          *)
KeptInv ==
  /\ UnliftedFrameKept
  /\ CellsUnique /\ DrainedLeft /\ UnclaimedFresh /\ Registered
  /\ SeqsBelowNext /\ NothingLeft

(* DurableFrames, member by member.                                        *)
IsDurable(a) ==
  \/ a \in acked /\ a.lsn > 0
  \/ \E c \in Callers : pc[c] \in {"dclaim", "dpublish"} /\ a = WithLsn(op[c], seq[c])

DurableAre == \A a : a \in DurableFrames <=> IsDurable(a)

(* The two readings of DurableFrames agree, before a step and after it.    *)
LEMMA DurableMeans == DurableAre
  BY DEF DurableAre, DurableFrames, IsDurable

LEMMA DurableMeansNext == DurableAre'
  BY DurableMeans, PTL

(* What KeptInv's LSNs are.                                                *)
SeqsTyped ==
  /\ RingSeqs \in SUBSET Nat /\ DrainSeqs \in SUBSET Nat
  /\ \A c \in Callers : seq[c] \in Nat
  /\ \A a \in acked : a.lsn \in Nat
  /\ \A a \in DurableFrames : a.lsn \in Nat
  /\ next \in Nat \ {0}

(* TypeInv says so, of this state and of the next.                         *)
LEMMA SeqTypes == TypeInv => SeqsTyped
<1> SUFFICES ASSUME TypeInv PROVE SeqsTyped
  OBVIOUS
<1>1. RingSeqs \in SUBSET Nat /\ DrainSeqs \in SUBSET Nat
  <2>1. \A k \in 1..Len(ring) : ring[k].seq \in Nat
    <3>1. ring \in Seq(Cell)
      BY DEF TypeInv, TypeOK
    <3>2. QED
      BY <3>1, ElementOfSeq, DataTypes
  <2>2. \A t \in Threads : \A k \in 1..Len(scratch[t]) : scratch[t][k].seq \in Nat
    <3>1. \A t \in Threads : scratch[t] \in Seq(Cell)
      BY DEF TypeInv, TypeOK
    <3>2. QED
      BY <3>1, ElementOfSeq, DataTypes
  <2>3. QED
    BY <2>1, <2>2 DEF RingSeqs, DrainSeqs
<1>2. \A c \in Callers : seq[c] \in Nat
  BY DEF TypeInv, TypeOK
<1>3. \A a \in acked : a.lsn \in Nat
  BY DEF TypeInv, TypeOK, Frame
<1>4. \A a \in DurableFrames : a.lsn \in Nat
  BY <1>2, <1>3 DEF DurableFrames, WithLsn
<1>5. QED
  BY <1>1, <1>2, <1>3, <1>4 DEF SeqsTyped, TypeInv, TypeOK

LEMMA SeqTypesNext == TypeInv' => SeqsTyped'
<1>1. (TypeInv => SeqsTyped)'
  BY SeqTypes, PTL
<1>2. QED
  BY <1>1

-----------------------------------------------------------------------------
(* What the ring and the drains do to them.                                *)
LEMMA ClaimSeqs ==
  ASSUME TypeInv, NEW r \in Requests, NEW s \in Nat, Claimed(r, s)
  PROVE  /\ RingSeqs' = RingSeqs \union {s}
         /\ CellsUnique /\ s \notin RingSeqs => CellsUnique'
<1>1. ring \in Seq(Cell) /\ Len(ring) \in Nat
  BY DEF TypeInv, TypeOK
<1>2. PICK n \in Nat : n = Len(ring)
  BY <1>1
<1> DEFINE cell == [req |-> r, seq |-> s, ready |-> FALSE]
<1>3. ring' = Append(ring, cell)
  BY DEF Claimed
<1>4. /\ Len(ring') = n + 1 /\ ring'[n + 1] = cell
      /\ \A k \in 1..n : ring'[k] = ring[k]
  BY <1>1, <1>2, <1>3, AppendProperties
<1>5. cell.seq = s
  OBVIOUS
<1>6. RingSeqs' = RingSeqs \union {s}
  BY <1>2, <1>4, <1>5 DEF RingSeqs
<1>7. ASSUME CellsUnique, s \notin RingSeqs PROVE CellsUnique'
  <2>1. \A k \in 1..n : ring[k].seq # s
    BY <1>2, <1>7 DEF RingSeqs
  <2>2. QED
    BY <1>2, <1>4, <1>5, <1>7, <2>1 DEF CellsUnique
<1>8. QED
  BY <1>6, <1>7

(* The stamp store of push changes no LSN (ring.rs).                       *)
LEMMA PublishSeqs ==
  ASSUME TypeInv, NEW s, ring' = Published(s)
  PROVE  /\ RingSeqs' = RingSeqs
         /\ CellsUnique => CellsUnique'
<1>1. Len(ring') = Len(ring) /\ \A k \in 1..Len(ring) : ring'[k].seq = ring[k].seq
  BY PublishedType DEF TypeInv, TypeOK, Published, Cell
<1>2. QED
  BY <1>1 DEF RingSeqs, CellsUnique

(* pop takes one LSN out of the ring, and it is in no other cell.          *)
LEMMA PopSeqs ==
  ASSUME TypeInv, NEW t \in Threads, Pop(t)
  PROVE  \E l \in RingSeqs :
           /\ \A m \in RingSeqs' : m \in RingSeqs
           /\ \A m \in RingSeqs : m \in RingSeqs' \/ m = l
           /\ CellsUnique => CellsUnique' /\ l \notin RingSeqs'
           /\ \A m \in DrainSeqs' : m \in DrainSeqs \/ m = l
<1>1. /\ ring \in Seq(Cell) /\ ring # <<>> /\ ring' = Tail(ring)
      /\ scratch \in [Threads -> Seq(Cell)]
      /\ scratch' = [scratch EXCEPT ![t] = Append(scratch[t], Head(ring))]
  BY DEF TypeInv, TypeOK, Pop, CanPop
<1>2. /\ Len(ring) \in Nat \ {0} /\ Head(ring) = ring[1] /\ Len(ring') = Len(ring) - 1
      /\ \A k \in 1..Len(ring') : ring'[k] = ring[k + 1]
  BY <1>1, HeadTailProperties, EmptySeq
<1>3. PICK n \in Nat \ {0} : n = Len(ring)
  BY <1>2
<1>4. PICK head \in Cell : head = ring[1]
  BY <1>1, <1>3
<1>5. PICK l \in Nat : l = head.seq
  BY <1>4 DEF Cell
<1>6. l \in RingSeqs
  BY <1>3, <1>4, <1>5 DEF RingSeqs
<1>7. /\ \A m \in RingSeqs' : m \in RingSeqs
      /\ \A m \in RingSeqs : m \in RingSeqs' \/ m = l
  <2>1. \A k \in 2..n : k - 1 \in 1..(n - 1) /\ ring[k] = ring'[k - 1]
    BY <1>2, <1>3
  <2>2. \A k \in 1..Len(ring') : k + 1 \in 1..n /\ ring'[k] = ring[k + 1]
    BY <1>2, <1>3
  <2>3. \A m \in RingSeqs' : m \in RingSeqs
    <3>1. SUFFICES ASSUME NEW m \in RingSeqs' PROVE m \in RingSeqs
      OBVIOUS
    <3>2. PICK k \in 1..Len(ring') : m = ring'[k].seq
      BY <3>1 DEF RingSeqs
    <3>3. k + 1 \in 1..Len(ring) /\ m = ring[k + 1].seq
      BY <1>3, <2>2, <3>2
    <3>4. QED
      BY <3>3 DEF RingSeqs
  <2>4. ASSUME NEW m \in RingSeqs PROVE m \in RingSeqs' \/ m = l
    <3>1. PICK k \in 1..n : m = ring[k].seq
      BY <1>3, <2>4 DEF RingSeqs
    <3>2. CASE k = 1
      BY <1>4, <1>5, <3>1, <3>2
    <3>3. CASE k \in 2..n
      <4>1. n - 1 = Len(ring')
        BY <1>2, <1>3
      <4>2. k - 1 \in 1..Len(ring') /\ m = ring'[k - 1].seq
        BY <2>1, <3>1, <3>3, <4>1
      <4>3. QED
        BY <4>2 DEF RingSeqs
    <3>4. k = 1 \/ k \in 2..n
      BY <1>3
    <3>5. QED
      BY <3>2, <3>3, <3>4
  <2>5. QED
    BY <2>3, <2>4
<1>8. CellsUnique => CellsUnique' /\ l \notin RingSeqs'
  <2> SUFFICES ASSUME CellsUnique PROVE CellsUnique' /\ l \notin RingSeqs'
    OBVIOUS
  <2>1. \A k \in 1..Len(ring') : k + 1 \in 1..n /\ ring'[k] = ring[k + 1]
    BY <1>2, <1>3
  <2>2. \A j, k \in 1..n : ring[j].seq = ring[k].seq => j = k
    BY <1>3 DEF CellsUnique
  <2>3. \A j, k \in 1..Len(ring') : j + 1 = k + 1 => j = k
    OBVIOUS
  <2>4. CellsUnique'
    BY <2>1, <2>2, <2>3 DEF CellsUnique
  <2>5. \A k \in 1..Len(ring') : ring'[k].seq # l
    <3>1. 1 \in 1..n /\ \A k \in 1..Len(ring') : k + 1 # 1
      BY <1>3
    <3>2. QED
      BY <1>4, <1>5, <2>1, <2>2, <3>1
  <2>6. QED
    BY <2>4, <2>5 DEF RingSeqs
<1>9. \A m \in DrainSeqs' : m \in DrainSeqs \/ m = l
  <2> DEFINE old == scratch[t]
  <2>1. old \in Seq(Cell)
    BY <1>1
  <2>2. scratch'[t] = Append(old, head)
    BY <1>1, <1>2, <1>4
  <2>3. \A u \in Threads : u # t => scratch'[u] = scratch[u]
    BY <1>1
  <2> HIDE DEF old
  <2>4. PICK i \in Nat : i = Len(old)
    BY <2>1
  <2>5. /\ Len(scratch'[t]) = i + 1 /\ scratch'[t][i + 1] = head
        /\ \A k \in 1..i : scratch'[t][k] = old[k]
    BY <1>4, <2>1, <2>2, <2>4, AppendProperties
  <2>6. \A k \in 1..(i + 1) : scratch'[t][k].seq = l
          \/ \E j \in 1..Len(scratch[t]) : scratch'[t][k].seq = scratch[t][j].seq
    BY <1>5, <2>4, <2>5 DEF old
  <2>7. ASSUME NEW u \in Threads, NEW k \in 1..Len(scratch'[u])
        PROVE  \/ scratch'[u][k].seq = l
               \/ \E j \in 1..Len(scratch[u]) : scratch'[u][k].seq = scratch[u][j].seq
    <3>1. CASE u = t
      <4>1. k \in 1..(i + 1)
        BY <2>5, <3>1
      <4>2. QED
        BY <2>6, <3>1, <4>1
    <3>2. CASE u # t
      BY <2>3, <3>2
    <3>3. QED
      BY <3>1, <3>2
  <2>8. QED
    <3>1. SUFFICES ASSUME NEW m \in DrainSeqs' PROVE m \in DrainSeqs \/ m = l
      OBVIOUS
    <3>2. PICK u \in Threads : m \in {scratch'[u][k].seq : k \in 1..Len(scratch'[u])}
      BY <3>1 DEF DrainSeqs
    <3>3. m = l \/ \E j \in 1..Len(scratch[u]) : m = scratch[u][j].seq
      BY <2>7, <3>2
    <3>4. CASE m = l
      BY <3>4
    <3>5. CASE \E j \in 1..Len(scratch[u]) : m = scratch[u][j].seq
      BY <3>5 DEF DrainSeqs
    <3>6. QED
      BY <3>3, <3>4, <3>5
<1>10. QED
  BY <1>6, <1>7, <1>8, <1>9

(* A drain that applied its first request has no other LSN than before.    *)
LEMMA ApplySeqs ==
  ASSUME TypeInv, NEW t \in Threads, ApplyNext(t)
  PROVE  \A m \in DrainSeqs' : m \in DrainSeqs
<1>1. /\ scratch \in [Threads -> Seq(Cell)] /\ scratch[t] # <<>>
      /\ scratch' = [scratch EXCEPT ![t] = Tail(scratch[t])]
  BY DEF TypeInv, TypeOK, Shape, ApplyNext
<1>2. scratch'[t] = Tail(scratch[t])
  BY <1>1
<1>3. \A k \in 1..Len(scratch'[t]) : /\ k + 1 \in 1..Len(scratch[t])
                                     /\ scratch'[t][k] = scratch[t][k + 1]
  BY <1>1, <1>2, HeadTailProperties, EmptySeq
<1>4. \A u \in Threads : u # t => scratch'[u] = scratch[u]
  BY <1>1
<1>5. QED
  BY <1>3, <1>4 DEF DrainSeqs

(* The floor is lifted of an LSN the drain holds.                          *)
LEMMA LiftSeqs ==
  ASSUME TypeInv, NEW t \in Threads, LiftFloor(t)
  PROVE  \E l \in DrainSeqs : pending' = pending \ {l}
<1>1. scratch[t] \in Seq(Cell) /\ scratch[t] # <<>>
  BY DEF TypeInv, TypeOK, Shape, LiftFloor
<1>2. 1 \in 1..Len(scratch[t]) /\ Head(scratch[t]) = scratch[t][1]
  BY <1>1, HeadTailProperties, EmptySeq
<1>3. scratch[t][1].seq \in DrainSeqs
  BY <1>2 DEF DrainSeqs
<1>4. QED
  BY <1>2, <1>3 DEF LiftFloor

-----------------------------------------------------------------------------
(* A step that leaves claims and registrations alone, except that a failed *)
(* append sends its write to note_drained, and takes out of the log only   *)
(* what it may.                                                            *)
KeptQuiet ==
  /\ \A f \in wal : f \in wal' \/ f.lsn \notin pending \/ f.lsn \in exposed
  /\ \A l \in exposed : l \in exposed'
  /\ pending' = pending
  /\ \A a \in DurableFrames' : a \in DurableFrames
  /\ \A m \in RingSeqs' : m \in RingSeqs
  /\ CellsUnique'
  /\ \A m \in DrainSeqs' : m \in DrainSeqs
  /\ seq' = seq
  /\ \A c \in Callers : Unclaimed(c)' =>
       pc'[c] = pc[c] \/ (pc[c] = "dappend" /\ pc'[c] = "dundo")
  /\ next <= next'
  /\ \A a \in acked' : a \in acked \/ \E c \in Callers : a.lsn = seq[c]

(* Unlifted, and what KeptInv says of a durable frame, in terms of the    *)
(* sets above.                                                             *)
LEMMA UnliftedMeans ==
  \A a : Unlifted(a) <=> a.lsn \in pending \/ a.lsn \in RingSeqs
  BY DEF Unlifted, RingSeqs

LEMMA KeptMeans ==
  KeptInv => \A a \in DurableFrames :
    a.lsn \in pending \/ a.lsn \in RingSeqs =>
      a.lsn \in pending /\ (a \in wal \/ a.lsn \in exposed)
  BY UnliftedMeans DEF KeptInv, UnliftedFrameKept, Registered

(* UnliftedFrameKept in terms of the sets.                                *)
FrameKept ==
  \A a \in DurableFrames : a.lsn \in pending \/ a.lsn \in RingSeqs =>
    a \in wal \/ a.lsn \in exposed

(* It is the same, before a step and after it.                             *)
LEMMA FrameKeptMeans == UnliftedFrameKept <=> FrameKept
  BY UnliftedMeans DEF UnliftedFrameKept, FrameKept

LEMMA FrameKeptNext == FrameKept' => UnliftedFrameKept'
<1>1. (UnliftedFrameKept <=> FrameKept)'
  BY FrameKeptMeans, PTL
<1>2. QED
  BY <1>1

(* Such a step keeps KeptInv.                                              *)
LEMMA KeptQuietKeeps ==
  ASSUME TypeInv, TypeInv', KeptInv, KeptQuiet, NothingLeft'
  PROVE  KeptInv'
<1> USE DEF KeptQuiet
<1>1. SeqsTyped /\ SeqsTyped'
  BY SeqTypes, SeqTypesNext
<1>2. FrameKept'
  BY KeptMeans DEF FrameKept
<1>3. DrainedLeft'
  BY DEF KeptInv, DrainedLeft
<1>4. UnclaimedFresh'
  BY DEF KeptInv, UnclaimedFresh, Unclaimed, ToClaim
<1>5. Registered'
  BY DEF KeptInv, Registered, Unclaimed, ToClaim
<1>6. SeqsBelowNext'
  BY <1>1 DEF KeptInv, SeqsBelowNext, SeqsTyped
<1>7. QED
  BY <1>2, <1>3, <1>4, <1>5, <1>6, FrameKeptNext DEF KeptInv

(* A step that claims a ring cell for a request whose LSN is nobody's and, *)
(* if the write is durable, pending.                                       *)
LEMMA ClaimKeeps ==
  ASSUME TypeInv, TypeInv', KeptInv, NothingLeft',
         NEW r \in Requests, NEW s \in Nat, Claimed(r, s),
         UNCHANGED <<wal, exposed, pending, scratch, acked>>,
         s \notin RingSeqs, s \notin DrainSeqs, s < next', next <= next',
         \A a \in DurableFrames' : a \in DurableFrames,
         \A a \in DurableFrames : a.lsn = s => s \in pending,
         \A c \in Callers : Unclaimed(c)' =>
           pc'[c] = pc[c] /\ seq'[c] = seq[c] /\ seq[c] # s,
         \A c \in Callers : seq'[c] = seq[c] \/ seq'[c] = s
  PROVE  KeptInv'
<1>1. SeqsTyped /\ SeqsTyped'
  BY SeqTypes, SeqTypesNext
<1>2. RingSeqs' = RingSeqs \union {s} /\ CellsUnique'
  BY ClaimSeqs DEF KeptInv
<1>3. DrainSeqs' = DrainSeqs
  BY DEF DrainSeqs
<1>4. FrameKept'
  BY <1>2, KeptMeans DEF FrameKept
<1>5. DrainedLeft'
  BY <1>2, <1>3 DEF KeptInv, DrainedLeft
<1>6. UnclaimedFresh'
  BY <1>2, <1>3 DEF KeptInv, UnclaimedFresh, Unclaimed
<1>7. Registered'
  BY <1>2 DEF KeptInv, Registered, Unclaimed, ToClaim
<1>8. SeqsBelowNext'
  <2>1. next \in Nat /\ next' \in Nat
    BY <1>1 DEF SeqsTyped
  <2>2. \A l \in Nat : l < next => l < next'
    BY <2>1
  <2>3. \A l \in RingSeqs \union DrainSeqs : l < next'
    BY <1>1, <2>2 DEF KeptInv, SeqsBelowNext, SeqsTyped
  <2>4. /\ \A c \in Callers : seq[c] < next'
        /\ \A a \in acked : a.lsn < next'
    BY <1>1, <2>2 DEF KeptInv, SeqsBelowNext, SeqsTyped
  <2>5. QED
    BY <1>2, <1>3, <2>3, <2>4 DEF SeqsBelowNext
<1>9. QED
  BY <1>2, <1>4, <1>5, <1>6, <1>7, <1>8, FrameKeptNext DEF KeptInv

(* Whose frames are durable changes only where a caller passes             *)
(* append_batch.                                                           *)
LEMMA DurableStill ==
  ASSUME \A c \in Callers : pc'[c] \in {"dclaim", "dpublish"} =>
           pc[c] \in {"dclaim", "dpublish"} /\ op'[c] = op[c] /\ seq'[c] = seq[c],
         \A a \in acked' :
           a \in acked \/ \E c \in Callers : /\ pc[c] \in {"dclaim", "dpublish"}
                                           /\ a = WithLsn(op[c], seq[c])
  PROVE  \A a \in DurableFrames' : a \in DurableFrames
<1>1. DurableAre /\ DurableAre'
  BY DurableMeans, DurableMeansNext
<1>2. QED
  BY <1>1 DEF DurableAre, IsDurable

-----------------------------------------------------------------------------
(* Every step keeps that so.                                               *)
LEMMA NothingLeftNext ==
  ASSUME TypeInv, NothingLeft, Next
  PROVE  NothingLeft'
<1> USE DEF TypeInv, TypeOK, NothingLeft, Threads, Goto, lsnVars, drainVars,
            callVars, history
<1>1. ASSUME NEW c \in Callers, CallBegins(c)
      PROVE  NothingLeft'
  BY <1>1 DEF CallBegins, Submit, DurableAlloc, NowStart
<1>2. ASSUME NEW c \in Callers, CallProceeds(c)
      PROVE  NothingLeft'
  BY <1>2
  DEF CallProceeds, Publish, DurableNote, DurableAppend, DurableAppendFails,
      DurableUndo, DurableClaim, DurablePublish, NowCheck, NowReturnsOk
<1>3. ASSUME NEW t \in Threads,
             Pop(t) \/ PopEnd(t) \/ LiftFloor(t) \/ ApplyNext(t)
      PROVE  NothingLeft'
  BY <1>3 DEF Pop, PopEnd, LiftFloor, ApplyNext
<1>4. ASSUME NEW t \in Threads,
             Take(t) \/ Alloc(t) \/ AppendBatch(t) \/ AppendBatchFails(t)
      PROVE  NothingLeft'
  BY <1>4 DEF Take, Alloc, AppendBatch, AppendBatchFails
<1>5. ASSUME NEW t \in Threads,
             \/ Persist(t) \/ PersistFails(t) \/ Requeue(t)
             \/ Mark(t) \/ Checkpoint(t) \/ CheckpointFails(t)
      PROVE  NothingLeft'
  BY <1>5
  DEF Persist, PersistFails, Requeue, Mark, Checkpoint, CheckpointFails
<1>6. ASSUME WorkerLoop \/ Shutdown
      PROVE  NothingLeft'
  BY <1>6 DEF WorkerLoop, Top, DecideFlush, DecideWait, FlushDone, EndCheck,
              EndAfter, Shutdown
<1>7. ASSUME ShutdownReturns \/ Crash
      PROVE  NothingLeft'
  <2>1. /\ ring' = <<>> /\ pending' = {}
        /\ \A t \in Threads : scratch'[t] = <<>> /\ pc'[t] \in {"idle", "off"}
        /\ \A c \in Callers : seq'[c] = 0
    BY <1>7 DEF ShutdownReturns, Crash, MemoryGone, NoPc, Each
  <2>2. \A a \in acked' : a.lsn = 0
    <3>1. acked' = {[a EXCEPT !.lsn = 0] : a \in acked}
      BY <1>7 DEF ShutdownReturns, Crash, MemoryGone
    <3>2. \A a \in acked : a \in Frame
      OBVIOUS
    <3>3. QED
      BY <3>1, <3>2 DEF Frame
  <2>3. QED
    BY <2>1, <2>2
<1>8. ASSUME Restart
      PROVE  NothingLeft'
  BY <1>8 DEF Restart
<1>9. QED
  BY <1>1, <1>2, <1>3, <1>4, <1>5, <1>6, <1>7, <1>8 DEF Next, FlushPath

(* submit (api.rs): its LSN is new, whether or not the ring has room.      *)
LEMMA SubmitKept ==
  ASSUME TypeInv, TypeInv', KeptInv, NothingLeft',
         NEW c \in Callers, NEW r \in unsent, Submit(c, r)
  PROVE  KeptInv'
<1>1. SeqsTyped
  BY SeqTypes
<1>2. /\ pc[c] = "idle" /\ next' = next + 1 /\ r \in Requests
      /\ UNCHANGED <<wal, exposed, pending, scratch, acked>>
  BY DEF Submit, Requests, walVars, history, drainVars
<1>3. PICK n \in Nat : n = next
  BY <1>1 DEF SeqsTyped
<1>4. n < next' /\ next <= next'
  BY <1>2, <1>3
<1>5. /\ n \notin RingSeqs /\ n \notin DrainSeqs
      /\ \A d \in Callers : seq[d] # n
      /\ \A a \in acked : a.lsn # n
  BY <1>1, <1>3 DEF KeptInv, SeqsBelowNext, SeqsTyped
<1>6. \A a \in DurableFrames : a.lsn # n
  BY <1>5 DEF DurableFrames, WithLsn
<1>7. ASSUME Claimed(r, n), op' = [op EXCEPT ![c] = r],
             seq' = [seq EXCEPT ![c] = n], Goto(c, "publish")
      PROVE  KeptInv'
  <2>1. /\ pc'[c] = "publish" /\ seq'[c] = n
        /\ \A d \in Callers : d # c => /\ pc'[d] = pc[d] /\ op'[d] = op[d]
                                       /\ seq'[d] = seq[d]
    BY <1>7 DEF Goto, TypeInv, TypeOK, Threads
  <2>2. \A a \in DurableFrames' : a \in DurableFrames
    BY <1>2, <2>1, DurableStill
  <2>3. QED
    BY <1>2, <1>4, <1>5, <1>6, <1>7, <2>1, <2>2, ClaimKeeps DEF Unclaimed, ToClaim
<1>8. ASSUME UNCHANGED <<ring, op, seq, pc>>
      PROVE  KeptInv'
  <2>1. \A a \in DurableFrames' : a \in DurableFrames
    BY <1>2, <1>8, DurableStill
  <2>2. KeptQuiet
    BY <1>2, <1>4, <1>8, <2>1
    DEF KeptQuiet, Unclaimed, RingSeqs, DrainSeqs, KeptInv, CellsUnique
  <2>3. QED
    BY <2>2, KeptQuietKeeps
<1>9. QED
  BY <1>3, <1>7, <1>8 DEF Submit

(* submit_durable (api.rs) on its way to its frame.                        *)
LEMMA DurableAllocKept ==
  ASSUME TypeInv, TypeInv', KeptInv, NothingLeft',
         NEW c \in Callers, NEW r \in unsent, DurableAlloc(c, r)
  PROVE  KeptInv'
<1>1. SeqsTyped
  BY SeqTypes
<1>2. /\ pc[c] = "idle" /\ next' = next + 1
      /\ UNCHANGED <<wal, exposed, pending, ring, scratch, acked>>
      /\ pc'[c] = "dnote" /\ seq'[c] = next
      /\ \A d \in Callers : d # c => /\ pc'[d] = pc[d] /\ op'[d] = op[d]
                                     /\ seq'[d] = seq[d]
  BY DEF DurableAlloc, walVars, history, drainVars, Goto, TypeInv, TypeOK, Threads
<1>3. PICK n \in Nat : n = next
  BY <1>1 DEF SeqsTyped
<1>4. n < next' /\ \A l \in Nat : l < n => l < next'
  BY <1>2, <1>3
<1>5. /\ n \notin RingSeqs /\ n \notin DrainSeqs
      /\ \A d \in Callers : seq[d] # n
      /\ \A a \in acked : a.lsn # n
  BY <1>1, <1>3 DEF KeptInv, SeqsBelowNext, SeqsTyped
<1>6. \A a \in DurableFrames : a.lsn # n
  BY <1>5 DEF DurableFrames, WithLsn
<1>7. RingSeqs' = RingSeqs /\ DrainSeqs' = DrainSeqs /\ CellsUnique'
  BY <1>2 DEF RingSeqs, DrainSeqs, KeptInv, CellsUnique
<1>8. \A a \in DurableFrames' : a \in DurableFrames
  BY <1>2, DurableStill
<1>9. FrameKept'
  BY <1>2, <1>7, <1>8, KeptMeans DEF FrameKept
<1>10. DrainedLeft'
  BY <1>7 DEF KeptInv, DrainedLeft
<1>11. UnclaimedFresh'
  BY <1>2, <1>3, <1>5, <1>6, <1>7, <1>8 DEF KeptInv, UnclaimedFresh, Unclaimed
<1>12. Registered'
  BY <1>2, <1>7, <1>8 DEF KeptInv, Registered
<1>13. SeqsBelowNext'
  BY <1>1, <1>2, <1>3, <1>4, <1>7 DEF KeptInv, SeqsBelowNext, SeqsTyped
<1>14. QED
  BY <1>7, <1>9, <1>10, <1>11, <1>12, <1>13, FrameKeptNext DEF KeptInv

(* note_pending (lsn.rs) raises a floor no earlier write stands on.        *)
LEMMA DurableNoteKept ==
  ASSUME TypeInv, TypeInv', KeptInv, NothingLeft',
         NEW c \in Callers, DurableNote(c)
  PROVE  KeptInv'
<1>1. /\ pc[c] = "dnote" /\ pending' = pending \union {seq[c]}
      /\ UNCHANGED <<wal, ring, scratch, acked, op, seq, next>>
      /\ \A l \in exposed : l \in exposed'
      /\ pc'[c] = "dappend"
      /\ \A d \in Callers : d # c => pc'[d] = pc[d]
  BY DEF DurableNote, walVars, drainVars, callVars, Goto, TypeInv, TypeOK, Threads
<1>2. RingSeqs' = RingSeqs /\ DrainSeqs' = DrainSeqs /\ CellsUnique'
  BY <1>1 DEF RingSeqs, DrainSeqs, KeptInv, CellsUnique
<1>3. \A a \in DurableFrames' : a \in DurableFrames
  BY <1>1, DurableStill
<1>4. \A a \in DurableFrames : a.lsn # seq[c]
  BY <1>1 DEF KeptInv, UnclaimedFresh, Unclaimed, ToClaim
<1>5. FrameKept'
  BY <1>1, <1>2, <1>3, <1>4, KeptMeans DEF FrameKept
<1>6. DrainedLeft'
  BY <1>2 DEF KeptInv, DrainedLeft
<1>7. UnclaimedFresh'
  BY <1>1, <1>2, <1>3 DEF KeptInv, UnclaimedFresh, Unclaimed, ToClaim
<1>8. Registered'
  BY <1>1, <1>2, <1>3 DEF KeptInv, Registered
<1>9. SeqsBelowNext'
  BY <1>1, <1>2 DEF KeptInv, SeqsBelowNext
<1>10. QED
  BY <1>2, <1>5, <1>6, <1>7, <1>8, <1>9, FrameKeptNext DEF KeptInv

(* append_batch answers Ok: the frame is in the log, its LSN pending.      *)
LEMMA DurableAppendKept ==
  ASSUME TypeInv, TypeInv', KeptInv, NothingLeft',
         NEW c \in Callers, DurableAppend(c)
  PROVE  KeptInv'
<1>1. /\ pc[c] = "dappend" /\ WithLsn(op[c], seq[c]) \in wal'
      /\ \A f \in wal : f \in wal'
      /\ UNCHANGED <<ring, scratch, acked, op, seq, next, pending, exposed>>
      /\ pc'[c] = "dclaim"
      /\ \A d \in Callers : d # c => pc'[d] = pc[d]
  BY DEF DurableAppend, AppendOk, lsnVars, drainVars, callVars, Goto, TypeInv,
         TypeOK, Threads
<1>2. RingSeqs' = RingSeqs /\ DrainSeqs' = DrainSeqs /\ CellsUnique'
  BY <1>1 DEF RingSeqs, DrainSeqs, KeptInv, CellsUnique
<1>3. \A a \in DurableFrames' : a \in DurableFrames \/ a = WithLsn(op[c], seq[c])
  <2>1. DurableAre /\ DurableAre'
    BY DurableMeans, DurableMeansNext
  <2>2. QED
    BY <1>1, <2>1 DEF DurableAre, IsDurable
<1>4. /\ WithLsn(op[c], seq[c]).lsn = seq[c]
      /\ seq[c] \in pending /\ seq[c] \notin RingSeqs
  BY <1>1 DEF WithLsn, KeptInv, Registered, UnclaimedFresh, Unclaimed, ToClaim
<1>5. FrameKept'
  BY <1>1, <1>2, <1>3, <1>4, KeptMeans DEF FrameKept
<1>6. DrainedLeft'
  BY <1>2 DEF KeptInv, DrainedLeft
<1>7. UnclaimedFresh'
  BY <1>1, <1>2, <1>3, <1>4 DEF KeptInv, UnclaimedFresh, Unclaimed, ToClaim
<1>8. Registered'
  BY <1>1, <1>2, <1>3, <1>4 DEF KeptInv, Registered
<1>9. SeqsBelowNext'
  BY <1>1, <1>2 DEF KeptInv, SeqsBelowNext
<1>10. QED
  BY <1>2, <1>5, <1>6, <1>7, <1>8, <1>9, FrameKeptNext DEF KeptInv

(* note_drained after a failed append: no durable write had that LSN.      *)
LEMMA DurableUndoKept ==
  ASSUME TypeInv, TypeInv', KeptInv, NothingLeft',
         NEW c \in Callers, DurableUndo(c)
  PROVE  KeptInv'
<1>1. /\ pc[c] = "dundo" /\ pending' = pending \ {seq[c]}
      /\ UNCHANGED <<wal, ring, scratch, acked, op, seq, next, exposed>>
      /\ pc'[c] = "idle"
      /\ \A d \in Callers : d # c => pc'[d] = pc[d]
  BY DEF DurableUndo, walVars, drainVars, callVars, history, Goto, TypeInv,
         TypeOK, Threads
<1>2. RingSeqs' = RingSeqs /\ DrainSeqs' = DrainSeqs /\ CellsUnique'
  BY <1>1 DEF RingSeqs, DrainSeqs, KeptInv, CellsUnique
<1>3. \A a \in DurableFrames' : a \in DurableFrames
  BY <1>1, DurableStill
<1>4. seq[c] \notin RingSeqs
  BY <1>1 DEF KeptInv, UnclaimedFresh, Unclaimed, ToClaim
<1>5. FrameKept'
  BY <1>1, <1>2, <1>3, KeptMeans DEF FrameKept
<1>6. DrainedLeft'
  BY <1>2 DEF KeptInv, DrainedLeft
<1>7. UnclaimedFresh'
  BY <1>1, <1>2, <1>3 DEF KeptInv, UnclaimedFresh, Unclaimed, ToClaim
<1>8. Registered'
  BY <1>1, <1>2, <1>3, <1>4
  DEF KeptInv, Registered, UnclaimedFresh, Unclaimed, ToClaim
<1>9. SeqsBelowNext'
  BY <1>1, <1>2 DEF KeptInv, SeqsBelowNext
<1>10. QED
  BY <1>2, <1>5, <1>6, <1>7, <1>8, <1>9, FrameKeptNext DEF KeptInv

(* The best-effort enqueue of submit_durable, taken or shed.               *)
LEMMA DurableClaimKept ==
  ASSUME TypeInv, TypeInv', KeptInv, NothingLeft',
         NEW c \in Callers, DurableClaim(c)
  PROVE  KeptInv'
<1>1. /\ pc[c] = "dclaim" /\ op[c] \in Requests /\ seq[c] \in Nat
      /\ UNCHANGED <<wal, exposed, pending, scratch, op, seq, next>>
      /\ pc'[c] \in {"dpublish", "idle"}
      /\ \A d \in Callers : d # c => pc'[d] = pc[d]
  BY DEF DurableClaim, walVars, lsnVars, drainVars, callVars, Goto, TypeInv,
         TypeOK, Shape, Submitting, Threads
<1>2. PICK n \in Nat : n = seq[c]
  BY <1>1
<1>3. /\ n \notin RingSeqs /\ n \notin DrainSeqs /\ n \in pending /\ n < next'
      /\ \A d \in Callers : Unclaimed(d)' =>
           pc'[d] = pc[d] /\ seq'[d] = seq[d] /\ seq[d] # n
  BY <1>1, <1>2 DEF KeptInv, UnclaimedFresh, Registered, SeqsBelowNext,
                    Unclaimed, ToClaim
<1>4. next <= next'
  BY <1>1, SeqTypes DEF SeqsTyped
<1>5. ASSUME Claimed(op[c], n), UNCHANGED acked
      PROVE  KeptInv'
  <2>1. \A a \in DurableFrames' : a \in DurableFrames
    BY <1>1, <1>5, DurableStill
  <2>2. PICK r \in Requests : r = op[c]
    BY <1>1
  <2>3. Claimed(r, n)
    BY <1>5, <2>2
  <2>4. QED
    BY <1>1, <1>3, <1>4, <1>5, <2>1, <2>3, ClaimKeeps
<1>6. ASSUME Ack(c), UNCHANGED ring
      PROVE  KeptInv'
  <2>1. \A a \in acked' : a \in acked \/ a = WithLsn(op[c], seq[c])
    BY <1>6 DEF Ack
  <2>2. \A a \in DurableFrames' : a \in DurableFrames
    BY <1>1, <2>1, DurableStill
  <2>3. WithLsn(op[c], seq[c]).lsn = seq[c]
    BY DEF WithLsn
  <2>4. KeptQuiet
    BY <1>1, <1>3, <1>4, <1>6, <2>1, <2>2, <2>3
    DEF KeptQuiet, RingSeqs, DrainSeqs, KeptInv, CellsUnique
  <2>5. QED
    BY <2>4, KeptQuietKeeps
<1>7. QED
  BY <1>2, <1>5, <1>6 DEF DurableClaim

(* The stamp stores of both submissions.                                   *)
LEMMA PublishKept ==
  ASSUME TypeInv, TypeInv', KeptInv, NothingLeft',
         NEW c \in Callers, Publish(c) \/ DurablePublish(c)
  PROVE  KeptInv'
<1>1. /\ UNCHANGED <<wal, exposed, pending, scratch, op, seq, next>>
      /\ pc'[c] = "idle" /\ ring' = Published(seq[c])
      /\ \A d \in Callers : d # c => pc'[d] = pc[d]
  BY DEF Publish, DurablePublish, walVars, lsnVars, drainVars, callVars, Goto,
         TypeInv, TypeOK, Threads
<1>2. \A a \in acked' : a \in acked \/ (/\ pc[c] = "dpublish"
                                       /\ a = WithLsn(op[c], seq[c]))
  BY DEF Publish, DurablePublish, Ack
<1>3. \A a \in DurableFrames' : a \in DurableFrames
  BY <1>1, <1>2, DurableStill
<1>4. RingSeqs' = RingSeqs /\ CellsUnique'
  BY <1>1, PublishSeqs DEF KeptInv
<1>5. next <= next'
  BY <1>1, SeqTypes DEF SeqsTyped
<1>6. WithLsn(op[c], seq[c]).lsn = seq[c]
  BY DEF WithLsn
<1>7. \A d \in Callers : Unclaimed(d)' => pc'[d] = pc[d]
  BY <1>1 DEF Unclaimed, ToClaim
<1>8. DrainSeqs' = DrainSeqs
  BY <1>1 DEF DrainSeqs
<1>9. KeptQuiet
  BY <1>1, <1>2, <1>3, <1>4, <1>5, <1>6, <1>7, <1>8 DEF KeptQuiet
<1>10. QED
  BY <1>9, KeptQuietKeeps

(* A pop moves a request from the ring to a drain; it is pending before,   *)
(* and still is.                                                           *)
LEMMA PopKept ==
  ASSUME TypeInv, TypeInv', KeptInv, NothingLeft',
         NEW t \in Threads, Pop(t)
  PROVE  KeptInv'
<1>1. UNCHANGED <<wal, exposed, pending, acked, op, seq, next, pc>>
  BY DEF Pop, walVars, lsnVars, callVars, history
<1>2. PICK l \in RingSeqs :
        /\ \A m \in RingSeqs' : m \in RingSeqs
        /\ \A m \in RingSeqs : m \in RingSeqs' \/ m = l
        /\ CellsUnique => CellsUnique' /\ l \notin RingSeqs'
        /\ \A m \in DrainSeqs' : m \in DrainSeqs \/ m = l
  BY PopSeqs
<1>3. CellsUnique' /\ l \notin RingSeqs'
  BY <1>2 DEF KeptInv
<1>4. \A a \in DurableFrames' : a \in DurableFrames
  BY <1>1, DurableStill
<1>5. FrameKept'
  BY <1>1, <1>2, <1>4, KeptMeans DEF FrameKept
<1>6. DrainedLeft'
  BY <1>2, <1>3 DEF KeptInv, DrainedLeft
<1>7. UnclaimedFresh'
  BY <1>1, <1>2, <1>4 DEF KeptInv, UnclaimedFresh, Unclaimed
<1>8. Registered'
  BY <1>1, <1>2, <1>4 DEF KeptInv, Registered
<1>9. SeqsBelowNext'
  BY <1>1, <1>2 DEF KeptInv, SeqsBelowNext
<1>10. QED
  BY <1>3, <1>5, <1>6, <1>7, <1>8, <1>9, FrameKeptNext DEF KeptInv

(* note_drained lifts the floor of a request that has left the ring.       *)
LEMMA LiftFloorKept ==
  ASSUME TypeInv, TypeInv', KeptInv, NothingLeft',
         NEW t \in Threads, LiftFloor(t)
  PROVE  KeptInv'
<1>1. /\ UNCHANGED <<wal, exposed, ring, scratch, acked, op, seq, next>>
      /\ \A c \in Callers : pc'[c] = pc[c] \/ pc'[c] = "apply"
  BY DEF LiftFloor, walVars, drainVars, callVars, history, Goto, TypeInv, TypeOK,
         Threads
<1>2. PICK l \in DrainSeqs : pending' = pending \ {l}
  BY LiftSeqs
<1>3. RingSeqs' = RingSeqs /\ DrainSeqs' = DrainSeqs /\ CellsUnique'
  BY <1>1 DEF RingSeqs, DrainSeqs, KeptInv, CellsUnique
<1>4. \A a \in DurableFrames' : a \in DurableFrames
  BY <1>1, DurableStill
<1>5. FrameKept'
  BY <1>1, <1>2, <1>3, <1>4, KeptMeans DEF FrameKept
<1>6. DrainedLeft'
  BY <1>3 DEF KeptInv, DrainedLeft
<1>7. UnclaimedFresh'
  BY <1>1, <1>3, <1>4 DEF KeptInv, UnclaimedFresh, Unclaimed, ToClaim
<1>8. Registered'
  BY <1>1, <1>2, <1>3, <1>4
  DEF KeptInv, Registered, UnclaimedFresh, DrainedLeft, Unclaimed, ToClaim
<1>9. SeqsBelowNext'
  BY <1>1, <1>3 DEF KeptInv, SeqsBelowNext
<1>10. QED
  BY <1>3, <1>5, <1>6, <1>7, <1>8, <1>9, FrameKeptNext DEF KeptInv

(* The steps that leave ring, LSNs and registrations alone.                *)
KeptStill ==
  /\ UNCHANGED <<pending, acked, exposed, op, seq, ring>>
  /\ \A c \in Callers :
       \/ pc'[c] = pc[c]
       \/ pc'[c] \notin {"dnote", "dappend", "dundo", "dclaim", "dpublish"}
       \/ pc[c] = "dappend" /\ pc'[c] = "dundo"
  /\ \A f \in wal : f \in wal' \/ f.lsn \notin pending \/ f.lsn \in exposed
  /\ scratch' = scratch \/ \A m \in DrainSeqs' : m \in DrainSeqs
  /\ next' = next \/ next <= next'

(* They keep KeptInv.                                                      *)
LEMMA KeptStillKeeps ==
  ASSUME TypeInv, TypeInv', KeptInv, NothingLeft', KeptStill
  PROVE  KeptInv'
<1>0. next <= next' /\ \A m \in DrainSeqs' : m \in DrainSeqs
  <2>1. next \in Nat
    BY SeqTypes DEF SeqsTyped
  <2>2. scratch' = scratch => DrainSeqs' = DrainSeqs
    BY DEF DrainSeqs
  <2>3. QED
    BY <2>1, <2>2 DEF KeptStill
<1>1. \A a \in DurableFrames' : a \in DurableFrames
  BY DurableStill DEF KeptStill
<1>2. KeptQuiet
  BY <1>0, <1>1
  DEF KeptStill, KeptQuiet, Unclaimed, ToClaim, RingSeqs, KeptInv, CellsUnique
<1>3. QED
  BY <1>2, KeptQuietKeeps

(* checkpoint (wal.rs) discards nothing that is pending and was registered *)
(* in time.                                                                *)
LEMMA CheckpointKept ==
  ASSUME TypeInv, TypeInv', KeptInv, FloorRespected, NothingLeft',
         NEW t \in Threads, Checkpoint(t)
  PROVE  KeptInv'
<1>1. /\ UNCHANGED <<pending, acked, exposed, op, seq, ring, scratch, next>>
      /\ pc[t] = "ckpt" /\ wal' = {f \in wal \union walBuf : f.lsn > upTo[t]}
      /\ \A c \in Callers : pc'[c] = pc[c] \/ pc'[c] \in {"check", "take"}
  BY DEF Checkpoint, AfterBatch, lsnVars, drainVars, callVars, history, Goto,
         TypeInv, TypeOK, Threads
<1>2. ASSUME NEW f \in wal, f.lsn \in pending
      PROVE  f \in wal' \/ f.lsn \in exposed
  <2>1. f.lsn \in Nat /\ upTo[t] \in Nat
    BY DEF TypeInv, TypeOK, Frame
  <2>2. QED
    BY <1>1, <1>2, <2>1 DEF FloorRespected
<1>3. next <= next' /\ DrainSeqs' = DrainSeqs
  BY <1>1, SeqTypes DEF SeqsTyped, DrainSeqs
<1>4. KeptStill
  BY <1>1, <1>2, <1>3 DEF KeptStill
<1>5. QED
  BY <1>4, KeptStillKeeps

(* A new process, and one that is gone, has no durable frame of its own.   *)
Started ==
  /\ ring = <<>> /\ pending = {}
  /\ \A t \in Threads : /\ scratch[t] = <<>>
                        /\ pc[t] \in {"idle", "off", "top"}
  /\ \A c \in Callers : seq[c] = 0
  /\ \A a \in acked : a.lsn = 0

(* Such a state has KeptInv, and such are the ends of shutdown, of a crash *)
(* and of a restart.                                                       *)
LEMMA StartedKept == TypeInv /\ Started /\ NothingLeft => KeptInv
<1> SUFFICES ASSUME TypeInv, Started, NothingLeft PROVE KeptInv
  OBVIOUS
<1>1. RingSeqs = {} /\ DrainSeqs = {}
  <2>1. \A k \in 1..Len(ring) : FALSE
    BY DEF Started
  <2>2. \A t \in Threads : \A k \in 1..Len(scratch[t]) : FALSE
    BY DEF Started
  <2>3. QED
    BY <2>1, <2>2 DEF RingSeqs, DrainSeqs
<1>2. CellsUnique
  BY DEF Started, CellsUnique
<1>3. \A c \in Callers : pc[c] \in {"idle", "off", "top"}
  BY DEF Started, Threads
<1>4. FrameKept /\ DrainedLeft /\ UnclaimedFresh /\ Registered
  BY <1>1, <1>3
  DEF Started, FrameKept, DrainedLeft, UnclaimedFresh, Registered, Unclaimed,
      ToClaim
<1>5. SeqsBelowNext
  BY <1>1, SeqTypes DEF Started, SeqsBelowNext, SeqsTyped
<1>6. QED
  BY <1>2, <1>4, <1>5, FrameKeptMeans DEF KeptInv

LEMMA NewProcessKept ==
  ASSUME TypeInv, TypeInv', KeptInv, NothingLeft',
         ShutdownReturns \/ Crash \/ Restart
  PROVE  KeptInv'
<1>1. Started'
  <2>1. CASE ShutdownReturns \/ Crash
    BY <2>1 DEF Started, ShutdownReturns, Crash, NothingLeft
  <2>2. CASE Restart
    BY <2>2
    DEF Started, Restart, KeptInv, NothingLeft, drainVars, callVars, FreshPc
  <2>3. QED
    BY <2>1, <2>2
<1>2. (TypeInv /\ Started /\ NothingLeft => KeptInv)'
  BY StartedKept, PTL
<1>3. QED
  BY <1>1, <1>2

(* Every step keeps what the floor buys.                                   *)
LEMMA KeptNext ==
  ASSUME TypeInv, TypeInv', KeptInv, FloorRespected, Next
  PROVE  KeptInv'
<1>1. NothingLeft'
  BY NothingLeftNext DEF KeptInv
<1> USE DEF TypeInv, TypeOK, Threads, Goto, KeptStill, lsnVars, walVars,
            drainVars, callVars, flushVars, history
<1>2. ASSUME NEW c \in Callers, DurableAppendFails(c)
      PROVE  KeptInv'
  <2>1. KeptStill
    BY <1>2 DEF DurableAppendFails, AppendErr
  <2>2. QED
    BY <1>1, <2>1, KeptStillKeeps
<1>3. ASSUME NEW c \in Callers, NowStart(c) \/ NowCheck(c) \/ NowReturnsOk(c)
      PROVE  KeptInv'
  <2>1. KeptStill
    BY <1>3 DEF NowStart, NowCheck, NowReturnsOk
  <2>2. QED
    BY <1>1, <2>1, KeptStillKeeps
<1>4. ASSUME NEW t \in Threads, PopEnd(t)
      PROVE  KeptInv'
  <2>1. KeptStill
    BY <1>4 DEF PopEnd
  <2>2. QED
    BY <1>1, <2>1, KeptStillKeeps
<1>5. ASSUME NEW t \in Threads, ApplyNext(t)
      PROVE  KeptInv'
  <2>1. \A m \in DrainSeqs' : m \in DrainSeqs
    BY <1>5, ApplySeqs
  <2>2. pc' = [pc EXCEPT ![t] = IF Tail(scratch[t]) # <<>> THEN "lift"
                                ELSE IF IsCaller(t) /\ moved[t] = FlushMaxBatch
                                     THEN "pop" ELSE ret[t]]
    BY <1>5 DEF ApplyNext
  <2>3. \A c \in Callers : pc'[c] = pc[c]
          \/ pc'[c] \in {"lift", "pop", "decide", "check", "take", "endcheck"}
    BY <2>2
  <2>4. /\ UNCHANGED <<pending, acked, exposed, op, seq, ring, wal, next>>
    BY <1>5 DEF ApplyNext
  <2>5. KeptStill
    BY <2>1, <2>3, <2>4
  <2>6. QED
    BY <1>1, <2>5, KeptStillKeeps
<1>6. ASSUME NEW t \in Threads,
             Take(t) \/ Alloc(t) \/ AppendBatch(t) \/ AppendBatchFails(t)
      PROVE  KeptInv'
  <2>1. CASE Alloc(t)
    <3>1. next <= next'
      BY <2>1, BlockStamped
    <3>2. KeptStill
      BY <2>1, <3>1 DEF Alloc
    <3>3. QED
      BY <1>1, <3>2, KeptStillKeeps
  <2>2. CASE Take(t) \/ AppendBatch(t) \/ AppendBatchFails(t)
    <3>1. KeptStill
      BY <2>2 DEF Take, AppendBatch, AppendBatchFails, AppendOk, AppendErr
    <3>2. QED
      BY <1>1, <3>1, KeptStillKeeps
  <2>3. QED
    BY <1>6, <2>1, <2>2
<1>7. ASSUME NEW t \in Threads,
             \/ Persist(t) \/ PersistFails(t) \/ Requeue(t)
             \/ Mark(t) \/ CheckpointFails(t)
      PROVE  KeptInv'
  <2>1. KeptStill
    BY <1>7, ZenonT(30) DEF Persist, PersistFails, Requeue, FlushLoop, Mark, CheckpointFails,
                AfterBatch
  <2>2. QED
    BY <1>1, <2>1, KeptStillKeeps
<1>8. ASSUME WorkerLoop \/ Shutdown
      PROVE  KeptInv'
  <2>1. \A c \in Callers : pc'[c] = pc[c]
    BY <1>8, WorkerAssumption
    DEF WorkerLoop, Top, DecideFlush, DecideWait, FlushDone, EndCheck, EndAfter,
        Shutdown
  <2>2. UNCHANGED <<pending, acked, exposed, op, seq, ring, scratch, wal, next>>
    BY <1>8 DEF WorkerLoop, Top, DecideFlush, DecideWait, FlushDone, EndCheck,
                EndAfter, Shutdown
  <2>3. KeptStill
    BY <2>1, <2>2
  <2>4. QED
    BY <1>1, <2>3, KeptStillKeeps
<1>9. QED
  BY <1>1, <1>2, <1>3, <1>4, <1>5, <1>6, <1>7, <1>8, SubmitKept,
     DurableAllocKept, DurableNoteKept, DurableAppendKept, DurableUndoKept,
     DurableClaimKept, PublishKept, PopKept, LiftFloorKept, CheckpointKept,
     NewProcessKept
  DEF Next, CallBegins, CallProceeds, FlushPath

(* A step that takes out of pending only what a drain has taken over or no *)
(* durable frame has, and adds durable frames only with their LSN pending. *)
LEMMA PendingStill ==
  ASSUME UndrainedPending,
         \A a \in DurableFrames' : a \in DurableFrames \/ a.lsn \in pending',
         \A l \in pending : \/ l \in pending' \/ l \in drained'
                           \/ \A a \in DurableFrames : a.lsn # l,
         \A l \in drained : l \in drained'
  PROVE  UndrainedPending'
  BY DEF UndrainedPending

(* Every step keeps it so.                                                 *)
LEMMA PendingNext ==
  ASSUME TypeInv, TypeInv', KeptInv, KeptInv', UndrainedPending, Next
  PROVE  UndrainedPending'
<1> USE DEF TypeInv, TypeOK, Threads, Goto, lsnVars, drainVars, callVars, history
<1>1. ASSUME NEW c \in Callers, CallBegins(c)
      PROVE  UndrainedPending'
  <2>1. /\ UNCHANGED <<pending, drained, acked>>
        /\ \A d \in Callers : pc'[d] \in {"dclaim", "dpublish"} =>
             pc[d] = pc'[d] /\ op'[d] = op[d] /\ seq'[d] = seq[d]
    BY <1>1 DEF CallBegins, Submit, DurableAlloc, NowStart
  <2>2. \A a \in DurableFrames' : a \in DurableFrames
    BY <2>1, DurableStill
  <2>3. QED
    BY <2>1, <2>2, PendingStill
<1>2. ASSUME NEW c \in Callers, DurableAppend(c)
      PROVE  UndrainedPending'
  <2>1. /\ UNCHANGED <<pending, drained, acked, op, seq>>
        /\ pc[c] = "dappend" /\ \A d \in Callers : d # c => pc'[d] = pc[d]
    BY <1>2 DEF DurableAppend
  <2>2. \A a \in DurableFrames' : a \in DurableFrames \/ a = WithLsn(op[c], seq[c])
    <3>1. DurableAre /\ DurableAre'
      BY DurableMeans, DurableMeansNext
    <3>2. QED
      BY <2>1, <3>1 DEF DurableAre, IsDurable
  <2>3. WithLsn(op[c], seq[c]).lsn \in pending
    BY <2>1 DEF KeptInv, Registered, WithLsn
  <2>4. QED
    BY <2>1, <2>2, <2>3, PendingStill
<1>3. ASSUME NEW c \in Callers, DurableUndo(c)
      PROVE  UndrainedPending'
  <2>1. /\ UNCHANGED <<drained, acked, op, seq>> /\ pending' = pending \ {seq[c]}
        /\ pc[c] = "dundo"
        /\ \A d \in Callers : pc'[d] = pc[d] \/ pc'[d] = "idle"
    BY <1>3 DEF DurableUndo
  <2>2. \A a \in DurableFrames' : a \in DurableFrames
    BY <2>1, DurableStill
  <2>3. \A a \in DurableFrames : a.lsn # seq[c]
    BY <2>1 DEF KeptInv, UnclaimedFresh, Unclaimed, ToClaim
  <2>4. QED
    BY <2>1, <2>2, <2>3, PendingStill
<1>4. ASSUME NEW c \in Callers,
             \/ Publish(c) \/ DurableNote(c) \/ DurableAppendFails(c)
             \/ DurableClaim(c) \/ DurablePublish(c)
             \/ NowCheck(c) \/ NowReturnsOk(c)
      PROVE  UndrainedPending'
  <2>1. /\ UNCHANGED <<drained, op, seq>> /\ \A l \in pending : l \in pending'
        /\ \A d \in Callers : pc'[d] \in {"dclaim", "dpublish"} =>
             pc[d] \in {"dclaim", "dpublish"}
    BY <1>4
    DEF Publish, DurableNote, DurableAppendFails, DurableClaim, DurablePublish,
        NowCheck, NowReturnsOk
  <2>2. \A a \in acked' : a \in acked \/ (/\ pc[c] \in {"dclaim", "dpublish"}
                                         /\ a = WithLsn(op[c], seq[c]))
    BY <1>4
    DEF Publish, DurableNote, DurableAppendFails, DurableClaim, DurablePublish,
        Ack, NowCheck, NowReturnsOk
  <2>3. \A a \in DurableFrames' : a \in DurableFrames
    BY <2>1, <2>2, DurableStill
  <2>4. QED
    BY <2>1, <2>3, PendingStill
<1>5. ASSUME NEW t \in Threads, LiftFloor(t)
      PROVE  UndrainedPending'
  <2>1. /\ UNCHANGED <<acked, op, seq>>
        /\ \A l \in pending : l \in pending' \/ l \in drained'
        /\ \A l \in drained : l \in drained'
        /\ \A d \in Callers : pc'[d] = pc[d] \/ pc'[d] = "apply"
    BY <1>5 DEF LiftFloor
  <2>2. \A a \in DurableFrames' : a \in DurableFrames
    BY <2>1, DurableStill
  <2>3. QED
    BY <2>1, <2>2, PendingStill
<1>6. ASSUME NEW t \in Threads,
             \/ Pop(t) \/ PopEnd(t) \/ ApplyNext(t)
             \/ Take(t) \/ Alloc(t) \/ AppendBatch(t) \/ AppendBatchFails(t)
      PROVE  UndrainedPending'
  <2>1. UNCHANGED <<pending, drained, acked, op, seq>>
    BY <1>6 DEF Pop, PopEnd, ApplyNext, Take, Alloc, AppendBatch, AppendBatchFails
  <2>2. ret[t] \in {"decide", "check", "take", "endcheck"}
    OBVIOUS
  <2>3. \A d \in Callers : pc'[d] \in {"dclaim", "dpublish"} => pc[d] = pc'[d]
    BY <1>6, <2>2
    DEF Pop, PopEnd, ApplyNext, Take, Alloc, AppendBatch, AppendBatchFails
  <2>4. \A a \in DurableFrames' : a \in DurableFrames
    BY <2>1, <2>3, DurableStill
  <2>5. QED
    BY <2>1, <2>4, PendingStill
<1>7. ASSUME NEW t \in Threads,
             \/ Persist(t) \/ PersistFails(t) \/ Requeue(t)
             \/ Mark(t) \/ Checkpoint(t) \/ CheckpointFails(t)
      PROVE  UndrainedPending'
  <2>1. UNCHANGED <<pending, drained, acked, op, seq>>
    BY <1>7 DEF Persist, PersistFails, Requeue, Mark, Checkpoint, CheckpointFails
  <2>2. \A d \in Callers : pc'[d] \in {"dclaim", "dpublish"} => pc[d] = pc'[d]
    BY <1>7
    DEF Persist, PersistFails, Requeue, Mark, Checkpoint, CheckpointFails,
        AfterBatch, FlushLoop
  <2>3. \A a \in DurableFrames' : a \in DurableFrames
    BY <2>1, <2>2, DurableStill
  <2>4. QED
    BY <2>1, <2>3, PendingStill
<1>8. ASSUME WorkerLoop \/ Shutdown
      PROVE  UndrainedPending'
  <2>1. UNCHANGED <<pending, drained, acked, op, seq>>
    BY <1>8 DEF WorkerLoop, Top, DecideFlush, DecideWait, FlushDone, EndCheck,
                EndAfter, Shutdown
  <2>2. \A d \in Callers : pc'[d] = pc[d]
    BY <1>8, WorkerAssumption
    DEF WorkerLoop, Top, DecideFlush, DecideWait, FlushDone, EndCheck, EndAfter,
        Shutdown
  <2>3. \A a \in DurableFrames' : a \in DurableFrames
    BY <2>1, <2>2, DurableStill
  <2>4. QED
    BY <2>1, <2>3, PendingStill
<1>9. ASSUME ShutdownReturns \/ Crash \/ Restart
      PROVE  UndrainedPending'
  <2>1. \A c \in Callers : pc'[c] \notin {"dclaim", "dpublish"}
    BY <1>9, WorkerAssumption
    DEF ShutdownReturns, Crash, Restart, MemoryGone, NoPc, FreshPc
  <2>2. \A a \in acked' : a.lsn = 0
    <3>1. CASE ShutdownReturns \/ Crash
      <4>1. acked' = {[a EXCEPT !.lsn = 0] : a \in acked}
        BY <3>1 DEF ShutdownReturns, Crash, MemoryGone
      <4>2. \A a \in acked : a \in Frame
        OBVIOUS
      <4>3. QED
        BY <4>1, <4>2 DEF Frame
    <3>2. CASE Restart
      BY <3>2 DEF Restart, KeptInv, NothingLeft
    <3>3. QED
      BY <1>9, <3>1, <3>2
  <2>3. \A a \in DurableFrames' : FALSE
    BY <2>1, <2>2 DEF DurableFrames
  <2>4. QED
    BY <2>3 DEF UndrainedPending
<1>10. QED
  BY <1>1, <1>2, <1>3, <1>4, <1>5, <1>6, <1>7, <1>8, <1>9
  DEF Next, CallProceeds, FlushPath

(* What the floor buys a durable write (api.rs submit_durable, lsn.rs):    *)
(* until a drain takes it over its frame stays in the log, whether the     *)
(* ring took its copy or shed it, unless it was registered after some      *)
(* thread had computed its watermark.                                      *)
THEOREM UndrainedKept == Spec => []UndrainedFrameKept
<1>1. Init => KeptInv /\ UndrainedPending
  <2> SUFFICES ASSUME Init PROVE KeptInv /\ UndrainedPending
    OBVIOUS
  <2>1. Started /\ NothingLeft
    BY DEF Init, Started, NothingLeft, Each, FreshPc, Threads
  <2>2. \A c \in Callers : pc[c] \notin {"dclaim", "dpublish"}
    BY <2>1 DEF Started, Threads
  <2>3. UndrainedPending
    BY <2>2 DEF Init, UndrainedPending, DurableFrames
  <2>4. QED
    BY <2>1, <2>3, InitTypes, StartedKept
<1>2. TypeInv /\ TypeInv' /\ FloorRespected
        /\ (KeptInv /\ UndrainedPending) /\ [Next]_vars
        => (KeptInv /\ UndrainedPending)'
  <2>1. ASSUME TypeInv, TypeInv', KeptInv, UndrainedPending, UNCHANGED vars
        PROVE  KeptInv' /\ UndrainedPending'
    <3>1. KeptStill
      BY <2>1
      DEF KeptStill, vars, walVars, lsnVars, drainVars, callVars, history
    <3>2. NothingLeft'
      BY <2>1 DEF KeptInv, NothingLeft, vars, walVars, lsnVars, drainVars,
                  callVars, history
    <3>3. UndrainedPending'
      BY <2>1 DEF UndrainedPending, DurableFrames, vars, lsnVars, callVars, history
    <3>4. QED
      BY <2>1, <3>1, <3>2, <3>3, KeptStillKeeps
  <2>2. QED
    BY <2>1, KeptNext, PendingNext
<1>3. KeptInv /\ UndrainedPending => UndrainedFrameKept
  BY DEF KeptInv, UnliftedFrameKept, Unlifted, UndrainedPending,
         UndrainedFrameKept
<1>4. QED
  BY <1>1, <1>2, <1>3, Floor, TypeInvAlways, PTL DEF Spec
-----------------------------------------------------------------------------
(***************************************************************************)
(* No accepted write is lost while the process lives (NoUpdateLost), and a *)
(* clean shutdown stores them all (CleanExit).                             *)
(*                                                                         *)
(* A version is covered when it or a newer one is in the store, the ring,  *)
(* a drain's scratch, a dirty cache entry or a batch.  The lemmas show     *)
(* that every step of a living process keeps every covered version         *)
(* covered.  Two steps drop a state, apply and requeue_dirty, when a newer *)
(* one has taken its cache entry, dirty or clean; that is safe only        *)
(* because the entry's own version is covered (CacheCovered) by something  *)
(* other than what is being dropped, which for a batch needs one state per *)
(* id (BatchOnePerId).                                                     *)
(*                                                                         *)
(* A clean shutdown follows, because with the stop flag up and the worker  *)
(* gone nothing is in flight: no call is under way, scratch vectors and    *)
(* batches are held only by flushes under way, and what final_drain saw    *)
(* when it decided to leave is still so.                                   *)
(***************************************************************************)

(* The places that keep version v of id i, or a newer one, safe.           *)
InRing(i, v) ==
  \E k \in 1..Len(ring) : ring[k].req.id = i /\ ring[k].req.ver >= v
InScratch(t, i, v) ==
  \E k \in 1..Len(scratch[t]) :
    scratch[t][k].req.id = i /\ scratch[t][k].req.ver >= v
InCache(i, v)    == cache[i] # None /\ cache[i].dirty /\ cache[i].ver >= v
InBatch(t, i, v) == \E s \in batch[t] : s.id = i /\ s.ver >= v

Covered(i, v) ==
  \/ InStore(i, v) \/ InRing(i, v) \/ InCache(i, v)
  \/ \E t \in Threads : InScratch(t, i, v)
  \/ \E t \in Threads : InBatch(t, i, v)

CoverKept == \A i \in Ids, v \in Nat : Covered(i, v) => Covered(i, v)'

(* What apply and requeue_dirty rely on when they drop a stale state.      *)
CacheCovered ==
  \A i \in Ids : cache[i] # None => Covered(i, cache[i].ver)

(* What take_dirty, persist_batch and requeue_dirty rely on.               *)
BatchOnePerId ==
  \A t \in Threads : \A a, b \in batch[t] : a.id = b.id => a = b
BatchHeld ==
  \A t \in Threads :
    pc[t] \notin {"alloc", "append", "persist", "requeue"} => batch[t] = {}
DeadIdle ==
  phase = "down" => \A t \in Threads : pc[t] \in {"idle", "off"}
BatchSound == BatchOnePerId /\ BatchHeld /\ DeadIdle

(* A claimed cell already carries the request its producer will promise.   *)
ClaimCovered ==
  \A c \in Callers : pc[c] \in {"publish", "dpublish"} =>
    Covered(op[c].id, op[c].ver)

NoLossInv == NoUpdateLost /\ CacheCovered /\ BatchSound /\ ClaimCovered

(* Covered is the disjunction NoUpdateLost is stated with.                 *)
LEMMA CoveredMeans ==
  \A i, v : Covered(i, v) <=> InStore(i, v) \/ InFlight(i, v)
  BY DEF Covered, InFlight, InRing, InScratch, InCache, InBatch

(* What covers a version covers every older one.                           *)
LEMMA OlderCovered ==
  ASSUME TypeInv', NEW i \in Ids, NEW v \in Nat, NEW w \in Nat, v <= w,
         Covered(i, w)'
  PROVE  Covered(i, v)'
<1>1. ASSUME InStore(i, w)'
      PROVE  InStore(i, v)'
  <2>1. store' \in StoreTable
    BY DEF TypeInv, TypeOK
  <2>2. store'[i] # None => store'[i].ver \in Nat
    BY <2>1, DataTypes DEF StoreTable
  <2>3. QED
    BY <1>1, <2>2 DEF InStore, VersionOf
<1>2. ASSUME InRing(i, w)'
      PROVE  InRing(i, v)'
  <2>1. ring' \in Seq(Cell)
    BY DEF TypeInv, TypeOK
  <2>2. \A k \in 1..Len(ring') : ring'[k].req.ver \in Nat
    BY <2>1, ElementOfSeq, DataTypes, RequestAssumption
  <2>3. QED
    BY <1>2, <2>2 DEF InRing
<1>3. ASSUME NEW t \in Threads, InScratch(t, i, w)'
      PROVE  InScratch(t, i, v)'
  <2>1. scratch'[t] \in Seq(Cell)
    BY DEF TypeInv, TypeOK
  <2>2. \A k \in 1..Len(scratch'[t]) : scratch'[t][k].req.ver \in Nat
    BY <2>1, ElementOfSeq, DataTypes, RequestAssumption
  <2>3. QED
    BY <1>3, <2>2 DEF InScratch
<1>4. ASSUME InCache(i, w)'
      PROVE  InCache(i, v)'
  <2>1. cache' \in CacheTable
    BY DEF TypeInv, TypeOK
  <2>2. cache'[i] # None => cache'[i].ver \in Nat
    BY <2>1, DataTypes DEF CacheTable
  <2>3. QED
    BY <1>4, <2>2 DEF InCache
<1>5. ASSUME NEW t \in Threads, InBatch(t, i, w)'
      PROVE  InBatch(t, i, v)'
  <2>1. batch'[t] \in SUBSET Frame
    BY DEF TypeInv, TypeOK
  <2>2. \A s \in batch'[t] : s.ver \in Nat
    BY <2>1, DataTypes DEF Frame
  <2>3. QED
    BY <1>5, <2>2 DEF InBatch
<1>6. QED
  BY <1>1, <1>2, <1>3, <1>4, <1>5 DEF Covered

(* A step that moves no request and no state keeps everything covered.     *)
LEMMA Unmoved ==
  ASSUME UNCHANGED <<ring, scratch, cache, batch, store>>
  PROVE  CoverKept
  BY DEF CoverKept, Covered, InStore, InRing, InScratch, InCache, InBatch

(* A producer's claim of a ring cell (ring.rs) covers its request and      *)
(* takes nothing away.                                                     *)
LEMMA ClaimCovers ==
  ASSUME TypeInv, NEW r \in Requests, NEW n \in Nat, Claimed(r, n),
         UNCHANGED <<scratch, cache, batch, store>>
  PROVE  CoverKept /\ Covered(r.id, r.ver)'
<1> DEFINE x == [req |-> r, seq |-> n, ready |-> FALSE]
<1>1. ring \in Seq(Cell) /\ x \in Cell /\ ring' = Append(ring, x)
  BY DataTypes DEF TypeInv, TypeOK, Claimed
<1>2. /\ Len(ring) \in Nat
      /\ Len(ring') = Len(ring) + 1
      /\ \A k \in 1..Len(ring) : ring'[k] = ring[k]
      /\ ring'[Len(ring) + 1] = x
  BY <1>1, AppendProperties, LenProperties
<1>3. r.ver >= r.ver
  BY RequestAssumption
<1>4. InRing(r.id, r.ver)'
  BY <1>2, <1>3 DEF InRing
<1>5. ASSUME NEW i, NEW v, InRing(i, v)
      PROVE  InRing(i, v)'
  BY <1>2, <1>5 DEF InRing
<1>6. ASSUME NEW i, NEW v, Covered(i, v)
      PROVE  Covered(i, v)'
  BY <1>5, <1>6 DEF Covered, InStore, InScratch, InCache, InBatch
<1>7. QED
  BY <1>4, <1>6 DEF CoverKept, Covered

(* A producer's stamp store (ring.rs) moves no request.                    *)
LEMMA PublishKeeps ==
  ASSUME TypeInv, NEW s, ring' = Published(s),
         UNCHANGED <<scratch, cache, batch, store>>
  PROVE  CoverKept
<1>1. /\ Len(ring') = Len(ring)
      /\ \A k \in 1..Len(ring) : ring'[k].req = ring[k].req
  BY PublishedType DEF TypeInv, TypeOK
<1>2. QED
  BY <1>1 DEF CoverKept, Covered, InStore, InRing, InScratch, InCache, InBatch

(* A pop of drain_into (ring.rs) moves the oldest request to the drain's   *)
(* scratch.                                                                *)
LEMMA PopKeeps ==
  ASSUME TypeInv, NEW t \in Threads, Pop(t)
  PROVE  CoverKept
<1>1. /\ ring \in Seq(Cell) /\ ring # <<>>
      /\ scratch[t] \in Seq(Cell) /\ scratch \in [Threads -> Seq(Cell)]
  BY DEF TypeInv, TypeOK, Pop, CanPop
<1>2. /\ Head(ring) \in Cell /\ Head(ring) = ring[1] /\ Len(ring) \in Nat
      /\ Len(Tail(ring)) = Len(ring) - 1
      /\ \A k \in 1..Len(Tail(ring)) : Tail(ring)[k] = ring[k + 1]
  BY <1>1, HeadTailProperties, LenProperties
<1> DEFINE s == Append(scratch[t], Head(ring))
<1>3. /\ Len(scratch[t]) \in Nat /\ Len(s) = Len(scratch[t]) + 1
      /\ \A k \in 1..Len(scratch[t]) : s[k] = scratch[t][k]
      /\ s[Len(scratch[t]) + 1] = ring[1]
  BY <1>1, <1>2, AppendProperties, LenProperties
<1>4. scratch'[t] = s /\ ring' = Tail(ring)
  BY <1>1 DEF Pop
<1>5. \A u \in Threads : u # t => scratch'[u] = scratch[u]
  BY <1>1 DEF Pop
<1> HIDE DEF s
<1>6. ASSUME NEW i \in Ids, NEW v \in Nat, InRing(i, v)
      PROVE  InRing(i, v)' \/ InScratch(t, i, v)'
  <2>1. PICK k \in 1..Len(ring) : ring[k].req.id = i /\ ring[k].req.ver >= v
    BY <1>6 DEF InRing
  <2>2. CASE k = 1
    BY <1>3, <1>4, <2>1, <2>2 DEF InScratch
  <2>3. CASE k # 1
    <3>1. k - 1 \in 1..Len(ring') /\ ring'[k - 1] = ring[k]
      BY <1>2, <1>4, <2>3
    <3>2. QED
      BY <2>1, <3>1 DEF InRing
  <2>4. QED
    BY <2>2, <2>3
<1>7. ASSUME NEW i \in Ids, NEW v \in Nat, NEW u \in Threads,
             InScratch(u, i, v)
      PROVE  InScratch(u, i, v)'
  <2>1. CASE u = t
    BY <1>3, <1>4, <1>7, <2>1 DEF InScratch
  <2>2. CASE u # t
    BY <1>5, <1>7, <2>2 DEF InScratch
  <2>3. QED
    BY <2>1, <2>2
<1>8. UNCHANGED <<cache, batch, store>>
  BY DEF Pop, flushVars
<1>9. ASSUME NEW i \in Ids, NEW v \in Nat
      PROVE  /\ InStore(i, v) => InStore(i, v)'
             /\ InCache(i, v) => InCache(i, v)'
             /\ \A u \in Threads : InBatch(u, i, v) => InBatch(u, i, v)'
  BY <1>8 DEF InStore, InCache, InBatch
<1>10. QED
  BY <1>6, <1>7, <1>9 DEF CoverKept, Covered

(* cache.apply (cache.rs): a request that is applied becomes the dirty     *)
(* entry; one that is stale was already covered by what covers the entry.  *)
LEMMA ApplyKeeps ==
  ASSUME TypeInv, NEW t \in Threads, TypeInv', ApplyNext(t), CacheCovered
  PROVE  CoverKept
<1> DEFINE s == scratch[t]
           r == Head(s).req
<1>1. s \in Seq(Cell) /\ s # <<>> /\ scratch \in [Threads -> Seq(Cell)]
  BY DEF TypeInv, TypeOK, Shape, ApplyNext
<1>2. /\ Head(s) \in Cell /\ Head(s) = s[1] /\ Len(s) \in Nat
      /\ Len(Tail(s)) = Len(s) - 1
      /\ \A k \in 1..Len(Tail(s)) : Tail(s)[k] = s[k + 1]
  BY <1>1, HeadTailProperties, LenProperties
<1>3. scratch'[t] = Tail(s) /\ cache' = Apply(cache, r)
  BY <1>1 DEF ApplyNext
<1>4. \A u \in Threads : u # t => scratch'[u] = scratch[u]
  BY <1>1 DEF ApplyNext
<1>5. UNCHANGED <<ring, batch, store>>
  BY DEF ApplyNext, flushVars
<1>6. r \in State /\ r.id \in Ids /\ r.ver \in Nat
  BY <1>2, DataTypes DEF State
<1>7. cache \in CacheTable
  BY DEF TypeInv, TypeOK
<1>8. \A i \in Ids : cache[i] # None => cache[i].ver \in Nat
  BY <1>7, DataTypes DEF CacheTable
<1>9. /\ Dirtied(r) # None
      /\ Dirtied(r).dirty = TRUE /\ Dirtied(r).ver = r.ver
      /\ \A i \in Ids : \/ cache'[i] = cache[i]
                        \/ i = r.id /\ cache'[i] = Dirtied(r)
                           /\ r.ver >= VersionOf(cache[i])
      /\ r.ver >= VersionOf(cache[r.id]) => cache'[r.id] = Dirtied(r)
  <2>1. Dirtied(r) \in [ver : Versions, val : Vals, dirty : BOOLEAN]
    BY <1>6 DEF Dirtied, State
  <2>2. Dirtied(r) # None /\ Dirtied(r).dirty = TRUE /\ Dirtied(r).ver = r.ver
    BY <2>1, RequestAssumption DEF Dirtied
  <2>3. QED
    BY <1>3, <1>6, <1>7, <2>2 DEF Apply, CacheTable
<1> HIDE DEF s
\* A copy that is not the head of this thread's scratch stays where it is.
<1>10. ASSUME NEW i \in Ids, NEW v \in Nat, Covered(i, v),
              ~(r.id = i /\ r.ver >= v)
      PROVE  Covered(i, v)'
  <2>1. ASSUME NEW u \in Threads, InScratch(u, i, v)
        PROVE  InScratch(u, i, v)'
    <3>1. CASE u = t
      <4>1. PICK k \in 1..Len(s) : s[k].req.id = i /\ s[k].req.ver >= v
        BY <2>1, <3>1 DEF InScratch, s
      <4>2. k # 1
        BY <1>2, <1>10, <4>1
      <4>3. k - 1 \in 1..Len(scratch'[t]) /\ scratch'[t][k - 1] = s[k]
        BY <1>2, <1>3, <4>2
      <4>4. QED
        BY <3>1, <4>1, <4>3 DEF InScratch
    <3>2. CASE u # t
      BY <1>4, <2>1, <3>2 DEF InScratch
    <3>3. QED
      BY <3>1, <3>2
  <2>2. ASSUME InCache(i, v)
        PROVE  InCache(i, v)'
    BY <1>9, <1>6, <1>8, <1>10, <2>2 DEF InCache, VersionOf
  <2>3. /\ InStore(i, v) => InStore(i, v)'
        /\ InRing(i, v) => InRing(i, v)'
        /\ \A u \in Threads : InBatch(u, i, v) => InBatch(u, i, v)'
    BY <1>5 DEF InStore, InRing, InBatch
  <2>4. QED
    BY <1>10, <2>1, <2>2, <2>3 DEF Covered
<1>11. CASE r.ver >= VersionOf(cache[r.id])
  <2>1. \A i \in Ids, v \in Nat : r.id = i /\ r.ver >= v => InCache(i, v)'
    BY <1>9, <1>11 DEF InCache
  <2>2. QED
    BY <1>10, <2>1 DEF CoverKept, Covered
<1>12. CASE ~(r.ver >= VersionOf(cache[r.id]))
  <2>1. cache[r.id] # None /\ cache[r.id].ver > r.ver
    BY <1>6, <1>8, <1>12 DEF VersionOf
  <2>2. PICK w \in Nat : w = cache[r.id].ver
    BY <1>6, <1>8, <2>1
  <2>3. PICK i \in Ids : i = r.id
    BY <1>6
  <2>4. Covered(i, w)'
    BY <1>6, <1>10, <2>1, <2>2, <2>3 DEF CacheCovered
  <2>5. ASSUME NEW v \in Nat, r.ver >= v
        PROVE  Covered(i, v)'
    <3>1. v <= w
      BY <1>6, <2>1, <2>2, <2>5
    <3>2. QED
      BY <2>4, <3>1, OlderCovered
  <2>6. QED
    BY <1>10, <2>3, <2>5 DEF CoverKept
<1>13. QED
  BY <1>11, <1>12

(* take_dirty (cache.rs): an entry whose dirty bit is cleared is copied    *)
(* into the batch of the thread that took it.                              *)
LEMMA TakeKeeps ==
  ASSUME TypeInv, BatchHeld, NEW t \in Threads, Take(t)
  PROVE  CoverKept
<1>1. PICK ids \in SUBSET DirtyIds(cache) :
        /\ batch' = [batch EXCEPT
                       ![t] = {WithLsn(s, 0) : s \in Copies(cache, ids)}]
        /\ cache' = Cleared(cache, ids)
  BY DEF Take
<1>2. /\ batch[t] = {} /\ batch \in [Threads -> SUBSET Frame]
      /\ cache \in CacheTable
  BY DEF TypeInv, TypeOK, BatchHeld, Take
<1>3. /\ batch'[t] = {WithLsn(s, 0) : s \in Copies(cache, ids)}
      /\ \A u \in Threads : u # t => batch'[u] = batch[u]
  BY <1>1, <1>2
<1>4. UNCHANGED <<ring, scratch, store>>
  BY DEF Take, drainVars
<1>5. ASSUME NEW i \in Ids, NEW v \in Nat, InCache(i, v)
      PROVE  InCache(i, v)' \/ InBatch(t, i, v)'
  <2>1. CASE i \in ids
    <3> DEFINE s == [id |-> i, ver |-> cache[i].ver, val |-> cache[i].val]
    <3>1. s \in Copies(cache, ids)
      BY <2>1 DEF Copies
    <3>2. WithLsn(s, 0) \in batch'[t]
      BY <1>3, <3>1
    <3>3. WithLsn(s, 0).id = i /\ WithLsn(s, 0).ver = cache[i].ver
      BY DEF WithLsn
    <3>4. QED
      BY <1>5, <3>2, <3>3 DEF InBatch, InCache
  <2>2. CASE i \notin ids
    <3>1. cache'[i] = cache[i]
      BY <1>1, <2>2 DEF Cleared
    <3>2. QED
      BY <1>5, <3>1 DEF InCache
  <2>3. QED
    BY <2>1, <2>2
<1>6. ASSUME NEW i \in Ids, NEW v \in Nat, NEW u \in Threads, InBatch(u, i, v)
      PROVE  InBatch(u, i, v)'
  BY <1>2, <1>3, <1>6 DEF InBatch
<1>7. QED
  BY <1>4, <1>5, <1>6 DEF CoverKept, Covered, InStore, InRing, InScratch

(* Stamping a batch with LSNs (worker.rs, api.rs) keeps its states.        *)
LEMMA AllocKeeps ==
  ASSUME TypeInv, NEW t \in Threads, Alloc(t)
  PROVE  CoverKept
<1>1. PICK f \in Stampings(batch[t], next) :
        batch' = [batch EXCEPT ![t] = {WithLsn(s, f[s]) : s \in batch[t]}]
  BY DEF Alloc
<1>2. batch \in [Threads -> SUBSET Frame]
  BY DEF TypeInv, TypeOK
<1>3. /\ batch'[t] = {WithLsn(s, f[s]) : s \in batch[t]}
      /\ \A u \in Threads : u # t => batch'[u] = batch[u]
  BY <1>1, <1>2
<1>4. UNCHANGED <<ring, scratch, cache, store>>
  BY DEF Alloc, drainVars
<1>5. \A s \in batch[t] : /\ WithLsn(s, f[s]) \in batch'[t]
                          /\ WithLsn(s, f[s]).id = s.id
                          /\ WithLsn(s, f[s]).ver = s.ver
  BY <1>3 DEF WithLsn
<1>6. ASSUME NEW i \in Ids, NEW v \in Nat, NEW u \in Threads, InBatch(u, i, v)
      PROVE  InBatch(u, i, v)'
  <2>1. CASE u = t
    BY <1>5, <1>6, <2>1 DEF InBatch
  <2>2. CASE u # t
    BY <1>3, <1>6, <2>2 DEF InBatch
  <2>3. QED
    BY <2>1, <2>2
<1>7. QED
  BY <1>4, <1>6 DEF CoverKept, Covered, InStore, InRing, InScratch, InCache

(* With one state per id, a state at least as new as its slot is the only  *)
(* candidate for it.                                                       *)
LEMMA TheCurrent ==
  ASSUME NEW table, NEW b, NEW s \in b, s.ver >= VersionOf(table[s.id]),
         \A x, y \in b : x.id = y.id => x = y
  PROVE  Current(table, b, s.id) = {s}
  BY DEF Current

(* persist_batch (store.rs): a state the store skips as stale is older     *)
(* than what the store has.                                                *)
LEMMA PersistKeeps ==
  ASSUME TypeInv, BatchOnePerId, NEW t \in Threads, Persist(t)
  PROVE  CoverKept
<1>1. /\ batch[t] \in SUBSET Frame /\ batch \in [Threads -> SUBSET Frame]
      /\ store \in StoreTable
      /\ \A x, y \in batch[t] : x.id = y.id => x = y
  BY DEF TypeInv, TypeOK, BatchOnePerId
<1>2. store' = Upserted(store, batch[t])
  BY DEF Persist
<1>3. UNCHANGED <<ring, scratch, cache>>
  BY DEF Persist, drainVars
<1>4. \A u \in Threads : u # t => batch'[u] = batch[u]
  BY <1>1 DEF Persist
<1>5. ASSUME NEW s \in Frame
      PROVE  /\ StateOf(s) # None /\ StateOf(s).ver = s.ver
             /\ s.ver \in Nat /\ s.id \in Ids
  <2>1. StateOf(s) \in [ver : Versions, val : Vals]
    BY DEF StateOf, Frame
  <2>2. QED
    BY <2>1, RequestAssumption, DataTypes DEF StateOf, Frame
<1>6. \A i \in Ids : VersionOf(store[i]) \in Int
  BY <1>1, DataTypes DEF VersionOf, StoreTable
<1>7. ASSUME NEW i \in Ids
      PROVE  VersionOf(store'[i]) >= VersionOf(store[i])
  <2>1. CASE Current(store, batch[t], i) = {}
    BY <1>2, <1>6, <2>1 DEF Upserted
  <2>2. CASE Current(store, batch[t], i) # {}
    <3>1. PICK s \in Current(store, batch[t], i) : store'[i] = StateOf(s)
      BY <1>2, <2>2 DEF Upserted
    <3>2. s \in Frame /\ s.ver >= VersionOf(store[i])
      BY <1>1, <3>1 DEF Current
    <3>3. QED
      BY <1>5, <3>1, <3>2 DEF VersionOf
  <2>3. QED
    BY <2>1, <2>2
<1>8. ASSUME NEW s \in batch[t]
      PROVE  VersionOf(store'[s.id]) >= s.ver
  <2>1. s \in Frame /\ s.id \in Ids /\ s.ver \in Nat
    BY <1>1, <1>5
  <2>2. CASE s.ver >= VersionOf(store[s.id])
    <3>1. Current(store, batch[t], s.id) = {s}
      BY <1>1, <2>2, TheCurrent
    <3>2. store'[s.id] = StateOf(s)
      BY <1>2, <2>1, <3>1 DEF Upserted
    <3>3. QED
      BY <1>5, <2>1, <3>2 DEF VersionOf
  <2>3. CASE ~(s.ver >= VersionOf(store[s.id]))
    <3>1. /\ VersionOf(store'[s.id]) >= VersionOf(store[s.id])
          /\ VersionOf(store[s.id]) \in Int
      BY <1>6, <1>7, <2>1
    <3>2. VersionOf(store'[s.id]) \in Int
      BY <2>1, TableTypes, <1>1, <1>2, DataTypes DEF VersionOf, StoreTable
    <3>3. QED
      BY <2>1, <2>3, <3>1, <3>2
  <2>4. QED
    BY <2>2, <2>3
<1>9. \A i \in Ids : VersionOf(store'[i]) \in Int
  BY <1>1, <1>2, TableTypes, DataTypes DEF VersionOf, StoreTable
<1>10. ASSUME NEW i \in Ids, NEW v \in Nat, InStore(i, v)
       PROVE  InStore(i, v)'
  BY <1>6, <1>7, <1>9, <1>10 DEF InStore
<1>11. ASSUME NEW i \in Ids, NEW v \in Nat, NEW u \in Threads, InBatch(u, i, v)
       PROVE  InBatch(u, i, v)' \/ InStore(i, v)'
  <2>1. PICK s \in batch[u] : s.id = i /\ s.ver >= v
    BY <1>11 DEF InBatch
  <2>2. CASE u = t
    <3>1. VersionOf(store'[i]) >= s.ver /\ s.ver \in Nat
      BY <1>1, <1>5, <1>8, <2>1, <2>2
    <3>2. QED
      BY <1>9, <2>1, <3>1 DEF InStore
  <2>3. CASE u # t
    BY <1>4, <2>1, <2>3 DEF InBatch
  <2>4. QED
    BY <2>2, <2>3
<1>12. QED
  BY <1>3, <1>10, <1>11 DEF CoverKept, Covered, InRing, InScratch, InCache

(* requeue_dirty (cache.rs): a state it drops is older than the entry that *)
(* took over, and what covers that entry is not this batch.                *)
LEMMA RequeueKeeps ==
  ASSUME TypeInv, TypeInv', BatchOnePerId, CacheCovered,
         NEW t \in Threads, Requeue(t)
  PROVE  CoverKept
<1>1. /\ batch[t] \in SUBSET Frame /\ batch \in [Threads -> SUBSET Frame]
      /\ cache \in CacheTable
      /\ \A x, y \in batch[t] : x.id = y.id => x = y
  BY DEF TypeInv, TypeOK, BatchOnePerId
<1>2. cache' = Requeued(cache, batch[t])
  BY DEF Requeue
<1>3. UNCHANGED <<ring, scratch, store>>
  BY DEF Requeue, drainVars
<1>4. \A u \in Threads : u # t => batch'[u] = batch[u]
  BY <1>1 DEF Requeue
<1>5. ASSUME NEW s \in Frame
      PROVE  /\ Dirtied(s) # None /\ Dirtied(s).ver = s.ver /\ Dirtied(s).dirty
             /\ s.ver \in Nat /\ s.id \in Ids
  <2>1. Dirtied(s) \in [ver : Versions, val : Vals, dirty : BOOLEAN]
    BY DEF Dirtied, Frame
  <2>2. QED
    BY <2>1, RequestAssumption, DataTypes DEF Dirtied, Frame
<1>6. \A i \in Ids : /\ VersionOf(cache[i]) \in Int
                     /\ cache[i] # None => cache[i].ver \in Nat
  BY <1>1, DataTypes DEF VersionOf, CacheTable
<1>7. ASSUME NEW i \in Ids, NEW v \in Nat, InCache(i, v)
      PROVE  InCache(i, v)'
  <2>1. CASE Current(cache, batch[t], i) = {}
    BY <1>2, <1>7, <2>1 DEF Requeued, InCache
  <2>2. CASE Current(cache, batch[t], i) # {}
    <3>1. PICK s \in Current(cache, batch[t], i) : cache'[i] = Dirtied(s)
      BY <1>2, <2>2 DEF Requeued
    <3>2. s \in Frame /\ s.ver >= VersionOf(cache[i])
      BY <1>1, <3>1 DEF Current
    <3>3. QED
      BY <1>5, <1>6, <1>7, <3>1, <3>2 DEF InCache, VersionOf
  <2>3. QED
    BY <2>1, <2>2
\* What is covered otherwise than by this batch stays covered.
<1>8. ASSUME NEW i \in Ids, NEW v \in Nat, Covered(i, v), ~InBatch(t, i, v)
      PROVE  Covered(i, v)'
  <2>1. \A u \in Threads : InBatch(u, i, v) => InBatch(u, i, v)'
    BY <1>4, <1>8 DEF InBatch
  <2>2. QED
    BY <1>3, <1>7, <1>8, <2>1 DEF Covered, InStore, InRing, InScratch
<1>9. ASSUME NEW i \in Ids, NEW v \in Nat, InBatch(t, i, v)
      PROVE  Covered(i, v)'
  <2>1. PICK s \in batch[t] : s.id = i /\ s.ver >= v
    BY <1>9 DEF InBatch
  <2>2. s \in Frame /\ s.ver \in Nat
    BY <1>1, <1>5
  <2>3. CASE s.ver >= VersionOf(cache[i])
    <3>1. Current(cache, batch[t], i) = {s}
      BY <1>1, <2>1, <2>3, TheCurrent
    <3>2. cache'[i] = Dirtied(s)
      BY <1>2, <3>1 DEF Requeued
    <3>3. QED
      BY <1>5, <2>1, <2>2, <3>2 DEF InCache, Covered
  <2>4. CASE ~(s.ver >= VersionOf(cache[i]))
    <3>1. cache[i] # None /\ cache[i].ver \in Nat /\ cache[i].ver > s.ver
      BY <1>6, <2>2, <2>4 DEF VersionOf
    <3>2. PICK w \in Nat : w = cache[i].ver
      BY <3>1
    <3>3. Covered(i, w)
      BY <3>1, <3>2 DEF CacheCovered
    <3>4. ~InBatch(t, i, w)
      BY <1>1, <2>1, <2>2, <3>1, <3>2 DEF InBatch
    <3>5. v <= w
      BY <2>1, <2>2, <3>1, <3>2
    <3>6. QED
      BY <1>8, <3>3, <3>4, <3>5, OlderCovered
  <2>5. QED
    BY <2>3, <2>4
<1>10. QED
  BY <1>8, <1>9 DEF CoverKept

(* The process outlives the step, and it is not a restart.                 *)
Living == ~(ShutdownReturns \/ Crash \/ Restart)

(* No step of a living process uncovers a version.                         *)
LEMMA StepKeeps ==
  ASSUME TypeInv, TypeInv', NoLossInv, Next, Living
  PROVE  CoverKept
<1>1. ASSUME NEW c \in Callers, NEW r \in unsent,
             Submit(c, r) \/ DurableAlloc(c, r)
      PROVE  CoverKept
  <2>1. CASE Claimed(r, next) /\ Submit(c, r)
    <3>1. r \in Requests /\ next \in Nat
      BY DEF TypeInv, TypeOK
    <3>2. QED
      BY <2>1, <3>1, ClaimCovers DEF Submit, drainVars, flushVars
  <2>2. CASE ring' = ring
    BY <1>1, <2>2, Unmoved DEF Submit, DurableAlloc, drainVars, flushVars
  <2>3. QED
    BY <1>1, <2>1, <2>2 DEF Submit, DurableAlloc
<1>2. ASSUME NEW c \in Callers, DurableClaim(c)
      PROVE  CoverKept
  <2>1. CASE Claimed(op[c], seq[c])
    <3>1. op[c] \in Requests /\ seq[c] \in Nat
      BY <1>2 DEF TypeInv, TypeOK, Shape, Submitting, DurableClaim
    <3>2. QED
      BY <1>2, <2>1, <3>1, ClaimCovers DEF DurableClaim, drainVars, flushVars
  <2>2. CASE ring' = ring
    BY <1>2, <2>2, Unmoved DEF DurableClaim, drainVars, flushVars
  <2>3. QED
    BY <1>2, <2>1, <2>2 DEF DurableClaim
<1>3. ASSUME NEW c \in Callers, Publish(c) \/ DurablePublish(c)
      PROVE  CoverKept
  BY <1>3, PublishKeeps DEF Publish, DurablePublish, drainVars, flushVars
<1>4. ASSUME NEW c \in Callers,
             \/ DurableNote(c) \/ DurableAppend(c) \/ DurableAppendFails(c)
             \/ DurableUndo(c) \/ NowStart(c) \/ NowCheck(c) \/ NowReturnsOk(c)
      PROVE  CoverKept
  BY <1>4, Unmoved
  DEF DurableNote, DurableAppend, DurableAppendFails, DurableUndo, NowStart,
      NowCheck, NowReturnsOk, drainVars, flushVars
<1>5. ASSUME NEW t \in Threads,
             \/ Pop(t) \/ ApplyNext(t) \/ Take(t) \/ Alloc(t) \/ Persist(t)
             \/ Requeue(t)
      PROVE  CoverKept
  BY <1>5, PopKeeps, ApplyKeeps, TakeKeeps, AllocKeeps, PersistKeeps,
     RequeueKeeps
  DEF NoLossInv, BatchSound
<1>6. ASSUME NEW t \in Threads,
             \/ PopEnd(t) \/ LiftFloor(t) \/ AppendBatch(t)
             \/ AppendBatchFails(t) \/ PersistFails(t) \/ Mark(t)
             \/ Checkpoint(t) \/ CheckpointFails(t)
      PROVE  CoverKept
  BY <1>6, Unmoved
  DEF PopEnd, LiftFloor, AppendBatch, AppendBatchFails, PersistFails, Mark,
      Checkpoint, CheckpointFails, drainVars, flushVars
<1>7. ASSUME WorkerLoop \/ Shutdown
      PROVE  CoverKept
  BY <1>7, Unmoved
  DEF WorkerLoop, Top, DecideFlush, DecideWait, FlushDone, EndCheck, EndAfter,
      Shutdown, drainVars, flushVars
<1>8. QED
  BY <1>1, <1>2, <1>3, <1>4, <1>5, <1>6, <1>7
  DEF Living, Next, CallBegins, CallProceeds, FlushPath

(* Every cache entry stays covered, dirty or not (cache.rs).               *)
LEMMA CacheCoveredNext ==
  ASSUME TypeInv, TypeInv', NoLossInv, Next
  PROVE  CacheCovered'
<1>1. \A i \in Ids : /\ cache[i] # None => cache[i].ver \in Nat
                     /\ cache'[i] # None => cache'[i].ver \in Nat
  BY DataTypes DEF TypeInv, TypeOK, CacheTable
\* An entry that only lost its dirty bit, or kept it, is still covered.
<1>2. ASSUME Living, NEW i \in Ids, cache[i] # None,
             cache'[i].ver = cache[i].ver
      PROVE  Covered(i, cache[i].ver)'
  <2>1. PICK w \in Nat : w = cache[i].ver
    BY <1>1, <1>2
  <2>2. Covered(i, w)
    BY <1>2, <2>1 DEF NoLossInv, CacheCovered
  <2>3. Covered(i, w)'
    BY <1>2, <2>2, StepKeeps DEF CoverKept
  <2>4. w = cache'[i].ver
    BY <1>2, <2>1
  <2>5. QED
    BY <2>3, <2>4
\* An entry that is dirty covers itself.
<1>3. ASSUME NEW i \in Ids, cache'[i] # None, cache'[i].dirty
      PROVE  Covered(i, cache[i].ver)'
  BY <1>1, <1>3 DEF Covered, InCache
<1>4. CASE UNCHANGED cache /\ Living
  BY <1>2, <1>4 DEF CacheCovered
<1>5. ASSUME NEW t \in Threads, ApplyNext(t), Living
      PROVE  CacheCovered'
  <2>1. scratch[t] \in Seq(Cell) /\ scratch[t] # <<>>
    BY <1>5 DEF TypeInv, TypeOK, Shape, ApplyNext
  <2>2. Head(scratch[t]).req \in State
    BY <2>1, HeadTailProperties, DataTypes
  <2>3. \A i \in Ids : cache'[i] = cache[i] \/ cache'[i].dirty
    BY <1>5, <2>2
    DEF ApplyNext, Apply, Dirtied, TypeInv, TypeOK, CacheTable, State
  <2>4. QED
    BY <1>2, <1>3, <1>5, <2>3 DEF CacheCovered
<1>6. ASSUME NEW t \in Threads, Take(t), Living
      PROVE  CacheCovered'
  <2>1. PICK ids \in SUBSET DirtyIds(cache) : cache' = Cleared(cache, ids)
    BY <1>6 DEF Take
  <2>2. ASSUME NEW i \in Ids, cache'[i] # None
        PROVE  cache[i] # None /\ cache'[i].ver = cache[i].ver
    <3>1. CASE i \in ids
      <4>1. cache[i] # None
              /\ cache[i] \in [ver : Versions, val : Vals, dirty : BOOLEAN]
        BY <3>1 DEF DirtyIds, TypeInv, TypeOK, CacheTable
      <4>2. cache'[i] = [cache[i] EXCEPT !.dirty = FALSE]
        BY <2>1, <3>1 DEF Cleared
      <4>3. QED
        BY <4>1, <4>2
    <3>2. CASE i \notin ids
      BY <2>1, <2>2, <3>2 DEF Cleared
    <3>3. QED
      BY <3>1, <3>2
  <2>3. QED
    BY <1>2, <1>6, <2>2 DEF CacheCovered
<1>7. ASSUME NEW t \in Threads, Requeue(t), Living
      PROVE  CacheCovered'
  <2>1. \A i \in Ids : cache'[i] = cache[i] \/ cache'[i].dirty
    BY <1>7 DEF Requeue, Requeued, Dirtied
  <2>2. QED
    BY <1>2, <1>3, <1>7, <2>1 DEF CacheCovered
<1>8. ASSUME ShutdownReturns \/ Crash
      PROVE  CacheCovered'
  BY <1>8 DEF ShutdownReturns, Crash, MemoryGone, EmptyTable, CacheCovered
<1>9. ASSUME Restart
      PROVE  CacheCovered'
  <2>1. \A i \in Ids : cache'[i] # None => cache'[i].dirty
    BY <1>9 DEF Restart, Replayed, Dirtied
  <2>2. QED
    BY <1>3, <2>1 DEF CacheCovered
<1>10. UNCHANGED cache \/ ~Living
       \/ \E t \in Threads : ApplyNext(t) \/ Take(t) \/ Requeue(t)
  BY ZenonT(30) DEF Living, Next, CallBegins, CallProceeds, FlushPath, WorkerLoop,
     Submit, DurableAlloc, Publish, DurableNote, DurableAppend,
     DurableAppendFails, DurableUndo, DurableClaim, DurablePublish, NowStart,
     NowCheck, NowReturnsOk, Pop, PopEnd, LiftFloor, Alloc, AppendBatch,
     AppendBatchFails, Persist, PersistFails, Mark, Checkpoint,
     CheckpointFails, Top, DecideFlush, DecideWait, FlushDone, EndCheck,
     EndAfter, Shutdown
<1>11. QED
  BY <1>4, <1>5, <1>6, <1>7, <1>8, <1>9, <1>10 DEF Living

(* A batch has one state per id, only a flush in progress holds one, and a *)
(* dead process has no thread at work (worker.rs, api.rs).                 *)
LEMMA BatchNext ==
  ASSUME TypeInv, BatchSound, Next
  PROVE  BatchSound'
<1> USE DEF TypeInv, TypeOK, BatchSound, BatchOnePerId, BatchHeld, DeadIdle,
            Threads, Goto, flushVars
<1>1. ASSUME NEW c \in Callers, CallBegins(c)
      PROVE  BatchSound'
  BY <1>1 DEF CallBegins, Submit, DurableAlloc, NowStart
<1>2. ASSUME NEW c \in Callers, CallProceeds(c)
      PROVE  BatchSound'
  BY <1>2
  DEF CallProceeds, Publish, DurableNote, DurableAppend, DurableAppendFails,
      DurableUndo, DurableClaim, DurablePublish, NowCheck, NowReturnsOk
<1>3. ASSUME NEW t \in Threads,
             Pop(t) \/ PopEnd(t) \/ LiftFloor(t) \/ ApplyNext(t)
      PROVE  BatchSound'
  BY <1>3 DEF Pop, PopEnd, LiftFloor, ApplyNext
<1>4. ASSUME NEW t \in Threads, Take(t)
      PROVE  BatchSound'
  <2>1. PICK ids \in SUBSET DirtyIds(cache) :
          batch' = [batch EXCEPT
                      ![t] = {WithLsn(s, 0) : s \in Copies(cache, ids)}]
    BY <1>4 DEF Take
  <2>2. \A a, b \in {WithLsn(s, 0) : s \in Copies(cache, ids)} :
          a.id = b.id => a = b
    BY DEF Copies, WithLsn
  <2>3. QED
    BY <1>4, <2>1, <2>2 DEF Take
<1>5. ASSUME NEW t \in Threads, Alloc(t)
      PROVE  BatchSound'
  <2>1. PICK f \in Stampings(batch[t], next) :
          batch' = [batch EXCEPT ![t] = {WithLsn(s, f[s]) : s \in batch[t]}]
    BY <1>5 DEF Alloc
  <2>2. \A a, b \in batch[t] : a.id = b.id => a = b
    OBVIOUS
  <2>3. ASSUME NEW a \in {WithLsn(s, f[s]) : s \in batch[t]},
               NEW b \in {WithLsn(s, f[s]) : s \in batch[t]}, a.id = b.id
        PROVE  a = b
    <3>1. PICK x \in batch[t] : a = WithLsn(x, f[x])
      OBVIOUS
    <3>2. PICK y \in batch[t] : b = WithLsn(y, f[y])
      OBVIOUS
    <3>3. a.id = x.id /\ b.id = y.id
      BY <3>1, <3>2 DEF WithLsn
    <3>4. QED
      BY <2>2, <2>3, <3>1, <3>2, <3>3
  <2>4. QED
    BY <1>5, <2>1, <2>3 DEF Alloc
<1>6. ASSUME NEW t \in Threads, Persist(t) \/ Requeue(t)
      PROVE  BatchSound'
  BY <1>6 DEF Persist, Requeue, FlushLoop
<1>7. ASSUME NEW t \in Threads,
             AppendBatch(t) \/ AppendBatchFails(t) \/ PersistFails(t)
      PROVE  BatchSound'
  BY <1>7 DEF AppendBatch, AppendBatchFails, PersistFails
<1>8. ASSUME NEW t \in Threads, Mark(t) \/ Checkpoint(t) \/ CheckpointFails(t)
      PROVE  BatchSound'
  BY <1>8 DEF Mark, Checkpoint, CheckpointFails, AfterBatch
<1>9. ASSUME WorkerLoop \/ Shutdown
      PROVE  BatchSound'
  BY <1>9 DEF WorkerLoop, Top, DecideFlush, DecideWait, FlushDone, EndCheck,
              EndAfter, FlushLoop, Shutdown
<1>10. ASSUME ShutdownReturns \/ Crash
       PROVE  BatchSound'
  BY <1>10 DEF ShutdownReturns, Crash, MemoryGone, Each, NoPc
<1>11. ASSUME Restart
       PROVE  BatchSound'
  BY <1>11 DEF Restart, FreshPc
<1>12. QED
  BY <1>1, <1>2, <1>3, <1>4, <1>5, <1>6, <1>7, <1>8, <1>9, <1>10, <1>11
  DEF Next, FlushPath

(* A claimed cell covers its request until the producer publishes it       *)
(* (ring.rs, api.rs).                                                      *)
LEMMA ClaimCoveredNext ==
  ASSUME TypeInv, TypeInv', NoLossInv, Next
  PROVE  ClaimCovered'
<1>1. ASSUME Living, NEW c \in Callers, op'[c] = op[c],
             pc[c] \in {"publish", "dpublish"}
      PROVE  Covered(op[c].id, op[c].ver)'
  <2>1. op[c] \in Requests /\ op[c] \in State
    BY <1>1, DataTypes DEF TypeInv, Shape, Submitting
  <2>2. PICK i \in Ids, v \in Nat : i = op[c].id /\ v = op[c].ver
    BY <2>1, DataTypes DEF State
  <2>3. Covered(i, v)'
    BY <1>1, <2>2, StepKeeps DEF NoLossInv, ClaimCovered, CoverKept
  <2>4. QED
    BY <1>1, <2>2, <2>3
<1>2. CASE Living /\ UNCHANGED op
           /\ \A c \in Callers :
                pc'[c] \in {"publish", "dpublish"} => pc'[c] = pc[c]
  BY <1>1, <1>2 DEF ClaimCovered
<1>3. ASSUME NEW c \in Callers, NEW r \in unsent, Submit(c, r), Living
      PROVE  ClaimCovered'
  <2>1. r \in Requests /\ next \in Nat
    BY DEF TypeInv, TypeOK
  <2>2. CASE Claimed(r, next) /\ op' = [op EXCEPT ![c] = r]
    <3>1. Covered(r.id, r.ver)'
      BY <1>3, <2>1, <2>2, ClaimCovers DEF Submit, drainVars, flushVars
    <3>2. /\ op'[c] = r
          /\ \A d \in Callers : d # c => op'[d] = op[d] /\ pc'[d] = pc[d]
      <4>1. pc' = [pc EXCEPT ![c] = "publish"] \/ pc' = pc
        BY <1>3 DEF Submit, Goto
      <4>2. QED
        BY <2>2, <4>1 DEF TypeInv, TypeOK, Threads
    <3>3. Covered(op[c].id, op[c].ver)'
      BY <3>1, <3>2
    <3>4. QED
      BY <1>1, <1>3, <3>2, <3>3 DEF ClaimCovered
  <2>3. CASE UNCHANGED <<op, pc>>
    BY <1>2, <1>3, <2>3
  <2>4. QED
    BY <1>3, <2>2, <2>3 DEF Submit
<1>4. ASSUME NEW c \in Callers, DurableClaim(c), Living
      PROVE  ClaimCovered'
  <2>1. op[c] \in Requests /\ seq[c] \in Nat /\ op' = op
    BY <1>4 DEF TypeInv, TypeOK, Shape, Submitting, DurableClaim, callVars
  <2>2. CASE Claimed(op[c], seq[c]) /\ Goto(c, "dpublish")
    <3>1. PICK r \in Requests : r = op[c]
      BY <2>1
    <3>2. Covered(r.id, r.ver)'
      BY <1>4, <2>1, <2>2, <3>1, ClaimCovers
      DEF DurableClaim, drainVars, flushVars
    <3>3. Covered(op[c].id, op[c].ver)'
      BY <2>1, <3>1, <3>2
    <3>4. \A d \in Callers \ {c} : pc'[d] = pc[d]
      BY <2>2 DEF TypeInv, TypeOK, Goto
    <3>5. QED
      BY <1>1, <1>4, <2>1, <3>3, <3>4 DEF ClaimCovered
  <2>3. CASE Goto(c, "idle")
    BY <1>2, <1>4, <2>1, <2>3 DEF TypeInv, TypeOK, Goto, Threads
  <2>4. QED
    BY <1>4, <2>2, <2>3 DEF DurableClaim
<1>5. ASSUME NEW c \in Callers, NEW r \in unsent, DurableAlloc(c, r), Living
      PROVE  ClaimCovered'
  <2>1. \A d \in Callers : pc'[d] \in {"publish", "dpublish"} =>
          pc'[d] = pc[d] /\ op'[d] = op[d]
    BY <1>5 DEF DurableAlloc, Goto, TypeInv, TypeOK, Threads
  <2>2. QED
    BY <1>1, <1>5, <2>1 DEF ClaimCovered
<1>6. ASSUME ~Living
      PROVE  ClaimCovered'
  BY <1>6
  DEF Living, ShutdownReturns, Crash, Restart, MemoryGone, NoPc, FreshPc,
              ClaimCovered, Threads
<1> DEFINE Quiet == UNCHANGED op /\ \A c \in Callers :
                      pc'[c] \in {"publish", "dpublish"} => pc'[c] = pc[c]
<1> USE DEF TypeInv, TypeOK, Threads, Goto, callVars
<1>7. ASSUME NEW c \in Callers, NowStart(c)
      PROVE  Quiet
  BY <1>7 DEF NowStart
<1>8. ASSUME NEW c \in Callers, CallProceeds(c), ~DurableClaim(c)
      PROVE  Quiet
  BY <1>8
  DEF CallProceeds, Publish, DurableNote, DurableAppend, DurableAppendFails,
      DurableUndo, DurablePublish, NowCheck, NowReturnsOk
<1>9. ASSUME NEW t \in Threads, FlushPath(t)
      PROVE  Quiet
  <2>1. CASE Pop(t) \/ PopEnd(t) \/ LiftFloor(t) \/ ApplyNext(t)
    BY <2>1 DEF Pop, PopEnd, LiftFloor, ApplyNext
  <2>2. CASE \/ Take(t) \/ Alloc(t) \/ AppendBatch(t) \/ AppendBatchFails(t)
             \/ Persist(t) \/ PersistFails(t) \/ Requeue(t)
    BY <2>2 DEF Take, Alloc, AppendBatch, AppendBatchFails, Persist,
                PersistFails, Requeue, FlushLoop
  <2>3. CASE Mark(t) \/ Checkpoint(t) \/ CheckpointFails(t)
    BY <2>3 DEF Mark, Checkpoint, CheckpointFails, AfterBatch
  <2>4. QED
    BY <1>9, <2>1, <2>2, <2>3 DEF FlushPath
<1>10. ASSUME WorkerLoop \/ Shutdown
       PROVE  Quiet
  BY <1>10 DEF WorkerLoop, Top, DecideFlush, DecideWait, FlushDone, EndCheck,
               EndAfter, FlushLoop, Shutdown
<1>11. QED
  <2> HIDE DEF TypeInv, TypeOK, Threads, Goto, callVars
  <2>1. QED
    BY <1>2, <1>3, <1>4, <1>5, <1>6, <1>7, <1>8, <1>9, <1>10
    DEF Next, CallBegins, CallProceeds, Living

(* What was accepted before stays covered; what is accepted now is covered *)
(* by its ring cell (api.rs), or by replay (api.rs start).                 *)
LEMMA NoUpdateLostNext ==
  ASSUME TypeInv, TypeInv', NoLossInv, Next
  PROVE  NoUpdateLost'
<1>1. NoUpdateLost <=>
        (phase # "down" => \A r \in promised : Covered(r.id, r.ver))
  BY CoveredMeans DEF NoUpdateLost
<1> DEFINE Accepted == phase' # "down" =>
                         \A r \in promised' : Covered(r.id, r.ver)'
<1>2. ASSUME Accepted
      PROVE  NoUpdateLost'
  BY <1>2
  DEF NoUpdateLost, Covered, InFlight, InRing, InScratch, InCache, InBatch
<1>3. ASSUME Living, phase # "down", NEW r \in promised
      PROVE  Covered(r.id, r.ver)'
  <2>1. r \in State
    BY DEF TypeInv, TypeOK
  <2>2. PICK i \in Ids, v \in Nat : i = r.id /\ v = r.ver
    BY <2>1, DataTypes DEF State
  <2>3. QED
    BY <1>1, <1>3, <2>2, StepKeeps DEF NoLossInv, CoverKept
<1>4. ASSUME NEW c \in Callers, Publish(c) \/ DurablePublish(c), Living
      PROVE  Accepted
  <2>1. promised' = promised \union {op[c]} /\ phase' = phase
        /\ pc[c] \in {"publish", "dpublish"}
    BY <1>4 DEF Publish, DurablePublish
  <2>2. PICK r \in Requests : r = op[c]
    BY <2>1 DEF TypeInv, Shape, Submitting
  <2>3. PICK i \in Ids, v \in Nat : i = r.id /\ v = r.ver
    BY <2>2, DataTypes DEF State
  <2>4. Covered(r.id, r.ver)'
    BY <1>4, <2>1, <2>2, <2>3, StepKeeps DEF NoLossInv, ClaimCovered, CoverKept
  <2>5. QED
    BY <1>3, <1>4, <2>1, <2>2, <2>4
<1>5. ASSUME ShutdownReturns \/ Crash
      PROVE  Accepted
  BY <1>5 DEF ShutdownReturns, Crash
<1>6. ASSUME Restart
      PROVE  Accepted
  <2>1. PICK last \in [Ids -> wal \union {None}] :
          /\ \A i \in Ids : ReplayedLast(i, last[i])
          /\ cache' = Replayed(last)
    BY <1>6 DEF Restart
  <2>2. wal \in SUBSET Frame /\ promised' = {Plainly(f) : f \in wal}
    BY <1>6 DEF TypeInv, TypeOK, Restart
  <2>3. ASSUME NEW f \in wal
        PROVE  InCache(f.id, f.ver)'
    <3>1. f \in Frame /\ f.id \in Ids /\ f.ver \in Nat
      BY <2>2, DataTypes DEF Frame
    <3>2. /\ last[f.id] \in wal /\ last[f.id].ver >= f.ver
      BY <2>1, <3>1 DEF ReplayedLast
    <3>3. last[f.id] \in Frame /\ last[f.id] # None
      BY <2>2, <3>2, RequestAssumption DEF Frame
    <3>4. cache'[f.id] = Dirtied(last[f.id])
      BY <2>1, <3>1, <3>3 DEF Replayed
    <3>5. Dirtied(last[f.id]) \in [ver : Versions, val : Vals, dirty : BOOLEAN]
      BY <3>3 DEF Dirtied, Frame
    <3>6. Dirtied(last[f.id]) # None
      BY <3>5, RequestAssumption
    <3>7. Dirtied(last[f.id]).dirty /\ Dirtied(last[f.id]).ver = last[f.id].ver
      BY DEF Dirtied
    <3>8. QED
      BY <3>2, <3>4, <3>6, <3>7 DEF InCache
  <2>4. ASSUME NEW r \in promised'
        PROVE  Covered(r.id, r.ver)'
    <3>1. PICK f \in wal : r = Plainly(f)
      BY <2>2
    <3>2. r.id = f.id /\ r.ver = f.ver
      BY <3>1 DEF Plainly
    <3>3. PICK i, v : i = f.id /\ v = f.ver
      OBVIOUS
    <3>4. Covered(i, v)'
      BY <2>3, <3>3 DEF Covered
    <3>5. QED
      BY <3>2, <3>3, <3>4
  <2>5. QED
    BY <2>4
<1>7. CASE Living /\ UNCHANGED promised /\ (phase' # "down" => phase # "down")
  <2>1. ASSUME phase' # "down", NEW r \in promised'
        PROVE  Covered(r.id, r.ver)'
    <3>1. r \in promised /\ phase # "down"
      BY <1>7, <2>1
    <3>2. PICK x \in promised : x = r
      BY <3>1
    <3>3. Covered(x.id, x.ver)'
      BY <1>3, <1>7, <3>1
    <3>4. QED
      BY <3>2, <3>3
  <2>2. QED
    BY <1>2, <2>1
<1>8. \/ ~Living
      \/ UNCHANGED promised /\ (phase' # "down" => phase # "down")
      \/ \E c \in Callers : Publish(c) \/ DurablePublish(c)
  BY ZenonT(60) DEF Living, Next, CallBegins, CallProceeds, FlushPath, WorkerLoop,
     Submit, DurableAlloc, DurableNote, DurableAppend, DurableAppendFails,
     DurableUndo, DurableClaim, NowStart, NowCheck, NowReturnsOk, Pop, PopEnd,
     LiftFloor, ApplyNext, Take, Alloc, AppendBatch, AppendBatchFails, Persist,
     PersistFails, Requeue, Mark, Checkpoint, CheckpointFails, Top,
     DecideFlush, DecideWait, FlushDone, EndCheck, EndAfter, Shutdown, history
<1>9. QED
  BY <1>2, <1>4, <1>5, <1>6, <1>7, <1>8 DEF Living

(* An engine that has accepted nothing has lost nothing (api.rs start).    *)
LEMMA NoLossInit ==
  ASSUME Init
  PROVE  NoLossInv
  BY DEF Init, NoLossInv, NoUpdateLost, CacheCovered, BatchSound,
         BatchOnePerId, DeadIdle, BatchHeld,
         ClaimCovered, EmptyTable, Each, FreshPc, Threads

(* A step that changes nothing loses nothing.                              *)
LEMMA NoLossStutter ==
  ASSUME NoLossInv, UNCHANGED vars
  PROVE  NoLossInv'
  BY DEF NoLossInv, NoUpdateLost, CacheCovered, BatchSound, BatchOnePerId,
         DeadIdle, BatchHeld,
     ClaimCovered, Covered, InStore, InFlight, InRing, InScratch, InCache,
     InBatch, vars, drainVars, flushVars, callVars, history

(* NoLossInv, the inductive strengthening of NoUpdateLost, is kept by      *)
(* every step of the engine (api.rs, worker.rs).                           *)
LEMMA NoLossNext ==
  ASSUME TypeInv, TypeInv', NoLossInv, [Next]_vars
  PROVE  NoLossInv'
<1>1. CASE Next
  BY <1>1, NoUpdateLostNext, CacheCoveredNext, BatchNext, ClaimCoveredNext
  DEF NoLossInv
<1>2. CASE UNCHANGED vars
  BY <1>2, NoLossStutter
<1>3. QED
  BY <1>1, <1>2

(* No in-memory loss (cache.rs take_dirty and requeue_dirty, worker.rs,    *)
(* api.rs): as long as the process lives, every accepted or recovered      *)
(* write is in the store, or it or a newer one is on its way there.        *)
THEOREM NoLoss == Spec => []NoUpdateLost
<1>1. Init => NoLossInv
  BY NoLossInit
<1>2. TypeInv /\ TypeInv' /\ NoLossInv /\ [Next]_vars => NoLossInv'
  BY NoLossNext
<1>3. NoLossInv => NoUpdateLost
  BY DEF NoLossInv
<1>4. QED
  BY <1>1, <1>2, <1>3, TypeInvAlways, PTL DEF Spec

-----------------------------------------------------------------------------
(* Only a drain under way has requests in its scratch vector.              *)
ScratchHeld ==
  \A t \in Threads : pc[t] \notin {"pop", "lift", "apply"} => scratch[t] = <<>>

(* shutdown consumes the engine: with the stop flag up no call is under    *)
(* way.                                                                    *)
CallersGone == phase = "stopping" => \A c \in Callers : pc[c] = "idle"

(* The worker runs final_drain only once the stop flag is up.              *)
FinalDraining ==
  \/ final \/ ret[Worker] = "endcheck"
  \/ pc[Worker] \in {"endcheck", "after", "exit"}
FinalWhenStopping == FinalDraining => phase = "stopping"

(* What final_drain tested before the worker left still holds.             *)
ExitEmpty ==
  pc[Worker] = "exit" /\ stalled < MaxStalled =>
    ring = <<>> /\ DirtyIds(cache) = {}

ExitInv == ScratchHeld /\ CallersGone /\ FinalWhenStopping /\ ExitEmpty

(* final_drain leaves by its test (ring empty and nothing dirty) or by     *)
(* giving up.                                                              *)
LEMMA EndCheckEmpty ==
  ASSUME TypeInv, EndCheck, pc'[Worker] = "exit"
  PROVE  ring = <<>> /\ DirtyIds(cache) = {}
<1>1. IsFiniteSet(DirtyIds(cache)) /\ Cardinality(DirtyIds(cache)) \in Nat
  BY DirtyIsFinite
<1>2. Cardinality(DirtyIds(cache)) = 0 /\ ring = <<>>
  BY <1>1 DEF EndCheck, Goto, TypeInv, TypeOK, Threads
<1>3. QED
  BY <1>1, <1>2, FS_EmptySet

LEMMA ExitNext ==
  ASSUME TypeInv, TypeInv', DeadIdle, ExitInv, Next
  PROVE  ExitInv'
<1> USE WorkerAssumption
    DEF TypeInv, TypeOK, ExitInv, ScratchHeld, CallersGone, FinalDraining,
        FinalWhenStopping, ExitEmpty, DeadIdle, Threads, Goto, drainVars,
        stopVars
<1>1. ASSUME NEW c \in Callers, CallBegins(c)
      PROVE  ExitInv'
  BY <1>1, ZenonT(30) DEF CallBegins, Submit, DurableAlloc, NowStart
<1>2. ASSUME NEW c \in Callers, CallProceeds(c)
      PROVE  ExitInv'
  BY <1>2, ZenonT(30)
  DEF CallProceeds, Publish, DurableNote, DurableAppend, DurableAppendFails,
      DurableUndo, DurableClaim, DurablePublish, NowCheck, NowReturnsOk
<1>3. ASSUME NEW t \in Threads, Pop(t) \/ PopEnd(t) \/ LiftFloor(t)
      PROVE  ExitInv'
  BY <1>3, ZenonT(30) DEF Pop, PopEnd, LiftFloor
<1>4. ASSUME NEW t \in Threads, ApplyNext(t)
      PROVE  ExitInv'
  BY <1>4 DEF ApplyNext, IsCaller
<1>5. ASSUME NEW t \in Threads,
             Take(t) \/ Alloc(t) \/ AppendBatch(t) \/ AppendBatchFails(t)
      PROVE  ExitInv'
  BY <1>5, ZenonT(30) DEF Take, Alloc, AppendBatch, AppendBatchFails
<1>6. ASSUME NEW t \in Threads, Persist(t) \/ PersistFails(t) \/ Requeue(t)
      PROVE  ExitInv'
  BY <1>6, ZenonT(30) DEF Persist, PersistFails, Requeue, FlushLoop, IsCaller
<1>7. ASSUME NEW t \in Threads, Mark(t) \/ Checkpoint(t) \/ CheckpointFails(t)
      PROVE  ExitInv'
  BY <1>7, ZenonT(30) DEF Mark, Checkpoint, CheckpointFails, AfterBatch, IsCaller
<1>8. CASE EndCheck
  <2>1. pc'[Worker] = "exit" => ring = <<>> /\ DirtyIds(cache) = {}
    BY <1>8, EndCheckEmpty
  <2>2. QED
    BY <1>8, <2>1 DEF EndCheck
<1>9. CASE EndAfter
  <2>1. \/ pc' = [pc EXCEPT ![Worker] = "exit"] /\ stalled' >= MaxStalled
        \/ pc' = [pc EXCEPT ![Worker] = "pop"]
    <3> DEFINE progress ==
          moved[Worker] > 0 \/ Cardinality(DirtyIds(cache)) < before
    <3>1. CASE progress
      BY <1>9, <3>1 DEF EndAfter
    <3>2. CASE ~progress
      <4>1. pc' = [pc EXCEPT ![Worker] =
                     IF stalled' >= MaxStalled THEN "exit" ELSE "pop"]
        BY <1>9, <3>2 DEF EndAfter
      <4>2. QED
        BY <4>1
    <3>3. QED
      BY <3>1, <3>2
  <2>2. stalled' \in Nat /\ MaxStalled \in Nat
    BY ConfigAssumption
  <2>3. /\ pc[Worker] = "after" /\ scratch' = scratch /\ ret' = ret
        /\ UNCHANGED <<phase, ring, cache, final>>
    BY <1>9 DEF EndAfter
  <2>4. pc'[Worker] = "exit" => ~(stalled' < MaxStalled)
    BY <2>1, <2>2
  <2>5. /\ \A t \in Threads : t # Worker => pc'[t] = pc[t]
        /\ pc'[Worker] \in {"pop", "exit"}
    BY <2>1
  <2>6. QED
    BY <2>3, <2>4, <2>5
<1>10. CASE Top \/ DecideFlush \/ DecideWait \/ FlushDone \/ Shutdown
  BY <1>10, ZenonT(30) DEF Top, DecideFlush, DecideWait, FlushDone, FlushLoop, Shutdown
<1>11. ASSUME ShutdownReturns \/ Crash
       PROVE  ExitInv'
  <2>1. MemoryGone /\ phase' = "down"
    BY <1>11 DEF ShutdownReturns, Crash
  <2>2. \A t \in Threads : pc'[t] \in {"idle", "off"} /\ ret'[t] = "decide"
    BY <2>1 DEF MemoryGone, Each, NoPc
  <2>3. \A t \in Threads : scratch'[t] = <<>>
    BY <2>1 DEF MemoryGone, Each
  <2>4. final' = FALSE
    BY <2>1 DEF MemoryGone
  <2>5. QED
    BY <2>1, <2>2, <2>3, <2>4
<1>12. ASSUME Restart
       PROVE  ExitInv'
  BY <1>12 DEF Restart, FreshPc
<1>13. QED
  BY <1>1, <1>2, <1>3, <1>4, <1>5, <1>6, <1>7, <1>8, <1>9, <1>10, <1>11, <1>12
  DEF Next, FlushPath, WorkerLoop

(* A worker that left without giving up leaves nothing in flight.          *)
LEMMA ExitMeansStored ==
  ASSUME TypeInv, NoLossInv, ExitInv
  PROVE  CleanExit
<1> SUFFICES ASSUME pc[Worker] = "exit", stalled < MaxStalled,
                    NEW r \in promised
             PROVE  InStore(r.id, r.ver)
  BY DEF CleanExit
<1>1. phase = "stopping" /\ ring = <<>> /\ DirtyIds(cache) = {}
  BY DEF ExitInv, FinalWhenStopping, FinalDraining, ExitEmpty
<1>2. \A t \in Threads : pc[t] \in {"idle", "exit"}
  BY <1>1 DEF ExitInv, CallersGone, Threads
<1>3. \A t \in Threads : scratch[t] = <<>> /\ batch[t] = {}
  BY <1>2 DEF ExitInv, ScratchHeld, NoLossInv, BatchSound, BatchHeld
<1>4. r.id \in Ids
  BY DEF TypeInv, TypeOK, State
<1>5. ~InFlight(r.id, r.ver)
  BY <1>1, <1>3, <1>4 DEF InFlight, DirtyIds
<1>6. QED
  BY <1>1, <1>5 DEF NoLossInv, NoUpdateLost

(* Clean shutdown (worker.rs final_drain: "so a clean shutdown loses       *)
(* nothing"): a worker that leaves without having given up has stored      *)
(* every accepted write, for any store outages and retries on the way.     *)
THEOREM CleanExitStores == Spec => []CleanExit
<1>1. Init => NoLossInv /\ ExitInv
  BY NoLossInit
  DEF Init, ExitInv, ScratchHeld, CallersGone, FinalDraining,
      FinalWhenStopping, ExitEmpty, Each, FreshPc, Threads
<1>2. TypeInv /\ TypeInv' /\ NoLossInv /\ [Next]_vars => NoLossInv'
  BY NoLossNext
<1>3. TypeInv /\ TypeInv' /\ NoLossInv /\ ExitInv /\ [Next]_vars => ExitInv'
  <2>1. ASSUME ExitInv, UNCHANGED vars PROVE ExitInv'
    BY <2>1
    DEF ExitInv, ScratchHeld, CallersGone, FinalDraining, FinalWhenStopping,
        ExitEmpty, vars, drainVars, stopVars
  <2>2. QED
    BY <2>1, ExitNext DEF NoLossInv, BatchSound
<1>4. TypeInv /\ NoLossInv /\ ExitInv => CleanExit
  BY ExitMeansStored
<1>5. QED
  BY <1>1, <1>2, <1>3, <1>4, TypeInvAlways, PTL DEF Spec
=============================================================================
