------------------------------ MODULE Pipeline ------------------------------
(***************************************************************************)
(* The running engine: caller threads (submit, submit_durable, flush_now,  *)
(* shutdown), the flush worker, and what they share: the ring, the cache,  *)
(* the LSN authority, the write-ahead log and the store.                   *)
(*                                                                         *)
(* One action is one step between two points where another thread may      *)
(* interleave: a critical section of one mutex, one atomic of the LSN      *)
(* counter, or one call into the log or the store.  pc names the next one. *)
(*                                                                         *)
(* Grain of the parts: the ring is the queue that module Ring refines,     *)
(* with a pop as one step; the log is a set of frames, and the byte level  *)
(* of its file (torn frames, rename, the writer's inode) is left out.      *)
(***************************************************************************)
EXTENDS Cache, LsnFloor, Sequences

CONSTANTS
  Callers,          \* application threads
  Worker,           \* the flux-flush-worker thread
  Plain, Durable,   \* the writes callers may submit: [id, ver, val] records
  RingCapacity,     \* slots of the ring
  FlushMaxBatch,    \* config.flush_max_batch
  StoreRetryLimit,  \* config.store_retry_limit
  MaxStalled,       \* SHUTDOWN_MAX_STALLED_ATTEMPTS
  Budget            \* bounds: how often each of Bounded may happen

(* What a behaviour has only so many of: failures of the store and of the  *)
(* log, crashes, and these three together, calls of flush_now, shutdowns.  *)
Faults  == {"store", "wal", "crash"}
Bounded == Faults \union {"faults", "flush", "shutdown"}

DRAIN_MULTIPLE == 4
Threads  == Callers \union {Worker}
Requests == Plain \union Durable
Versions == {r.ver : r \in Requests}
Vals     == {r.val : r \in Requests}
State    == [id : Ids, ver : Versions, val : Vals]

ASSUME WorkerAssumption == Worker \notin Callers
ASSUME RequestAssumption ==
  /\ Requests \subseteq [id : Ids, ver : Nat, val : Vals]
  /\ None \notin [ver : Versions, val : Vals]
  /\ None \notin [ver : Versions, val : Vals, dirty : BOOLEAN]
  /\ None \notin [id : Ids, ver : Versions, val : Vals, lsn : Nat]
ASSUME ConfigAssumption ==
  /\ RingCapacity \in Nat \ {0, 1}   \* a ring of one is no queue: ring_one
  /\ FlushMaxBatch \in Nat \ {0}
  /\ StoreRetryLimit \in Nat \ {0}
  /\ MaxStalled \in Nat \ {0}
  /\ Budget \in [Bounded -> Nat]

VARIABLES
  phase,     \* "up", "stopping" (stop flag set), "down" (no process)
  ring,      \* sequence of claimed cells [req, seq, ready], oldest first
  cache,     \* Ids -> None or [ver, val, dirty]
  next,      \* LsnState.next
  pending,   \* LsnState.pending
  wal,       \* frames [id, ver, val, lsn] in the active segment
  walBuf,    \* frames a failed append left in the BufWriter
  walLast,   \* Wal.last_lsn
  store,     \* Ids -> None or [ver, val]
  pc, ret,   \* next step of each thread; where its ring drain returns to
  op, seq,   \* the write a caller is submitting and its LSN
  scratch,   \* requests drained from the ring and not yet applied
  moved,     \* how many the last drain_into returned
  batch,     \* states taken from the cache, [id, ver, val, lsn]
  upTo,      \* highest_lsn, then append_batch's answer, then the watermark
  attempt,   \* store attempts made for the batch
  final,     \* the worker is in final_drain
  stalled, before,  \* final_drain: stall counter, dirty_before
  unsent,    \* requests no caller has submitted yet
  left,      \* what is left of Budget
  \* History variables, not in the code:
  acked,     \* writes whose submit_durable returned Ok, with their LSN; LSN 0
             \* marks those of an earlier process
  promised,  \* writes this process accepted (or recovered) for the store
  logged,    \* every state an append_batch that returned Ok made durable
  exposed,   \* LSNs registered as pending after some thread had already
             \* computed a watermark at or above them
  drained    \* LSNs of the writes a drain has in hand or in the cache

drainVars  == <<scratch, moved, ret>>
flushVars  == <<batch, upTo, attempt>>
stopVars   == <<final, stalled, before>>
callVars   == <<op, seq, unsent>>
walVars    == <<wal, walBuf, walLast>>
lsnVars    == <<next, pending>>
history    == <<acked, promised, logged, exposed, drained>>
vars == <<phase, ring, cache, lsnVars, walVars, store, pc, drainVars, callVars,
          flushVars, stopVars, left, history>>

Goto(t, label) == pc' = [pc EXCEPT ![t] = label]
IsCaller(t)    == t \in Callers

Spend(what) ==
  /\ left[what] > 0
  /\ what \in Faults => left["faults"] > 0
  /\ left' = [left EXCEPT ![what]    = @ - 1,
                         !["faults"] = IF what \in Faults THEN @ - 1 ELSE @]

(* Threads that have just started, and threads of a dead process.          *)
FreshPc == [t \in Threads |-> IF t = Worker THEN "top" ELSE "idle"]
NoPc    == [t \in Threads |-> IF t = Worker THEN "off" ELSE "idle"]
Each(S, x) == [t \in S |-> x]

(* FluxEngine::start on an empty WAL directory.                            *)
Init ==
  /\ phase = "up"
  /\ ring = <<>>
  /\ cache = EmptyTable
  /\ next = 1 /\ pending = {}
  /\ wal = {} /\ walBuf = {} /\ walLast = 0
  /\ store = EmptyTable
  /\ pc = FreshPc /\ ret = Each(Threads, "decide")
  /\ op = Each(Callers, None) /\ seq = Each(Callers, 0)
  /\ scratch = Each(Threads, <<>>) /\ moved = Each(Threads, 0)
  /\ batch = Each(Threads, {}) /\ upTo = Each(Threads, 0)
  /\ attempt = Each(Threads, 0)
  /\ final = FALSE /\ stalled = 0 /\ before = 0
  /\ unsent = Requests
  /\ left = Budget
  /\ acked = {} /\ promised = {} /\ logged = {}
  /\ exposed = {} /\ drained = {}

-----------------------------------------------------------------------------
(* submit and submit_durable                                               *)

(* What try_enqueue finds.  The slot of a cell that a drain has claimed    *)
(* stays taken until the drain frees it, just before its next step.        *)
Freeing == {t \in Threads : pc[t] = "pop" /\ scratch[t] # <<>>}
HasRoom == Len(ring) < RingCapacity
IsFull  == Len(ring) + Cardinality(Freeing) >= RingCapacity

Claimed(r, s) == ring' = Append(ring, [req |-> r, seq |-> s, ready |-> FALSE])

(* alloc and the CAS of try_enqueue; a full ring sheds the write.  The LSN *)
(* of a plain write never enters the log, so alloc needs no step of its    *)
(* own here.                                                               *)
Submit(c, r) ==
  /\ phase = "up" /\ pc[c] = "idle"
  /\ r \in unsent \intersect Plain
  /\ unsent' = unsent \ {r}
  /\ next' = next + 1
  /\ \/ /\ HasRoom
        /\ Claimed(r, next)
        /\ op' = [op EXCEPT ![c] = r] /\ seq' = [seq EXCEPT ![c] = next]
        /\ Goto(c, "publish")
     \/ /\ IsFull
        /\ UNCHANGED <<ring, op, seq, pc>>
  /\ UNCHANGED <<phase, cache, pending, walVars, store, drainVars, flushVars,
                 stopVars, left, history>>

Published(s) ==
  [k \in 1..Len(ring) |->
     IF ring[k].seq = s THEN [ring[k] EXCEPT !.ready = TRUE] ELSE ring[k]]

(* The stamp store that hands the cell to the consumers; submit returns    *)
(* Enqueued.                                                               *)
Publish(c) ==
  /\ pc[c] = "publish"
  /\ ring' = Published(seq[c])
  /\ promised' = promised \union {op[c]}
  /\ Goto(c, "idle")
  /\ UNCHANGED <<phase, cache, lsnVars, walVars, store, drainVars, callVars,
                 flushVars, stopVars, left, acked, logged, exposed, drained>>

DurableAlloc(c, r) ==
  /\ phase = "up" /\ pc[c] = "idle"
  /\ r \in unsent \intersect Durable
  /\ unsent' = unsent \ {r}
  /\ next' = next + 1
  /\ op' = [op EXCEPT ![c] = r] /\ seq' = [seq EXCEPT ![c] = next]
  /\ Goto(c, "dnote")
  /\ UNCHANGED <<phase, ring, cache, pending, walVars, store, drainVars,
                 flushVars, stopVars, left, history>>

DurableNote(c) ==
  /\ pc[c] = "dnote"
  /\ pending' = pending \union {seq[c]}
  /\ exposed' = IF \E t \in Threads : pc[t] = "ckpt" /\ upTo[t] >= seq[c]
                THEN exposed \union {seq[c]} ELSE exposed
  /\ Goto(c, "dappend")
  /\ UNCHANGED <<phase, ring, cache, next, walVars, store, drainVars, callVars,
                 flushVars, stopVars, left, acked, promised, logged, drained>>

WithLsn(r, l) == [id |-> r.id, ver |-> r.ver, val |-> r.val, lsn |-> l]
Plainly(r)    == [id |-> r.id, ver |-> r.ver, val |-> r.val]
Later(a, b)   == IF a > b THEN a ELSE b

(* append_batch that returns Ok: whatever an earlier failed append left in *)
(* the buffer goes out first; the answer is the highest LSN so far.        *)
AppendOk(frames, high) ==
  /\ wal' = wal \union walBuf \union frames
  /\ walBuf' = {}
  /\ walLast' = Later(walLast, high)
  /\ logged' = logged \union {Plainly(f) : f \in frames}

(* append_batch that returns Err: the frames stayed in the buffer, or they *)
(* reached the file and only the sync failed.                              *)
AppendErr(frames) ==
  /\ \/ /\ walBuf' = walBuf \union frames
        /\ wal' = wal
     \/ /\ walBuf' = {}
        /\ wal' = wal \union walBuf \union frames
  /\ UNCHANGED <<walLast, logged>>

DurableAppend(c) ==
  /\ pc[c] = "dappend"
  /\ AppendOk({WithLsn(op[c], seq[c])}, seq[c])
  /\ Goto(c, "dclaim")
  /\ UNCHANGED <<phase, ring, cache, lsnVars, store, drainVars, callVars,
                 flushVars, stopVars, left, acked, promised, exposed, drained>>

DurableAppendFails(c) ==
  /\ pc[c] = "dappend"
  /\ Spend("wal")
  /\ AppendErr({WithLsn(op[c], seq[c])})
  /\ Goto(c, "dundo")
  /\ UNCHANGED <<phase, ring, cache, lsnVars, store, drainVars, callVars,
                 flushVars, stopVars, acked, promised, exposed, drained>>

(* note_drained on the error path; submit_durable returns Err.             *)
DurableUndo(c) ==
  /\ pc[c] = "dundo"
  /\ pending' = pending \ {seq[c]}
  /\ Goto(c, "idle")
  /\ UNCHANGED <<phase, ring, cache, next, walVars, store, drainVars, callVars,
                 flushVars, stopVars, left, history>>

Ack(c) == acked' = acked \union {WithLsn(op[c], seq[c])}

(* Mutant: a copy that finds the ring full is unregistered, as on the      *)
(* error path.                                                             *)
DurableClaimUnpins(c) ==
  /\ pc[c] = "dclaim"
  /\ \/ /\ HasRoom
        /\ Claimed(op[c], seq[c])
        /\ Goto(c, "dpublish")
        /\ UNCHANGED <<acked, pending>>
     \/ /\ IsFull
        /\ Ack(c)
        /\ pending' = pending \ {seq[c]}
        /\ Goto(c, "idle")
        /\ UNCHANGED ring
  /\ UNCHANGED <<phase, cache, next, walVars, store, drainVars, callVars,
                 flushVars, stopVars, left, promised, logged, exposed,
                 drained>>

(* The best-effort enqueue; a full ring is not an error.                   *)
DurableClaim(c) ==
  /\ pc[c] = "dclaim"
  /\ \/ /\ HasRoom
        /\ Claimed(op[c], seq[c])
        /\ Goto(c, "dpublish")
        /\ UNCHANGED acked
     \/ /\ IsFull
        /\ Ack(c)
        /\ Goto(c, "idle")
        /\ UNCHANGED ring
  /\ UNCHANGED <<phase, cache, lsnVars, walVars, store, drainVars, callVars,
                 flushVars, stopVars, left, promised, logged, exposed,
                 drained>>

DurablePublish(c) ==
  /\ pc[c] = "dpublish"
  /\ ring' = Published(seq[c])
  /\ promised' = promised \union {op[c]}
  /\ Ack(c)
  /\ Goto(c, "idle")
  /\ UNCHANGED <<phase, cache, lsnVars, walVars, store, drainVars, callVars,
                 flushVars, stopVars, left, logged, exposed, drained>>

-----------------------------------------------------------------------------
(* drain_ring_into_cache, by the worker and by flush_now                   *)

DrainMax(t) == IF t = Worker THEN FlushMaxBatch * DRAIN_MULTIPLE
                             ELSE FlushMaxBatch

CanPop(t) ==
  ring # <<>> /\ Head(ring).ready /\ Len(scratch[t]) < DrainMax(t)

Pop(t) ==
  /\ pc[t] = "pop" /\ CanPop(t)
  /\ scratch' = [scratch EXCEPT ![t] = Append(@, Head(ring))]
  /\ ring' = Tail(ring)
  /\ UNCHANGED <<phase, cache, lsnVars, walVars, store, pc, ret, moved,
                 callVars, flushVars, stopVars, left, history>>

(* drain_into returns: at its limit, or at the first empty or claimed but  *)
(* unpublished cell.                                                       *)
PopEnd(t) ==
  /\ pc[t] = "pop" /\ ~CanPop(t)
  /\ moved' = [moved EXCEPT ![t] = Len(scratch[t])]
  /\ Goto(t, IF scratch[t] = <<>> THEN ret[t] ELSE "lift")
  /\ UNCHANGED <<phase, ring, cache, lsnVars, walVars, store, scratch, ret,
                 callVars, flushVars, stopVars, left, history>>

(* Mutant: a drained write lifts the floor of every older one too.         *)
LiftFloorBelow(t) ==
  /\ pc[t] = "lift"
  /\ pending' = {l \in pending : l > Head(scratch[t]).seq}
  /\ drained' = drained \union {Head(scratch[t]).seq}
  /\ Goto(t, "apply")
  /\ UNCHANGED <<phase, ring, cache, next, walVars, store, drainVars, callVars,
                 flushVars, stopVars, left, acked, promised, logged, exposed>>

(* note_drained(req.seq), before the request is in the cache.              *)
LiftFloor(t) ==
  /\ pc[t] = "lift"
  /\ pending' = pending \ {Head(scratch[t]).seq}
  /\ drained' = drained \union {Head(scratch[t]).seq}
  /\ Goto(t, "apply")
  /\ UNCHANGED <<phase, ring, cache, next, walVars, store, drainVars, callVars,
                 flushVars, stopVars, left, acked, promised, logged, exposed>>

(* cache.apply(req); after the last one flush_now drains again if it got a *)
(* full batch, otherwise the drain is over.                                *)
ApplyNext(t) ==
  /\ pc[t] = "apply"
  /\ cache' = Apply(cache, Head(scratch[t]).req)
  /\ scratch' = [scratch EXCEPT ![t] = Tail(@)]
  /\ Goto(t, IF Tail(scratch[t]) # <<>> THEN "lift"
             ELSE IF IsCaller(t) /\ moved[t] = FlushMaxBatch THEN "pop"
             ELSE ret[t])
  /\ UNCHANGED <<phase, ring, lsnVars, walVars, store, moved, ret, callVars,
                 flushVars, stopVars, left, history>>

-----------------------------------------------------------------------------
(* flush_now: where it differs from the worker                             *)

NowStart(c) ==
  /\ phase = "up" /\ pc[c] = "idle"
  /\ Spend("flush")
  /\ ret' = [ret EXCEPT ![c] = "check"]
  /\ Goto(c, "pop")
  /\ UNCHANGED <<phase, ring, cache, lsnVars, walVars, store, scratch, moved,
                 callVars, flushVars, stopVars, history>>

(* while dirty_len() > 0: drain again, then take a batch.                  *)
NowCheck(c) ==
  /\ IsCaller(c) /\ pc[c] = "check" /\ DirtyIds(cache) # {}
  /\ ret' = [ret EXCEPT ![c] = "take"]
  /\ Goto(c, "pop")
  /\ UNCHANGED <<phase, ring, cache, lsnVars, walVars, store, scratch, moved,
                 callVars, flushVars, stopVars, left, history>>

(* The two ways flush_now returns Ok: nothing dirty at the loop test, or   *)
(* an empty take_dirty because the worker took the rest.                   *)
NowReturnsOk(c) ==
  /\ IsCaller(c) /\ pc[c] \in {"check", "take"} /\ DirtyIds(cache) = {}
  /\ Goto(c, "idle")
  /\ UNCHANGED <<phase, ring, cache, lsnVars, walVars, store, drainVars,
                 callVars, flushVars, stopVars, left, history>>

-----------------------------------------------------------------------------
(* The worker's loop                                                       *)

(* Mutant: the stop flag does not end the loop.                            *)
TopForever ==
  /\ pc[Worker] = "top"
  /\ ret' = [ret EXCEPT ![Worker] = "decide"]
  /\ Goto(Worker, "pop")
  /\ UNCHANGED <<phase, ring, cache, lsnVars, walVars, store, scratch, moved,
                 callVars, flushVars, stopVars, left, history>>

(* while !stop: drain.  Once the flag is up: final_drain.                  *)
Top ==
  /\ pc[Worker] = "top"
  /\ final' = (phase = "stopping")
  /\ ret' = [ret EXCEPT ![Worker] = IF final' THEN "endcheck" ELSE "decide"]
  /\ Goto(Worker, "pop")
  /\ UNCHANGED <<phase, ring, cache, lsnVars, walVars, store, scratch, moved,
                 callVars, flushVars, stalled, before, left, history>>

(* VOLUME or TIME says flush; the clock is not modelled.                   *)
DecideFlush ==
  /\ pc[Worker] = "decide" /\ DirtyIds(cache) # {}
  /\ Goto(Worker, "take")
  /\ UNCHANGED <<phase, ring, cache, lsnVars, walVars, store, drainVars,
                 callVars, flushVars, stopVars, left, history>>

(* Below the volume threshold and before the interval: loop (or park).     *)
DecideWait ==
  /\ pc[Worker] = "decide" /\ Cardinality(DirtyIds(cache)) < FlushMaxBatch
  /\ Goto(Worker, "top")
  /\ UNCHANGED <<phase, ring, cache, lsnVars, walVars, store, drainVars,
                 callVars, flushVars, stopVars, left, history>>

(* Worker::flush found nothing dirty: back to the loop it came from.       *)
FlushLoop == IF final THEN "after" ELSE "top"

FlushDone ==
  /\ pc[Worker] = "take" /\ DirtyIds(cache) = {}
  /\ Goto(Worker, FlushLoop)
  /\ UNCHANGED <<phase, ring, cache, lsnVars, walVars, store, drainVars,
                 callVars, flushVars, stopVars, left, history>>

(* Mutant: an empty ring alone ends the final drain.                       *)
EndCheckRingOnly ==
  /\ pc[Worker] = "endcheck"
  /\ before' = Cardinality(DirtyIds(cache))
  /\ Goto(Worker, IF ring = <<>> THEN "exit"
                  ELSE IF before' > 0 THEN "take" ELSE "after")
  /\ UNCHANGED <<phase, ring, cache, lsnVars, walVars, store, drainVars,
                 callVars, flushVars, final, stalled, left, history>>

(* final_drain after its drain: done, or flush, or straight to the stall   *)
(* test.                                                                   *)
EndCheck ==
  /\ pc[Worker] = "endcheck"
  /\ before' = Cardinality(DirtyIds(cache))
  /\ Goto(Worker, IF before' > 0 THEN "take"
                  ELSE IF ring = <<>> THEN "exit" ELSE "after")
  /\ UNCHANGED <<phase, ring, cache, lsnVars, walVars, store, drainVars,
                 callVars, flushVars, final, stalled, left, history>>

(* Mutant: a pass that made no progress resets the stall counter too.      *)
EndAfterForever ==
  /\ pc[Worker] = "after"
  /\ stalled' = 0 /\ Goto(Worker, "pop")
  /\ UNCHANGED <<phase, ring, cache, lsnVars, walVars, store, drainVars,
                 callVars, flushVars, final, before, left, history>>

EndAfter ==
  /\ pc[Worker] = "after"
  /\ IF moved[Worker] > 0 \/ Cardinality(DirtyIds(cache)) < before
     THEN stalled' = 0 /\ Goto(Worker, "pop")
     ELSE /\ stalled' = stalled + 1
          /\ Goto(Worker, IF stalled' >= MaxStalled THEN "exit" ELSE "pop")
  /\ UNCHANGED <<phase, ring, cache, lsnVars, walVars, store, drainVars,
                 callVars, flushVars, final, before, left, history>>

-----------------------------------------------------------------------------
(* One batch: flush_batch of the worker, flush_states of flush_now         *)

Take(t) ==
  /\ pc[t] = "take" /\ DirtyIds(cache) # {}
  /\ \E ids \in SUBSET DirtyIds(cache) :
       /\ IsChoice(cache, ids, FlushMaxBatch)
       /\ batch' = [batch EXCEPT
                      ![t] = {WithLsn(s, 0) : s \in Copies(cache, ids)}]
       /\ cache' = Cleared(cache, ids)
  /\ Goto(t, "alloc")
  /\ UNCHANGED <<phase, ring, lsnVars, walVars, store, drainVars, callVars,
                 upTo, attempt, stopVars, left, history>>

(* The orders in which a batch can be stamped from a block of LSNs.        *)
Stampings(states, first) ==
  LET block == first..(first + Cardinality(states) - 1)
  IN  {f \in [states -> block] : \A a, b \in states : f[a] = f[b] => a = b}

(* Mutant: alloc_range moves the counter to the block's last LSN, not past *)
(* it.                                                                     *)
AllocShort(t) ==
  /\ pc[t] = "alloc"
  /\ \E f \in Stampings(batch[t], next) :
       batch' = [batch EXCEPT ![t] = {WithLsn(s, f[s]) : s \in batch[t]}]
  /\ next' = next + Cardinality(batch[t]) - 1
  /\ upTo' = [upTo EXCEPT ![t] = next']
  /\ attempt' = [attempt EXCEPT ![t] = 0]
  /\ Goto(t, "append")
  /\ UNCHANGED <<phase, ring, cache, pending, walVars, store, drainVars,
                 callVars, stopVars, left, history>>

Alloc(t) ==
  /\ pc[t] = "alloc"
  /\ \E f \in Stampings(batch[t], next) :
       batch' = [batch EXCEPT ![t] = {WithLsn(s, f[s]) : s \in batch[t]}]
  /\ next' = next + Cardinality(batch[t])
  /\ upTo' = [upTo EXCEPT ![t] = next' - 1]
  /\ attempt' = [attempt EXCEPT ![t] = 0]
  /\ Goto(t, "append")
  /\ UNCHANGED <<phase, ring, cache, pending, walVars, store, drainVars,
                 callVars, stopVars, left, history>>

AppendBatch(t) ==
  /\ pc[t] = "append"
  /\ AppendOk(batch[t], upTo[t])
  /\ upTo' = [upTo EXCEPT ![t] = walLast']
  /\ Goto(t, "persist")
  /\ UNCHANGED <<phase, ring, cache, lsnVars, store, drainVars, callVars, batch,
                 attempt, stopVars, left, acked, promised, exposed, drained>>

(* Mutant: a failed append does not keep the batch from the store.         *)
AppendBatchFailsOn(t) ==
  /\ pc[t] = "append"
  /\ Spend("wal")
  /\ AppendErr(batch[t])
  /\ Goto(t, "persist")
  /\ UNCHANGED <<phase, ring, cache, lsnVars, store, drainVars, callVars,
                 flushVars, stopVars, acked, promised, exposed, drained>>

AppendBatchFails(t) ==
  /\ pc[t] = "append"
  /\ Spend("wal")
  /\ AppendErr(batch[t])
  /\ Goto(t, "requeue")
  /\ UNCHANGED <<phase, ring, cache, lsnVars, store, drainVars, callVars,
                 flushVars, stopVars, acked, promised, exposed, drained>>

Persist(t) ==
  /\ pc[t] = "persist"
  /\ store' = Upserted(store, batch[t])
  /\ batch' = [batch EXCEPT ![t] = {}]
  /\ Goto(t, "mark")
  /\ UNCHANGED <<phase, ring, cache, lsnVars, walVars, drainVars, callVars, upTo,
                 attempt, stopVars, left, history>>

(* A retryable error with budget left tries again; a fatal one, or the     *)
(* last attempt, gives the batch back.                                     *)
PersistFails(t) ==
  /\ pc[t] = "persist"
  /\ Spend("store")
  /\ \/ /\ attempt[t] + 1 < StoreRetryLimit
        /\ attempt' = [attempt EXCEPT ![t] = @ + 1]
        /\ pc' = pc
     \/ /\ attempt' = attempt
        /\ Goto(t, "requeue")
  /\ UNCHANGED <<phase, ring, cache, lsnVars, walVars, store, drainVars,
                 callVars, batch, upTo, stopVars, history>>

(* Mutant: a failed batch is not put back.                                 *)
RequeueForgets(t) ==
  /\ pc[t] = "requeue"
  /\ cache' = cache
  /\ batch' = [batch EXCEPT ![t] = {}]
  /\ Goto(t, IF IsCaller(t) THEN "idle" ELSE FlushLoop)
  /\ UNCHANGED <<phase, ring, lsnVars, walVars, store, drainVars, callVars, upTo,
                 attempt, stopVars, left, history>>

Requeue(t) ==
  /\ pc[t] = "requeue"
  /\ cache' = Requeued(cache, batch[t])
  /\ batch' = [batch EXCEPT ![t] = {}]
  /\ Goto(t, IF IsCaller(t) THEN "idle" ELSE FlushLoop)
  /\ UNCHANGED <<phase, ring, lsnVars, walVars, store, drainVars, callVars, upTo,
                 attempt, stopVars, left, history>>

(* checkpoint_watermark, under the pending mutex only.                     *)
Mark(t) ==
  /\ pc[t] = "mark"
  /\ upTo' = [upTo EXCEPT ![t] = Watermark(pending, @)]
  /\ Goto(t, "ckpt")
  /\ UNCHANGED <<phase, ring, cache, lsnVars, walVars, store, drainVars,
                 callVars, batch, attempt, stopVars, left, history>>

AfterBatch(t) == IF IsCaller(t) THEN "check" ELSE "take"

(* wal.checkpoint(upTo): keep the frames above it.                         *)
Checkpoint(t) ==
  /\ pc[t] = "ckpt"
  /\ wal' = {f \in wal \union walBuf : f.lsn > upTo[t]}
  /\ walBuf' = {}
  /\ walLast' \in {upTo[t]} \union {f.lsn : f \in wal'}
  /\ \A f \in wal' : f.lsn <= walLast'
  /\ Goto(t, AfterBatch(t))
  /\ UNCHANGED <<phase, ring, cache, lsnVars, store, drainVars, callVars,
                 flushVars, stopVars, left, history>>

(* An I/O error before the rename: at most the buffer got out.  The worker *)
(* goes on, flush_now returns Err.                                         *)
CheckpointFails(t) ==
  /\ pc[t] = "ckpt"
  /\ Spend("wal")
  /\ \/ UNCHANGED <<wal, walBuf>>
     \/ wal' = wal \union walBuf /\ walBuf' = {}
  /\ Goto(t, IF IsCaller(t) THEN "idle" ELSE AfterBatch(t))
  /\ UNCHANGED <<phase, ring, cache, lsnVars, walLast, store, drainVars,
                 callVars, flushVars, stopVars, history>>

-----------------------------------------------------------------------------
(* Stop, crash and restart                                                 *)

(* shutdown consumes the engine, so no other call is in progress.          *)
Shutdown ==
  /\ phase = "up" /\ \A c \in Callers : pc[c] = "idle"
  /\ Spend("shutdown")
  /\ phase' = "stopping"
  /\ UNCHANGED <<ring, cache, lsnVars, walVars, store, pc, drainVars, callVars,
                 flushVars, stopVars, history>>

MemoryGone ==
  /\ ring' = <<>> /\ cache' = EmptyTable
  /\ next' = 1 /\ pending' = {}
  /\ walBuf' = {} /\ walLast' = 0
  /\ pc' = NoPc /\ ret' = Each(Threads, "decide")
  /\ op' = Each(Callers, None) /\ seq' = Each(Callers, 0)
  /\ scratch' = Each(Threads, <<>>) /\ moved' = Each(Threads, 0)
  /\ batch' = Each(Threads, {}) /\ upTo' = Each(Threads, 0)
  /\ attempt' = Each(Threads, 0)
  /\ final' = FALSE /\ stalled' = 0 /\ before' = 0
  /\ exposed' = {} /\ drained' = {}
  /\ acked' = {[a EXCEPT !.lsn = 0] : a \in acked}

(* join and the final wal.flush succeed: shutdown returns Ok and the       *)
(* engine is dropped.                                                      *)
ShutdownReturns ==
  /\ phase = "stopping" /\ pc[Worker] = "exit"
  /\ phase' = "down"
  /\ wal' = wal \union walBuf
  /\ MemoryGone
  /\ UNCHANGED <<store, unsent, left, promised, logged>>

(* Frames an append in progress may have brought to the file in part.      *)
Appending(t) == IF pc[t] = "append" THEN batch[t]
                ELSE IF pc[t] = "dappend" THEN {WithLsn(op[t], seq[t])}
                ELSE {}

(* The process dies; of an append under way any prefix may be in the file. *)
Crash ==
  /\ phase # "down"
  /\ Spend("crash")
  /\ phase' = "down"
  /\ \/ wal' = wal
     \/ \E t \in Threads, k \in 0..next :
          wal' = wal \union walBuf \union {f \in Appending(t) : f.lsn <= k}
  /\ MemoryGone
  /\ promised' = {}
  /\ UNCHANGED <<store, unsent, logged>>

(* The frame whose state replaying the log leaves in the cache for id i.   *)
(* File order decides between equal versions; the model leaves that open.  *)
ReplayedLast(i, f) ==
  LET mine == {g \in wal : g.id = i}
  IN  IF mine = {} THEN f = None
      ELSE f \in mine /\ \A g \in mine : g.ver <= f.ver

(* Mutant: replayed entries are clean.                                     *)
ReplayedClean(last) ==
  [i \in Ids |-> IF last[i] = None THEN None
                 ELSE [Dirtied(last[i]) EXCEPT !.dirty = FALSE]]

(* The cache that replay leaves.                                           *)
Replayed(last) ==
  [i \in Ids |-> IF last[i] = None THEN None ELSE Dirtied(last[i])]

(* Mutant: the highest LSN itself is handed out again.                     *)
SeedAgain(highest) == highest

(* LsnState::new's seed: one past the highest LSN recovered.               *)
Seed(highest) == highest + 1

(* FluxEngine::start: recover, replay into the cache as dirty, seed LSNs.  *)
Restart ==
  /\ phase = "down"
  /\ phase' = "up"
  /\ \E last \in [Ids -> wal \union {None}] :
       /\ \A i \in Ids : ReplayedLast(i, last[i])
       /\ cache' = Replayed(last)
  /\ walLast' \in {0} \union {f.lsn : f \in wal}
  /\ \A f \in wal : f.lsn <= walLast'
  /\ next' = Seed(walLast')
  /\ promised' = {Plainly(f) : f \in wal}
  /\ pc' = FreshPc
  /\ UNCHANGED <<ring, pending, wal, walBuf, store, drainVars, callVars,
                 flushVars, stopVars, left, acked, logged, exposed, drained>>

-----------------------------------------------------------------------------
CallBegins(c) == \/ \E r \in unsent : Submit(c, r) \/ DurableAlloc(c, r)
                 \/ NowStart(c)

CallProceeds(c) ==
  \/ Publish(c)
  \/ DurableNote(c) \/ DurableAppend(c) \/ DurableAppendFails(c)
  \/ DurableUndo(c) \/ DurableClaim(c) \/ DurablePublish(c)
  \/ NowCheck(c) \/ NowReturnsOk(c)

WorkerLoop == Top \/ DecideFlush \/ DecideWait \/ FlushDone \/ EndCheck \/ EndAfter

FlushPath(t) ==
  \/ Pop(t) \/ PopEnd(t) \/ LiftFloor(t) \/ ApplyNext(t)
  \/ Take(t) \/ Alloc(t) \/ AppendBatch(t) \/ AppendBatchFails(t)
  \/ Persist(t) \/ PersistFails(t) \/ Requeue(t)
  \/ Mark(t) \/ Checkpoint(t) \/ CheckpointFails(t)

Next ==
  \/ \E c \in Callers : CallBegins(c) \/ CallProceeds(c)
  \/ \E t \in Threads : FlushPath(t)
  \/ WorkerLoop
  \/ Shutdown \/ ShutdownReturns \/ Crash \/ Restart

Spec == Init /\ [][Next]_vars

(* Threads are scheduled: a call in progress and the worker keep running.  *)
(* The flush interval elapses: the worker does not pass the flush decision *)
(* with dirty entries forever.  Nobody is obliged to call, to stop or to   *)
(* crash.                                                                  *)
Fairness ==
  /\ \A c \in Callers : WF_vars(CallProceeds(c) \/ FlushPath(c))
  /\ WF_vars(WorkerLoop \/ FlushPath(Worker))
  /\ SF_vars(DecideFlush)
  /\ WF_vars(ShutdownReturns)

FairSpec == Spec /\ Fairness

-----------------------------------------------------------------------------
(* Properties                                                              *)

Labels == {"idle", "publish", "dnote", "dappend", "dundo", "dclaim", "dpublish",
           "pop", "lift", "apply", "check", "take", "alloc", "append",
           "persist", "requeue", "mark", "ckpt", "top", "decide", "endcheck",
           "after", "exit", "off"}
Cell  == [req : Requests, seq : Nat, ready : BOOLEAN]
Frame == [id : Ids, ver : Versions, val : Vals, lsn : Nat]
CacheTable == [Ids -> [ver : Versions, val : Vals, dirty : BOOLEAN]
                      \union {None}]
StoreTable == [Ids -> [ver : Versions, val : Vals] \union {None}]

(* Every variable keeps the type its Rust field has.                       *)
TypeOK ==
  /\ phase \in {"up", "stopping", "down"}
  /\ ring \in Seq(Cell)
  /\ cache \in CacheTable
  /\ next \in Nat \ {0} /\ pending \in SUBSET Nat
  /\ wal \in SUBSET Frame /\ walBuf \in SUBSET Frame /\ walLast \in Nat
  /\ store \in StoreTable
  /\ pc \in [Threads -> Labels]
  /\ ret \in [Threads -> {"decide", "check", "take", "endcheck"}]
  /\ op \in [Callers -> Requests \union {None}] /\ seq \in [Callers -> Nat]
  /\ scratch \in [Threads -> Seq(Cell)] /\ moved \in [Threads -> Nat]
  /\ batch \in [Threads -> SUBSET Frame]
  /\ upTo \in [Threads -> Nat] /\ attempt \in [Threads -> Nat]
  /\ final \in BOOLEAN /\ stalled \in Nat /\ before \in Nat
  /\ unsent \in SUBSET Requests
  /\ left \in [Bounded -> Nat]
  /\ acked \in SUBSET Frame /\ promised \in SUBSET State
  /\ logged \in SUBSET State
  /\ exposed \in SUBSET Nat /\ drained \in SUBSET Nat

InStore(i, v) == VersionOf(store[i]) >= v

(* Version v of id i, or a newer one, is still on its way to the store.    *)
InFlight(i, v) ==
  \/ \E k \in 1..Len(ring) : ring[k].req.id = i /\ ring[k].req.ver >= v
  \/ \E t \in Threads : \E k \in 1..Len(scratch[t]) :
       scratch[t][k].req.id = i /\ scratch[t][k].req.ver >= v
  \/ cache[i] # None /\ cache[i].dirty /\ cache[i].ver >= v
  \/ \E t \in Threads : \E s \in batch[t] : s.id = i /\ s.ver >= v

(* A crash right now still leaves version v of id i, or a newer one, to    *)
(* recover or in the store.                                                *)
Kept(i, v) == InStore(i, v) \/ \E f \in wal : f.id = i /\ f.ver >= v

(* Write-ahead (worker.rs flush_batch, api.rs flush_states): whatever the  *)
(* store holds was made durable in the log before, through failed appends, *)
(* retries, crashes and replays.                                           *)
WalBeforeStore ==
  \A i \in Ids : store[i] # None =>
    [id |-> i, ver |-> store[i].ver, val |-> store[i].val] \in logged

(* No in-memory loss (take_dirty / requeue_dirty, worker.rs, api.rs): as   *)
(* long as the process lives, every accepted or recovered write is in the  *)
(* store, or it or a newer one is still on its way there, whichever        *)
(* flusher failed with whatever batch.                                     *)
NoUpdateLost ==
  phase # "down" =>
    \A r \in promised : InStore(r.id, r.ver) \/ InFlight(r.id, r.ver)

(* The checkpoint floor (lsn.rs checkpoint_watermark): a thread about to   *)
(* checkpoint can only pass a pending durable LSN that was registered      *)
(* after it computed its watermark.                                        *)
FloorRespected ==
  \A t \in Threads : pc[t] = "ckpt" =>
    \A l \in pending : l <= upTo[t] => l \in exposed

DurableFrames ==
  {a \in acked : a.lsn > 0} \union
  {WithLsn(op[c], seq[c]) : c \in {d \in Callers : pc[d] \in {"dclaim", "dpublish"}}}

(* What the floor buys a durable write (api.rs submit_durable): until a    *)
(* drain takes it over, its frame stays in the log, however the ring took  *)
(* its copy.  A copy the full ring shed is never drained: its frame stays  *)
(* for as long as the process lives.  Excepted is a write registered too   *)
(* late for some thread's watermark.                                       *)
UndrainedFrameKept ==
  \A a \in DurableFrames : a.lsn \notin drained \union exposed => a \in wal

(* One LSN, one record (lsn.rs alloc, the seed in api.rs start): a         *)
(* checkpoint by LSN never means two records of the log, or one of the log *)
(* and one about to be appended.                                           *)
LsnsUnique ==
  LET stamped == wal \union walBuf \union
                 UNION {batch[t] : t \in {u \in Threads : pc[u] = "append"}}
  IN  /\ \A f, g \in wal \union walBuf : f.lsn = g.lsn => f = g
      /\ \A t \in Threads : pc[t] = "append" =>
           \A s \in batch[t] : \A f \in wal \union walBuf : s.lsn # f.lsn
      /\ phase # "down" => \A f \in stamped : 0 < f.lsn /\ f.lsn < next

(* Clean shutdown (worker.rs final_drain: "until BOTH the ring is empty AND *)
(* the cache has no dirty entries, so a clean shutdown loses nothing"):    *)
(* the worker that leaves without having given up has stored everything.   *)
CleanExit ==
  pc[Worker] = "exit" /\ stalled < MaxStalled =>
    \A r \in promised : InStore(r.id, r.ver)

(* Every accepted write reaches the store, or the process ends, once the   *)
(* store stops failing (worker.rs run).                                    *)
EventuallyStored ==
  \A r \in Requests : r \in promised ~> (InStore(r.id, r.ver) \/ phase # "up")

(* The final drain once the ring is empty, and what it has still to store. *)
Draining ==
  /\ final /\ ring = <<>> /\ scratch[Worker] = <<>>
  /\ pc[Worker] # "pop" => moved[Worker] = 0
Unstored == Cardinality(DirtyIds(cache)) + Cardinality(batch[Worker])

(* The store failures ahead of a pass that begins with d entries and the   *)
(* stall counter at s: in MaxStalled passes for each number of entries     *)
(* left, all attempts of the batch that ends the pass, and all but the     *)
(* last of each batch that succeeds.                                       *)
Ahead(d, s) ==
  IF d = 0 THEN 0
  ELSE (d * MaxStalled - s) * StoreRetryLimit + (d - 1) * (StoreRetryLimit - 1)
AheadOfNext == IF Unstored < before THEN Ahead(Unstored, 0) ELSE Ahead(Unstored, stalled + 1)
Patience ==
  CASE pc[Worker] \in {"pop", "endcheck"} -> Ahead(Unstored, stalled)
    [] pc[Worker] \in {"requeue", "after"} -> AheadOfNext
    [] pc[Worker] = "exit" \/ Unstored = 0 -> 0
    [] pc[Worker] = "persist" -> AheadOfNext + StoreRetryLimit - attempt[Worker]
    [] OTHER -> AheadOfNext + StoreRetryLimit

(* The patience of final_drain (worker.rs, SHUTDOWN_MAX_STALLED_ATTEMPTS): *)
(* no step of it adds to the failures ahead, and each failure takes one    *)
(* from them, so that a store that fails whenever it can fails at most     *)
(* Ahead(d, 0) times over d entries before shutdown gives up.              *)
ShutdownGivesUp ==
  [][Draining => \/ phase' = "down"
                 \/ Draining' /\ Patience' <= Patience - (left["store"] - left'["store"])]_vars

(* shutdown returns, whatever the worker and the callers were doing when   *)
(* it set the stop flag, and whichever passes of final_drain fail          *)
(* (worker.rs run, final_drain).                                           *)
ShutdownTerminates == phase = "stopping" ~> phase = "down"
=============================================================================
