# A TLA+ development of FluxThroughput

FluxThroughput is a write-behind pipeline. Application threads hand writes to a
lock-free ring and go on; one worker thread drains the ring into a cache,
coalesces by player, writes each batch ahead to a log and then to a slow store.
This directory holds TLA+ modules of that pipeline, TLC runs on small instances,
and TLAPS proofs for every instance.

Sources are named relative to the repository root (`src/worker.rs` and so on);
`PROJECT.json` gives the lines each definition models.

## 1. Inventory

| part | state it keeps | operations | correct when |
|---|---|---|---|
| ring, `ring.rs` | two position counters, a stamp and a payload per slot | `try_enqueue`, `try_dequeue`, `drain_into`, `len` | a claimed slot has one owner; nothing is overwritten or read empty; it is a FIFO queue of bounded size; a stalled thread makes nobody spin |
| cache, `cache.rs` | id -> state and dirty bit, dirty index | `apply`, `take_dirty`, `requeue_dirty`, `dirty_len` | newest version wins; a failed batch comes back unless a newer write has taken over |
| LSN authority, `lsn.rs` | next LSN, set of pending LSNs | `alloc`, `alloc_block`, `note_pending`, `note_drained`, `checkpoint_watermark` | one LSN names one record; a checkpoint stays below every pending LSN |
| worker, `worker.rs` | scratch vector, batch, stall counter | `run`, `flush`, `flush_batch`, `persist_with_retry`, `final_drain` | log before store; nothing lost on failure; shutdown ends |
| facade, `api.rs` | handles to all of it, stop flag | `start`, `submit`, `submit_durable`, `flush_now`, `shutdown` | an acknowledged durable write survives a crash |
| log, `wal.rs` | active segment, BufWriter, last LSN | `append_batch`, `checkpoint`, `recover`, `flush` | what `Ok` promised is in the file; rotation is atomic; a torn tail is dropped |
| mock store, `store.rs` | id -> state, fault knobs, counters | `persist_batch`, knob setters, reads | version order; as many failures as were asked for; the batch counter follows the data |
| disk store, `examples/disk_kv_store.rs` | data file, BufWriter, index | `open`, `persist_batch`, reads | the index is never ahead of what a reopening replays |
| redis store, `examples/redis_store.rs` | a key per id | `persist_batch`, reads | version order |
| records and codec, `domain.rs` | none | `encode`, `decode`, `crc32` | decode inverts encode, a torn frame is recognised |
| metrics, `metrics.rs` | counters, two peaks | `record_*`, `snapshot` | a peak is never below a recorded value; flushes, retries and errors add up |
| config, errors, crate root | none | `validate`, `is_retryable` | |
| binaries, tests | | drivers of the above | |

How they interact. `submit` touches the LSN counter and the ring, nothing else.
`submit_durable` mints an LSN, registers it as pending, appends its own frame,
and enqueues a copy tagged with that LSN. The worker, and any caller in
`flush_now`, drain the ring into the cache (lifting the pending mark of each
drained LSN), take a batch of dirty states, stamp it from the same counter,
append it, persist it, compute the watermark and checkpoint the log. `start`
recovers the log, replays it into the cache as dirty, seeds the counter and
spawns the worker. `shutdown` consumes the engine, sets the stop flag, joins the
worker and flushes the log. Behind the trait of the store stand a mock with
fault knobs (`store.rs`), a file with an index (`examples/disk_kv_store.rs`) and
a redis client (`examples/redis_store.rs`). Each of cache, pending set, log and store has its
own mutex, and no two are ever held together, so every hand-over between parts is
a point where another thread may come in.

What is hard to test, at its line, is the list `hazards` of `PROJECT.json`: two
flushers over one cache, log and store without a common lock; values read under
one mutex and used under another (the watermark); a claim and its publication
apart in the ring; a failed append, attempt or checkpoint in the middle of a
batch; a write that reaches the file in part, and the frames written behind it; a
crash between any two of these steps, between two file operations of a
checkpoint, and a second one after recovery; a store that never comes back while
shutdown waits.

## 2. Modules

| module | what it is |
|---|---|
| `Cache` | the tables of cache and store, each critical section an operator |
| `LsnFloor` | `checkpoint_watermark` |
| `Pipeline` | the engine: callers, worker, ring as a queue, cache, LSNs, log, store, crash and restart; its properties |
| `PipelineClaims` | what comments of the repository say and the code does not keep |
| `MCPipeline` | writes and budgets of the instances |
| `Ring` | `ring.rs`, one action per atomic access |
| `BoundedQueue` | what the ring promises: a FIFO window of cells |
| `RingQueue` | the refinement mapping from `Ring` to `BoundedQueue` |
| `MCRing` | instances of `Ring` |
| `Files` | what both log files use of the system: inodes with a page cache and stable storage, writes that stop midway, `BufWriter` |
| `Codec` | the two frame formats, cell by cell, and the scans over a file |
| `Wal` | `wal.rs`, one action per file operation, with errors, kills, power losses |
| `Journal` | what a write-ahead log promises, without files |
| `DiskKv` | the disk store, one action per file operation |
| `Storage` | `Wal` and `DiskKv` under one engine; the properties of both |
| `MCStorage` | instances of `Storage` |
| `MockStore` | several flushers, a test thread and the counters at one `MockDb`, one action per atomic |
| `MCMockStore` | an instance of `MockStore` |
| `JournalProofs` | proof of the promise of `Journal` |
| `MockStoreProofs` | proofs about `MockStore` |
| `PipelineSafety` | proofs of the engine's types and safety properties |
| `RingProofs` | proofs of the ring's invariants, and that `Ring` implements `BoundedQueue` |
| `StorageTyping` | what the operators on files, buffers and logs return, and proof that the types of `Storage` hold |
| `StorageSafety` | proofs of `CheckpointedGone`, `FrameOnce` and `SolidKept` |
| `StorageJournal` | proofs that the log's files implement `Journal`, and of `KeptUntilPassed` |
| `StorageBytes` | proof of `BytesAgree`: what the scans find in the cells of a file |

### Pipeline

An action is one step between two points where another thread may interleave: a
critical section, an atomic of the LSN counter, one call into log or store. `pc`
names a thread's next step; the labels follow the calls in the code.

| code | actions, in order |
|---|---|
| `submit` | `Submit` (alloc and the ring's CAS, or shed), `Publish` (stamp store) |
| `submit_durable` | `DurableAlloc`, `DurableNote`, `DurableAppend` or `DurableAppendFails` then `DurableUndo`; `DurableClaim` (or a full ring), `DurablePublish` |
| `drain_ring_into_cache` of worker and facade | `Pop`..., `PopEnd`, then per request `LiftFloor`, `ApplyNext` |
| `flush_batch`, `flush_states` | `Take`, `Alloc`, `AppendBatch` or `AppendBatchFails`, `Persist` or `PersistFails` (retry or give up), `Requeue`, or `Mark` and `Checkpoint` or `CheckpointFails` |
| `flush_now` | `NowStart`, `NowCheck`, `NowReturnsOk` around the two rows above |
| `Worker::run`, `flush` | `Top`, `DecideFlush` or `DecideWait`, `FlushDone` |
| `final_drain` | `EndCheck`, `EndAfter` |
| `shutdown`, process death, `start` | `Shutdown`, `ShutdownReturns`, `Crash`, `Restart` |

State: `ring` is the queue of claimed cells with their publication flag, `cache`
and `store` map an id to `None` or its state, `next` and `pending` are
`LsnState`, `wal` the frames in the file, `walBuf` those a failed append left in
the BufWriter, `walLast` is `last_lsn`; `scratch`, `batch`, `upTo`, `attempt`,
`stalled`, `before` are the locals that live across a step. `acked`, `promised`,
`logged`, `exposed` and `drained` are history variables and no action reads them.

Both flushers share the actions of a drain and a batch; where the two
implementations differ (drain limit, what follows a failure, what a failed
checkpoint does) the action says so.

What is open on purpose: which dirty ids `take_dirty` picks (hash order) and how
a batch is stamped; whether the time threshold has passed; which attempt fails
and whether the error is retryable; how much of an append under way a crash
leaves; which of two frames with equal versions replay leaves.

### Ring and BoundedQueue

`Ring` has one action per load, stamp test, CAS, slot access and stamp store.
`RingQueue` maps its positions to the window of `BoundedQueue`, where a cell is
being written, ready, being read or released; `ImplementsQueue` is the
refinement. `Pipeline` uses the same queue with a pop as one step. Since the slot
of a popped cell is released a little after the pop, `Pipeline` lets a producer
find the ring full while a drain is between the two (`Freeing`).

`DropFreesEach` states what `Drop` relies on: with no call under way the positions
from the dequeue to the enqueue counter are exactly those holding a payload.

### Wal, DiskKv and Storage

A file is a sequence of pieces of frames. An inode has its page cache (`data`) and
what is on stable storage (`hard`). A write may stop, by an error or a kill,
between two frames or inside one; the rest of a partly written buffer stays in
the `BufWriter` (as `flush_buf` does), the rest of a frame that bypassed the
buffer is gone. A kill leaves the page cache. A power loss leaves of each inode
what was synced and perhaps some of what follows, and under the name of the
segment any inode it may still lead to on stable storage (`stale`). A new file is
one of `Unused`: `Inodes` bounds how many files have a name or are open at a time,
and creating one waits while none is left.

| code | actions, in order |
|---|---|
| `Wal::open`, `recover` | `Open`, `WriteHeader`, `SyncHeader`; `Recover`, `SyncCut`, `SyncCutName` |
| `append_batch` | `AppendBatch`; per frame `Copy`, or `Spill` before it, or `WriteThrough`; `FlushBuffer`, `Commit`; `BufferWriteFails`, `WriteThroughFails`, `StepFails` |
| `flush` | `FlushCall`, `FlushBuffer`, `Commit` |
| `checkpoint` | `CheckpointCall`, `Collect`, `WriteTemp`, `SyncTemp`, `Rename`, `SyncDir`, `Reopen`, with the same failures |
| disk store `open`, `persist_batch` | `DOpen`, `DSyncCut`; `PersistBatch`, `DCopy`, `DSpill`, `DWriteThrough`, `DFlushBuffer`, `Index`, and their failures |
| `start` | `StartStore`, `StartLog`, `Started` |
| `submit`, `submit_durable` | `Accept`; `SubmitDurable`, `DurableAnswered` |
| `flush_batch` | `Flush`, `Logged`, `Requeue` or `Retry`, `Persisted`, `Trimmed` |
| `SIGKILL`, power loss | `Kill`, `PowerLoss` |

`Storage` runs one call at a time, which is what the mutexes of log and store
leave of the engine; the races between calls are the subject of `Pipeline`. A flush
takes `FlushMaxBatch` of the dirty states and leaves the rest. A checkpoint may be
asked for any watermark below the next LSN, those included that break the contract
of the trait (`domain.rs`: every record at or below it is safely in the store), as
the engine's may (`lost_acked`); so nothing here depends on how `LsnState` computes
one. `owed` are the versions `append_batch` answered `Ok` for on a sound segment;
when a checkpoint is asked to pass one of them that neither a later record of the
log nor the store's file outweighs, the contract is broken, and that version is owed
no longer (`Outlasting`). `KeptUntilPassed` is about the others.

`acked` and `sure` are the records `append_batch` answered `Ok` for while the
segment was sound, which it is not behind an abandoned part of a frame, behind a
frame too long for its length field, or after a checkpoint that failed between
rename and reopening. `answered` has no such exception; the run `both_confirmed`
is about it. `sure` asks in addition that the name of the segment was on
stable storage, since `open` creates it without syncing the directory.

`Wal` and `DiskKv` think in frames; `Codec` encodes them. `BytesAgree` joins the
two: in every file a crash may leave, the scan over the cells finds exactly the
frames `Log` and `DStates` say it does.

### MockStore

The atomics of `persist_batch` and of the counters in the order of the code, for
the worker and for callers in `flush_now`, whose loops count at different points
(the worker counts an error of the log, `flush_now` does not; the worker ignores
an error of the checkpoint, `flush_now` returns it). A test thread flips
`healthy` and arms `fail_next` at any time; `fail_every` is set before the
flushers start.

## 3. Runs

| run | instance | shows |
|---|---|---|
| `pipeline_faults` | one caller, two plain writes and a durable one of two players, ring 2, batch 2; any two of a store failure, a log failure and a crash, one shutdown | types, `WalBeforeStore`, `NoUpdateLost`, `FloorRespected`, `LsnsUnique`, `UndrainedFrameKept` (also for a copy shed by a full ring), `CleanExit` |
| `pipeline_callers` | two callers, one `flush_now`, a plain and a durable write of one player, ring 2, batch 1, a retry limit of 2, one store and one log failure | `NoUpdateLost`, `LsnsUnique` and `UndrainedFrameKept` with two flushers |
| `pipeline_live` | two plain writes, three store failures, one log failure, shutdown, batch 1, a retry limit of 2, under fairness | `EventuallyStored`, `ShutdownGivesUp`, `ShutdownTerminates` |
| `ring_queue` | two producers, two consumers, one reader of `len`, four items over two slots, spurious CAS failures | slot ownership, `DropFreesEach`, `ImplementsQueue`, `LenNotUnder` |
| `ring_live` | two producers, two consumers, three items; one of each may stop anywhere | `RunningCallsReturn` |
| `storage` | a write of one player below the buffer's capacity, one of another above it, batch 1, three appends, checkpoints at any watermark, one I/O error, one kill or power loss | `JournalKept` (the files implement `Journal`), `KeptUntilPassed`, `CheckpointedGone`, `FrameOnce`, `BytesAgree`, `SolidKept` |
| `observers` | worker and one `flush_now` caller, two flushes of an old and a new state, one `submit`, two turns of a knob, one log error, a retry limit of 2 | `ExactlyArmed`, `PeriodExact`, `CounterShowsData`, `NeverRegresses`, `PeaksHold`, `Accounted` |
| `lost_acked`, `lost_at_shutdown`, `ring_one`, `both_confirmed`, `redis_order` | see section 5 | a comment of the repository that the code does not keep |

Bounds. `Budget` caps store failures, log failures, crashes, calls of `flush_now`
and shutdowns, and with `faults` the store failures, log failures and crashes
together; the requests each are submitted at most once. The cases the
properties are about need few of each: two ids make a batch of two and a batch
that leaves one behind, three versions make a newer write overtake a failed batch
and an older one arrive late, ring 2 fills with two undrained writes, so that the
third request of `pipeline_faults` finds it full and a durable one is shed, and one
crash leaves a process that recovers and goes on. `MaxStalled` is 1 where the
code has 64: the stall test is then reached after one failed pass, and the
branches are the same. Positions and LSNs are unbounded integers where the code
has 64 bits; the runs stay far below.

In `storage` cells stand for bytes: `BufCapacity` 18 lies between a frame of 8
cells, of which two fit the buffer, and one of 19, which bypasses it. `Cuts` lets a
write stop inside a frame at one place; where does not matter to `Wal`, whose
frames are whole or not, and `BytesAgree` reads the cells at that place. Four
inodes are enough: the segment, the temp segment, the one the writer has open and
one a stale name may lead to. Three appends make a failed one, a later one behind
it, and one after recovery. One error and one crash, each anywhere, leave no pair
of them in a single call out; two errors are not covered. In `observers` two
flushes are enough for two threads inside `persist_batch` at once, and a period
of 2 is reached by the attempts of different threads.

In `pipeline_live` the store fails finitely often (its budget), which is what
"once the store answers" means in `EventuallyStored`. A store that never comes
back is the subject of `ShutdownGivesUp`: it counts, so it need not fail forever
to be refuted. `Patience` bounds the failures the final drain still meets, step by
step: no step adds to it, and each failure takes one. With d dirty entries and
nothing tried yet it is `Ahead(d, 0)`, that is d * `MaxStalled` * `StoreRetryLimit`
for the passes that end in a failed batch, and (d - 1) * (`StoreRetryLimit` - 1) more,
since a batch that succeeds on its last attempt has failed before. It is reached:
with two entries, a retry limit of 2 and one stalled pass, a batch may fail once and
succeed, the other fail twice in that pass and twice in the next. As each step is
compared with the one before, a budget of three failures is enough to take every
kind of step. `flush_now` is left out of this run,
its interleavings with the worker are those of `pipeline_callers`.

Runs of `Pipeline` and `Ring` check deadlock: there is always something the
worker, or a restart, can do, and in `Ring` a consumer or reader may always call
again. `storage`, `both_confirmed` and `observers` do not: their engine has no
worker that polls, and stops when its writes, flushes and knob turns are used up.

Fairness (`FairSpec`). The operating system schedules threads, so a call in
progress and the worker are weakly fair. `DecideFlush` is strongly fair: the
worker comes back to the flush decision again and again, and `flush_interval`
elapses, so it does not choose to wait forever with dirty entries.
`ShutdownReturns` is weakly fair since `join` returns when the worker has. Nobody
is obliged to call, to stop or to crash. In `ring_live` only the threads of
`Running` are fair, and only inside a call.

## 4. Proofs

Every theorem is about the specification itself, for every value of the constants
that its assumptions admit. One lemma per action, or group of actions alike, says
that the step keeps the invariant; the theorem puts them together.

### The engine (`PipelineSafety`)

For every set of callers and ids, every set of writes with natural versions, every
configuration and every budget. Assumed is what `Pipeline` and `Cache` state as
`ASSUME`: the worker is no caller, ids are finitely many, `None` differs from every
table entry and request, and the configuration numbers are positive, which is what
`FluxConfig::validate` checks.

* `Typing`, `Spec => []TypeOK`. `TypeOK` is not inductive: a drain reads the head of
  its scratch vector and a submission its pending write. The inductive `TypeInv` adds
  `Shape`: at "lift" and "apply" the scratch vector is not empty, a caller between
  alloc and return has a write, every batch is finite, and LSNs of submissions and
  cells are at least 1 (so the floor under a pending LSN is a natural).
* `WriteAhead`, `Spec => []WalBeforeStore`. The strengthening says that what a thread
  at "persist" holds is in `logged`; only `AppendBatch` leads there.
* `Floor`, `Spec => []FloorRespected`. `Mark` puts the watermark below all that is
  pending (`WatermarkClamps`); afterwards the pending set only grows by
  `DurableNote`, which records the late LSN in `exposed`.
* `LsnsStayUnique`, `Spec => []LsnsUnique`. A frame gets into the log through the
  hands of a thread that was given its LSN. `LsnInv` says that nothing in hand has an
  LSN of the log, that no two threads hold the same, that `next` is above all of
  them, and that a dead process has nothing in hand, so that the seed after a restart
  has only the log to be above.
* `UndrainedKept`, `Spec => []UndrainedFrameKept`. The LSN of an acknowledged write
  that no drain has taken over is pending, its ring copy shed or not
  (`UndrainedPending`), and the frame of a pending one is in the log
  (`UnliftedFrameKept`). For a drain to lift only what it took out of the ring,
  `KeptInv` follows an LSN from its cell to one scratch vector (`CellsUnique`,
  `DrainedLeft`), says that nobody else has the LSN of a durable write that has no
  cell yet (`UnclaimedFresh`), and that one in the ring is pending (`Registered`). With
  `FloorRespected` a checkpoint leaves what is pending.
* `NoLoss`, `Spec => []NoUpdateLost`. `NoUpdateLost` says where a promised write is;
  to be inductive it has to follow clean cache entries and cells. `NoLossInv` has
  three parts. `CacheCovered`: a clean cache entry is in the store or covered by a
  batch that some thread holds. `BatchSound`: a batch has one state per id, threads
  outside a flush hold none, and no state in it is newer than the cache.
  `ClaimCovered`: a promised write and the pending claim of a caller about to publish
  are covered by ring, scratch vector, cache, batch or store. `CoverKept` says once
  what an action that only moves a write has to keep.
* `CleanExitStores`, `Spec => []CleanExit`, on top of it. `ExitInv` says that with the
  stop flag up no call is under way, that only a drain has requests in its scratch
  vector, and that what `final_drain` saw when it decided to leave is still so: no
  place of `NoUpdateLost` is left but the store.

### The ring (`RingProofs`)

For any number of producers, consumers, observers and items, with compare-exchanges
that fail spuriously or not, and every `Capacity > 1`. The code accepts 1, and there
the theorems are false: that is the run `ring_one`.

* The inductive invariant `TurnInv` says whose turn each slot is: a position of the
  window that was claimed is being written by the one producer that has it or is
  published, one not yet claimed is free or being emptied by the one consumer that
  had it a lap ago, and the stamp tells which. It also says what a thread that
  loaded a position and a stamp may still believe: if the position counter has not
  moved, the stamp has not either. `Index` is injective on any `Capacity` consecutive
  positions, which is where capacity 1 fails: position and next position share
  a slot, and a stamp means two things.
* From it: `RingTyping`, `WindowStaysBounded`, `SlotsNeverShared`, `SlotsAlwaysMatch`,
  `DropAlwaysFreesEach` and the action property `LenNeverUnder`.
* `RingImplementsQueue`, `Spec => ImplementsQueue`: under the mapping of `RingQueue`
  every step is a step of `BoundedQueue` or a stutter. The window of the queue runs
  from the oldest position that a consumer has claimed and not yet freed; when
  that consumer frees it, all freed positions behind it leave with it. A
  refusal is the queue's when the stamp that justifies it is read.

### The log and the disk store (`StorageTyping`, `StorageSafety`, `StorageJournal`, `StorageBytes`)

For every finite set of ids, every set of writes, every buffer size, every set of
places where a write may stop, every number of inodes, with `wal_fsync` on or off, and
any number of appends, I/O errors, kills and power losses. Assumed: the constants are
of their types, versions are positive, and a file header fits its own length field.

* `StorageTyped`, `Spec => []TypeOK`. That a file is a sequence of records, each from
  its first byte on and cut at most in its last, is not a matter of types: a
  `BufWriter` that is left with the rest of a record must write it just behind the
  beginning of that record and nowhere else. `WBuffered` and `DBuffered` say so,
  `Names` says which file the writer has open in which step of which call, and
  `TypeInv` is the conjunction with the types of log, store and engine.
* `DroppedStaysGone`, `Spec => []CheckpointedGone`. `Covered(Q)` says that whatever a
  future log can be read from holds only records of Q: the segment by name, the
  file the writer has open, its buffer, the rest of the call's list, the records
  collected for the temporary file and the temporary file itself, and of each also
  what is on stable storage, and the files that only the directory on disk still
  names. The inductive `CheckpointInv` is `Covered` of the records above the last
  watermark, and `Dropping`: from `Collect` on, what the checkpoint under way has
  written is above its own. `Marks` says that the batch appended next is above both.
  Every action is shown to preserve `Covered(Q)` for every Q at once.
* `FramesStayOnce`, `Spec => []FrameOnce`. `Ordered`: LSNs rise along every file, along
  the stream that the file will be once the buffer is written, and from there to
  what the call under way has still to write. `Numbered`: the log is covered by the
  LSNs below `next_lsn`, and after recovery by those up to what `recover` answered.
  A failed write leaves the rest of the buffer to be written behind the file's torn
  end, and the stream is still the same: that is why no retry writes a record twice.
* `SolidStaysKept`, `Spec => []SolidKept`. `Leads(a, b)` says that what a reopening
  reads of file a it reads of file b; it holds from what is stable to the file as it
  is, and from there to what any write, complete or cut, any cut of a torn tail and
  any power loss makes of it. `KeepsInv` has three parts. `Answered`: what was
  answered `Ok` is shown by what is stable, and what the index claims by the file.
  `Completed`: the buffer holds the end of the frame the file ends with, and without
  an abandoned frame no other is cut. `Underway`: each state of the batch is in the
  file, in the buffer or still to write, so that with the sync all of it is shown.
* `FilesKeepJournal`, `Spec => JournalKept`: under the mapping that takes `log` to
  what recovery would read after a kill (`OnDisk`), and `firm` to what every image of
  every file that may carry the segment's name has (`Firm`), each step is a step of
  `Journal` or a stutter. A step that only adds bytes, syncs, or cuts a torn tail is
  a `Write` (`Grows`); `Commit` is an `Answer`, `Rename` a `Trim`, a kill a `Write`, a
  power loss a `PowerLoss` and `Started` a `Restart`. Two of these are hard. `Commit`
  answers for records that must be whole in the segment: with no abandoned frame in it
  the writer's file is the segment, the buffer completes the frame the file ends with
  (`Tidy`), and every record of the batch is in the file, the buffer or the list
  (`Batched`). `Rename` must drop nothing above its watermark: the temporary file
  holds a header and the frames of all survivors, each short enough to be read,
  and is synced (`Copying`). `JournalInv` is these with `Leading` (what is stable of a
  file is read the same in the file) and `Measures` (a frame is as long as it says).
* `AnsweredStaysKept` carries `JournalProofs!Promise` over to the files: a record that
  `append_batch` answered `Ok` for on a sound segment is there to recover until a
  checkpoint reaches it, after a kill, and after a power loss once it was synced under
  a name that was.
* `OwedKeptUntilPassed`, `Spec => []KeptUntilPassed`, puts the log and the store
  together. The inductive `EndInv` says that an owed version was answered for by the
  log with an LSN above the watermark, or can be read of the store, and of both also
  on stable storage (`OwedKept`). `Rename` moves the watermark; `DroppedStored` says
  that what is still owed then has a record above the new one or is shown by what is
  stable of the store's file: when the checkpoint was asked for, right after the
  store's `Ok`, file and stable storage were the same (`Stored`). `Calls` says that a
  batch is logged above every watermark. The theorem does not say that the engine
  never breaks the contract of a checkpoint. It does, and `lost_acked` shows it.
* `BytesAlwaysAgree`, `Spec => []BytesAgree`: the scans of `decode_segment` and of
  `rebuild_index`, run over the cells of any file a crash may leave, find the frames
  that `Log` and `DStates` say they find, and stop where those say, for every place of
  a cut, every blob and every number at which a `u32` wraps. What makes it true is
  where a checksum can be: a checksum cell ends a whole frame and covers the cells of
  that frame from its first one on (`Cellular`, `LaidCells`), so that what passes at
  the beginning of a torn frame would end in a checksum of something shorter
  (`DecodesOnly`). A frame whose length does not fit its field declares less than it
  has, which the checksum refuses as well. Frames lie one after the other in a file
  (`Laid`), the scan goes from one to the next (`ScanIs`), and that each is as long
  as its record makes it is inductive (`Measures`, `DMeasures`).

Three things in these modules are written so that they can be reasoned about. The
walk of a scan, what `collect_live` keeps and what replay puts back are recursive
functions. The highest LSN and version are a `Max`, where a fold would be shorter.
And running out of inodes, which the run never does, disables the step that creates
a file.

### The rest

* `JournalProofs!Promise`, `Journal!Spec => []AnsweredKept`: a log that moves only
  as `Journal` says keeps every record it answered `Ok` for until a checkpoint
  reaches it, after a kill, and after any crash once synced. Inductive with the
  types and `firm \subseteq log`, which a power loss relies on. The file operations
  of `wal.rs` implement `Journal` (`FilesKeepJournal`), so the promise is theirs too.
* `MockStoreProofs`, about `MockStore` for every finite set of callers, all batches
  with one state per id, and any number of knob turns. `CountdownExact` and
  `LastWriteWins` are inductive with the types. `CounterFollowsData` adds that a
  batch between its upsert and its count is in the table. `PeaksAlwaysHold` adds
  that what a `fetch_max` has seen of a gauge is still at most the gauge when its
  compare-exchange runs. `PeriodAlwaysExact` counts the threads between `fetch_add`
  and the test of the number as owing a failure, and rests on `NextMultiple`: n + 1
  has as many multiples up to it as n, and one more if it is one.
  `EveryFlushAccounted` speaks of moments when no call is under way; its invariant
  `Books` balances the counters at every step by adding the threads between one
  counter and the next (`Flying`, `Refused`, `Landed`), as cardinalities, and bounds
  the retries by what the flushes under way may still try (`Chances`).

Each invariant was model-checked on the component's instances before it was
proved: those of `Pipeline` on `pipeline_faults` and `pipeline_callers`, those of `Ring`
on `ring_queue`, those of `Storage` on `storage`.

### What is only model-checked

* The liveness properties (`EventuallyStored`, `ShutdownGivesUp`,
  `ShutdownTerminates`, `RunningCallsReturn`): TLAPS does not reason about fairness
  and `ENABLED`.
* What section 5 says, since a refutation needs one behaviour.

The provers cannot use the induction theorems, whose parameter is an operator, nor
unfold the library's folds over a sequence of any length. Where a proof about
sequences needs induction it takes the least number at which a claim fails
(`Least`, from `WFMin`); a recursive function, for a sum, a concatenation or a scan,
is shown to exist in the same way (`CellsCount`, `JoinExists`, `WalkExists`).

## 5. Where comments and code disagree

Each of these is a run that expects TLC to refute the statement. None needs an
injected failure other than those named.

* `lost_acked`. `submit_durable` says that once it returns `Ok` the write survives
  a hard kill. The watermark is computed under the pending mutex and used after it
  is released, and an LSN is minted before it is registered. A caller that mints
  LSN n, a worker that stamps a later batch and computes its watermark above n,
  the caller registering, appending and returning `Ok`, and the worker
  checkpointing: the frame is gone while its LSN is pending. `FloorRespected` and
  `UndrainedFrameKept` state what does hold, with this window (`exposed`)
  excepted. There are two more ways to the same loss, for which `PipelineClaims`
  has narrower statements that the same instance, with `AckedKept` replaced in
  `lost_acked.cfg`, also refutes (the last needs one crash in the budget):
  `DrainedKept`, since `note_drained` lifts the floor when the request enters the
  cache and until its own batch is appended any other batch's checkpoint removes
  the frame; `RecoveredKept`, since frames replayed by `start` are not registered
  as pending, and the first batch of the new process checkpoints all of them
  away. `PendingKept` is the first way alone. These three are in no run: `lost_acked` shows
  the first way, and the others end in the same violation of `AckedKept`.
* `lost_at_shutdown`. A final drain that gives up says that all dirty entries
  are in the log. With the store down each pass appends one batch of
  `flush_max_batch` and stops; entries beyond it never were in a batch.
* `ring_one`. Capacity 1 is accepted, and there `pos + 1` is both the stamp of a
  published cell and the stamp the next producer waits for.
* `both_confirmed`. `wal.rs` says that what is appended and synced is replayed, and
  the disk store that its index is never ahead of its file. A frame as large as the
  `BufWriter` (8 KiB) is written straight to the file; if that write fails midway the
  beginning of the frame stays, the next one is written behind it and answered `Ok`,
  and `decode_segment` or `rebuild_index` stops at the torn frame. The run lets it
  happen once in each file, so that one behaviour refutes both statements: a durable
  write answered `Ok`, which the store then answers `Ok` for as well, is in neither
  file after a kill. Needs two I/O errors and no crash; for one of the statements
  alone one is enough. `KeptUntilPassed` and `SolidKept` except what follows such a
  frame (`Sound`, `hollow`). A checkpoint that fails between the rename and the
  reopening has the same effect on the log, since the writer then appends to the
  unlinked file; no run shows that way by itself. TLC finds it with
  `\A r \in answered : r.lsn > floor => r \in OnDisk` on the instance of this run with
  a `BufCapacity` of 40 and a `U32` of 60, where no frame bypasses the buffer.
* `redis_order`. The redis example uses a plain `SET` since "the worker only ever
  flushes monotonically-newer versions". After a restart it flushes what the log
  holds: version 3 is persisted, a durable version 2 arrives late and is in the
  log, the process dies, replay delivers version 2.

Noticed and left without a run: `flush_now` may return `Ok` while the worker
still holds a batch (`SPEC.md` offers it for durability); `pending()` does not
count a batch in flight, so it is not an over-approximation (`api.rs` 377-378);
an equal version replaces the cached state (`cache.rs` 138) though `domain.rs`
38-40 speaks of the highest; `requeue_dirty` calls a newer entry "already dirty"
(`cache.rs` 238-240), which it is not if the other flusher has taken it;
`append_batch` answers the highest LSN ever appended, not the batch's own
(`worker.rs` 370-371); a batch that failed at the store need not still be in the
log (`worker.rs` 425-426), since another flusher's checkpoint may have passed it.

## 6. What is left out

* Memory orders weaker than sequential consistency in `Ring` and `MockStore`.
* In `Pipeline`, the bytes of the log: a failed append keeps either all or none of
  its frames in the buffer, a checkpoint fails only before its rename, and the
  order of frames in the file is forgotten. `Wal` has them.
* In `Files`, stable storage that reorders or damages sectors, and a failed
  `sync_data` that also drops dirty pages. In `Wal`, `write_offset`, which nothing
  reads; a log configured without `wal_fsync` is modelled (`Fsync`) and not run.
* In `Codec`, collisions of the CRC; the runs write no frame of 4 GiB, where the
  length fields wrap.
* Two I/O errors in one life of a process (`both_confirmed` has one behaviour of
  them), and a `SIGKILL` during recovery followed by a power loss, are beyond the
  bounds of `storage`.
* The last `wal.flush` of `shutdown` is assumed to succeed in `Pipeline`.
* A drain stalled between claiming a cell and freeing it, while other threads pop
  later cells, is seen in `Ring` and not in `Pipeline`, where a pop is one step.
* The clock, the latency knob of `MockDb`, `get`, `snapshot` and the other reads
  nothing depends on.
* `FluxConfig::validate` (its ranges are the assumptions of `Pipeline`), the value
  codec and the in-memory fake of the redis example, formatting of errors, the
  binaries and the tests: no state of their own, or drivers of what is modelled.

## 7. Plan

In this order; 1 to 10 are done.

1. `Cache`, `LsnFloor`, `Pipeline`: safety with failures, crash and restart.
2. `PipelineClaims`, liveness of the engine.
3. `Ring`, `BoundedQueue` and the refinement between them.
4. Proofs of the types, `WalBeforeStore`, `FloorRespected`, `NoUpdateLost`.
5. `Files`, `Codec`, `Wal`, `Journal`, `DiskKv`, `Storage`: the files under log and
   store with errors, kills and power losses, and the promise they implement.
6. `MockStore`: knobs and counters under several threads.
7. Proofs about `Journal` and `MockStore`.
8. Proofs about the ring for every capacity above 1, its refinement included, and of
   `LsnsUnique`, `UndrainedFrameKept` and `CleanExit`.
9. Proofs of the types of `Storage`, of `CheckpointedGone`, `FrameOnce` and
   `SolidKept`, and of `Accounted` of `MockStore`.
10. A proof of `JournalKept`, step by step, and with `Promise` of `Journal` of
    `KeptUntilPassed`.
11. An abstract specification of the engine's promise (accept, store, lose only in
    a crash and only what was not logged) which `Pipeline` implements.
