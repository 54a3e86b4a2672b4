------------------------------ MODULE Storage ------------------------------
(***************************************************************************)
(* The two durable parts under one engine: the write-ahead log on its      *)
(* files (Wal) and the disk-backed store of the example (DiskKv), called   *)
(* in the order of flush_batch in src/src/worker.rs and submit_durable and *)
(* start in src/src/api.rs.                                                *)
(*                                                                         *)
(* The engine above is reduced to what orders the calls: a table of dirty  *)
(* writes, one call at a time, and any checkpoint watermark it could pick, *)
(* those included that do not keep the contract of the trait               *)
(* (src/src/domain.rs: every record at or below up_to_lsn is safely in the *)
(* store); module Pipeline is about how the engine picks it.               *)
(***************************************************************************)
EXTENDS Wal, DiskKv

CONSTANTS
  Plain,     \* what submit and submit_durable may be called with:
  Durable,   \* [id, ver, blob] records
  FlushMaxBatch,  \* config.flush_max_batch
  None       \* no dirty write

VARIABLES
  step,      \* call under way: "starting", "idle", "flush", "durable",
             \* "persist", "trim"
  unsent,    \* writes not submitted yet
  dirty,     \* Ids -> write or None
  batch,     \* the records of the call under way
  nextLsn,
  \* History variables, not in the code:
  owed,      \* [id, ver] answered Ok on a sound segment, until a checkpoint
             \* may pass them without their being in the store's file
  owedFirm   \* those of them owed after a power loss

engineVars == <<step, unsent, dirty, batch, nextLsn, owed, owedFirm>>
vars == <<walVars, diskVars, engineVars, left>>

ASSUME WritesAssumption ==
  /\ IsFiniteSet(Ids)
  /\ Plain \union Durable \subseteq [id : Ids, ver : Nat \ {0}, blob : Nat]
  /\ None \notin Plain \union Durable
  /\ FlushMaxBatch \in Nat \ {0}
ASSUME FilesAssumption ==
  /\ BufCapacity \in Nat /\ Cuts \subseteq Nat /\ U32 \in Nat /\ HEADER_LEN < U32
  /\ Budget \in [{"append", "io", "crash"} -> Nat]
  /\ Fsync \in BOOLEAN /\ Inodes \subseteq Nat \ {0} /\ 1 \in Inodes

Init ==
  /\ WInit /\ DInit
  /\ dnamed = (active # 0)
  /\ step = "starting" /\ unsent = Plain \union Durable
  /\ dirty = [i \in Ids |-> None] /\ batch = <<>> /\ nextLsn = 1
  /\ owed = {} /\ owedFirm = {}
  /\ left = Budget

VersionIn(table, i) == IF table[i] = None THEN 0 ELSE table[i].ver
Put(table, w) ==
  IF w.ver >= VersionIn(table, w.id) THEN [table EXCEPT ![w.id] = State(w)] ELSE table
PutAll(table, ws) ==
  LET after[k \in 0..Len(ws)] ==
        IF k = 0 THEN table ELSE Put(after[k - 1], ws[k])
  IN  after[Len(ws)]
Stamped(ws) ==
  [k \in DOMAIN ws |-> [lsn |-> nextLsn + k - 1, id |-> ws[k].id,
                        ver |-> ws[k].ver, blob |-> ws[k].blob]]
Dirty == {dirty[i] : i \in Ids} \ {None}

-----------------------------------------------------------------------------
(* start: the store, then Wal::open, recover and replay into the cache.    *)
StartStore == /\ step = "starting" /\ DStarting
              /\ UNCHANGED <<walVars, engineVars>>

StartLog == /\ step = "starting" /\ dpc = "ready" /\ WStarting
            /\ UNCHANGED <<diskVars, engineVars>>

(* Replay keeps the highest version of each id; the seed of the LSNs is    *)
(* one past the highest recovered.                                         *)
Started ==
  /\ step = "starting" /\ wans = "started"
  /\ step' = "idle" /\ wans' = "none"
  /\ dirty' = PutAll(dirty, recovered) /\ recovered' = <<>>
  /\ nextLsn' = lastLsn + 1
  /\ LsnsRestart
  /\ UNCHANGED <<file, names, writer, lastLsn, wpc, callVars, scarred,
                 diskVars, unsent, batch, owed, owedFirm, left>>

Accept(w) ==
  /\ step = "idle" /\ w \in unsent \intersect Plain
  /\ unsent' = unsent \ {w}
  /\ dirty' = Put(dirty, w)
  /\ UNCHANGED <<walVars, diskVars, step, batch, nextLsn, owed, owedFirm, left>>

LogBatch(ws, call) ==
  /\ Spend("append")
  /\ batch' = Stamped(ws)
  /\ nextLsn' = nextLsn + Len(ws)
  /\ AppendBatch(batch')
  /\ step' = call
  /\ UNCHANGED <<diskVars, owed, owedFirm>>

(* flush_batch: take up to flush_max_batch of what is dirty, log it        *)
(* first, ...                                                              *)
Flush ==
  /\ step = "idle"
  /\ \E taken \in SUBSET Dirty :
       /\ taken # {} /\ Cardinality(taken) <= FlushMaxBatch
       /\ taken = Dirty \/ Cardinality(taken) = FlushMaxBatch
       /\ LogBatch(SetToSeq(taken), "flush")
       /\ dirty' = [i \in Ids |-> IF dirty[i] \in taken THEN None ELSE dirty[i]]
  /\ UNCHANGED unsent

(* submit_durable: log the one write first, ...                            *)
SubmitDurable(w) ==
  /\ step = "idle" /\ w \in unsent \intersect Durable
  /\ unsent' = unsent \ {w}
  /\ LogBatch(<<w>>, "durable")
  /\ UNCHANGED dirty

Pairs(recs) == {[id |-> r.id, ver |-> r.ver] : r \in recs}

(* What the Ok of append_batch makes the engine owe.                       *)
Owing ==
  /\ owed' = owed \union Pairs(Range(batch) \intersect acked)
  /\ owedFirm' = IF dnamed THEN owedFirm \union Pairs(Range(batch) \intersect sure)
                 ELSE owedFirm

(* ... then the cache; the ring may be full and shed the copy.             *)
DurableAnswered ==
  /\ step = "durable" /\ wpc = "ready"
  /\ IF wans = "ok"
     THEN Owing /\ dirty' \in {dirty, PutAll(dirty, batch)}
     ELSE UNCHANGED <<owed, owedFirm, dirty>>
  /\ step' = "idle" /\ batch' = <<>>
  /\ UNCHANGED <<walVars, diskVars, unsent, nextLsn, left>>

(* ... then the store, ...                                                 *)
Logged ==
  /\ step = "flush" /\ wpc = "ready" /\ wans = "ok"
  /\ Owing
  /\ PersistBatch([k \in DOMAIN batch |-> State(batch[k])])
  /\ step' = "persist"
  /\ UNCHANGED <<walVars, unsent, dirty, batch, nextLsn>>

(* (requeue_dirty gives a batch back that could not be logged or stored)   *)
Requeue ==
  /\ \/ step = "flush" /\ wpc = "ready" /\ wans = "err"
     \/ step = "persist" /\ dpc = "ready" /\ dans = "err"
  /\ dirty' = PutAll(dirty, batch)
  /\ step' = "idle" /\ batch' = <<>>
  /\ UNCHANGED <<walVars, diskVars, unsent, nextLsn, owed, owedFirm, left>>

Retry ==
  /\ step = "persist" /\ dpc = "ready" /\ dans = "err"
  /\ PersistBatch([k \in DOMAIN batch |-> State(batch[k])])
  /\ UNCHANGED <<walVars, engineVars>>

(* What a checkpoint up to n still owes of what was owed: the versions a   *)
(* record of recs above n carries, and those in the store's file.          *)
Outlasting(owing, recs, n) ==
  {o \in owing : \/ \E r \in recs : r.lsn > n /\ r.id = o.id /\ r.ver >= o.ver
                 \/ Replay(dfile.data)[o.id] >= o.ver}

(* ... and at last the checkpoint, up to checkpoint_watermark of the       *)
(* highest LSN so far: that, or less if a durable write is pending.  Which *)
(* are is left open here.                                                  *)
Persisted ==
  /\ step = "persist" /\ dpc = "ready" /\ dans = "ok"
  /\ \E n \in 0..(nextLsn - 1) :
       /\ CheckpointCall(n)
       /\ owed' = Outlasting(owed, acked, HigherOf(floor, n))
       /\ owedFirm' = Outlasting(owedFirm, sure, HigherOf(floor, n))
  /\ step' = "trim" /\ batch' = <<>>
  /\ UNCHANGED <<diskVars, unsent, dirty, nextLsn>>

(* shutdown's flush().                                                     *)
FlushLog ==
  /\ step = "idle"
  /\ FlushCall
  /\ step' = "trim"
  /\ UNCHANGED <<diskVars, unsent, dirty, batch, nextLsn, owed, owedFirm>>

Trimmed ==
  /\ step = "trim" /\ wpc = "ready"
  /\ step' = "idle"
  /\ UNCHANGED <<walVars, diskVars, unsent, dirty, batch, nextLsn, owed, owedFirm, left>>

LogWorks   == (WAppending \/ WCheckpointing) /\ UNCHANGED <<diskVars, engineVars>>
StoreWorks == DPersisting /\ UNCHANGED <<walVars, engineVars>>

-----------------------------------------------------------------------------
EngineGone ==
  /\ step' = "starting" /\ batch' = <<>> /\ nextLsn' = 1
  /\ dirty' = [i \in Ids |-> None]

Kill ==
  /\ dopen /\ Spend("crash")
  /\ WKill /\ DKill /\ EngineGone
  /\ UNCHANGED <<unsent, owed, owedFirm>>

PowerLoss ==
  /\ dopen /\ Spend("crash")
  /\ WPowerLoss /\ DPowerLoss /\ EngineGone
  /\ owed' = owedFirm
  /\ UNCHANGED <<unsent, owedFirm>>

-----------------------------------------------------------------------------
Next ==
  \/ StartStore \/ StartLog \/ Started
  \/ \E w \in Plain \union Durable : Accept(w) \/ SubmitDurable(w)
  \/ Flush \/ Logged \/ Requeue \/ Retry \/ Persisted \/ Trimmed
  \/ DurableAnswered \/ FlushLog
  \/ LogWorks \/ StoreWorks
  \/ Kill \/ PowerLoss

Spec == Init /\ [][Next]_vars

-----------------------------------------------------------------------------
(* Properties                                                              *)

Records == [lsn : Nat, id : Ids, ver : Nat, blob : Nat]

(* Variables keep their types; the writer has a file exactly while the log *)
(* is open, and the three names never share an inode.                      *)
TypeOK ==
  /\ \A i \in Inodes : \A k \in DOMAIN file[i].data :
       LET p == file[i].data[k]
       IN  /\ p.rec = Header.rec \/ p.rec \in Records
           /\ p.from = 0 /\ 0 < p.to /\ p.to <= p.len
  /\ {active, temp, handle} \union stale \subseteq Inodes \union {0}
  /\ (handle = 0) = (wpc = "closed")
  /\ temp # 0 => temp \notin {active, handle} \union stale
  /\ CellsIn(wbuf) <= BufCapacity /\ CellsIn(dbuf) <= BufCapacity
  /\ acked \union answered \subseteq Records /\ sure \subseteq acked
  /\ index \in [Ids -> Nat] /\ lastLsn \in Nat

(* The files of the log implement the promise of Journal, through failed   *)
(* and partial writes, failed checkpoints, kills and power losses.         *)
Firm ==
  LET outcomes == {Recs(d) : d \in Leftovers}
  IN  {r \in OnDisk : \A recs \in outcomes : r \in recs}
Promise == INSTANCE Journal WITH log <- OnDisk, firm <- Firm
JournalKept == Promise!Spec

(* checkpoint that returned Ok (wal.rs, steps 4 to 6): no crash brings     *)
(* back a record at or below its watermark, so nothing dropped is ever     *)
(* replayed over the store.                                                *)
CheckpointedGone ==
  \A d \in Leftovers : \A r \in Recs(d) : r.lsn > trimmed

(* Whatever fails and is retried, whatever a crashed checkpoint left       *)
(* behind, no record is in a segment twice (wal.rs append_batch,           *)
(* checkpoint: "Truncate-create the temp file").                           *)
FrameOnce ==
  \A d \in Leftovers \union {DataOf(handle)} : \A j, k \in DOMAIN Log(d) :
    Log(d)[j].lsn = Log(d)[k].lsn => j = k

(* The cells of a segment, and of a data file: those of its pieces.        *)
Joined(parts) ==
  LET upto[k \in 0..Len(parts)] == IF k = 0 THEN <<>> ELSE upto[k - 1] \o parts[k]
  IN  upto[Len(parts)]
CellsOf(p, frame) == SubSeq(frame, p.from + 1, p.to)
SegmentCells(data) ==
  Joined([k \in DOMAIN data |->
            CellsOf(data[k], IF data[k].rec = Header.rec THEN HEADER_MAGIC
                             ELSE EncodeWal(data[k].rec))])
FileCells(data) ==
  Joined([k \in DOMAIN data |-> CellsOf(data[k], EncodeRecord(data[k].rec))])

(* No torn or overlong frame passes for a record (domain.rs decode, "a     *)
(* torn write can never masquerade as a good record"), wherever in the     *)
(* file it is and whatever follows it: scanning the cells of any segment   *)
(* or data file a crash may leave finds exactly the whole frames before    *)
(* the first bad one, and cuts right after them.                           *)
BytesAgree ==
  /\ \A d \in Leftovers \union {DataOf(handle)} :
       LET found == DecodeSegment(SegmentCells(d))
       IN  found.recs = Log(d) /\ found.end = CellsIn(Good(d))
  /\ \A d \in Images(dfile) :
       LET found == DecodeFile(FileCells(d))
       IN  found.recs = DStates(d) /\ found.end = CellsIn(DGood(d))

(* The disk store (disk_kv_store.rs persist_batch: "a crash can never      *)
(* leave the index ahead of the log"), except for states written behind an *)
(* abandoned or overlong frame: what it answered Ok for is replayed from   *)
(* every image of its file, and what the index claims from the file as it  *)
(* is.                                                                     *)
SolidKept ==
  /\ \A d \in Images(dfile) : \A s \in solid : Replay(d)[s.id] >= s.ver
  /\ dopen => \A i \in Ids :
       \/ Replay(dfile.data)[i] >= index[i]
       \/ \E s \in hollow : s.id = i /\ s.ver >= index[i]

Available(recs, table, o) ==
  \/ \E r \in recs : r.id = o.id /\ r.ver >= o.ver
  \/ table[o.id] >= o.ver

(* End to end (wal.rs checkpoint: "No record is ever lost by a             *)
(* mid-checkpoint crash"): a version the log answered Ok for is, after any *)
(* kill, in the log to replay or in what the store rebuilds, and so after  *)
(* any power loss if the names of both files were on stable storage when   *)
(* it was answered.  Its two conditions are in owed: the segment it went   *)
(* to was sound, and no checkpoint was asked to pass it that the store's   *)
(* file does not outweigh (the contract of checkpoint in domain.rs).       *)
KeptUntilPassed ==
  /\ \A o \in owed : Available(OnDisk, Replay(dfile.data), o)
  /\ \A o \in owedFirm : \A d \in Leftovers, e \in Images(dfile) :
       Available(Recs(d), Replay(e), o)

(* wal.rs: "a record that has been append_batch'd and fsync'd is           *)
(* guaranteed to be replayed exactly by recover"; disk_kv_store.rs         *)
(* persist_batch: "a crash can never leave the index ahead of the log".    *)
(* Either would do for a version append_batch and persist_batch have both  *)
(* confirmed and no checkpoint has passed: a kill would leave it to replay *)
(* in the log or in the data file.                                         *)
TwiceConfirmedKept ==
  \A r \in answered :
    r.lsn > floor /\ index[r.id] >= r.ver => Available(OnDisk, Replay(dfile.data), r)
=============================================================================
