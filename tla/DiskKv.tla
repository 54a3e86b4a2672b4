------------------------------- MODULE DiskKv -------------------------------
(***************************************************************************)
(* The disk-backed store of src/examples/disk_kv_store.rs: an append-only  *)
(* data file behind a BufWriter and the in-memory index that answers load. *)
(* One action is one file operation; dpc names the next step of the call   *)
(* the mutex lets through, dans its answer.                                *)
(***************************************************************************)
EXTENDS Files, Codec

CONSTANT Ids

VARIABLES
  dfile,     \* the data file, [data, hard]
  dnamed,    \* its name is on stable storage
  dopen,     \* a DiskKvStore has it open
  dbuf,      \* the BufWriter's content
  index,     \* Ids -> version, 0 for none
  dpc, dans, \* next step; answer of the last call
  dtodo,     \* states not yet written to the BufWriter
  dgiven,    \* the whole batch
  \* History variables, not in the code:
  solid,     \* states persist_batch answered Ok for on a sound file
  hollow,    \* states it answered Ok for where a reopening will not see them
  dscarred   \* a failed write left the beginning of a frame that the writer
             \* will not complete

dHistory == <<solid, hollow, dscarred>>
diskVars == <<dfile, dnamed, dopen, dbuf, index, dpc, dans, dtodo, dgiven, dHistory>>

State(r)    == [id |-> r.id, ver |-> r.ver, blob |-> r.blob]
DFrame(s)   == WholePiece(s, RecordCells(s))
DReadable(p) == IsWhole(p) /\ p.len < U32
NoVersions  == [i \in Ids |-> 0]

(* rebuild_index in frames: those up to the first that does not decode.    *)
DGood(data) ==
  SubSeq(data, 1, Cardinality({k \in DOMAIN data : \A j \in 1..k : DReadable(data[j])}))
DStates(data) == [k \in DOMAIN DGood(data) |-> data[k].rec]

(* Last write wins by version; equal versions are idempotent.              *)
Absorbed(table, states) ==
  [i \in Ids |->
     Max({table[i]} \union {s.ver : s \in {t \in Range(states) : t.id = i}})]

Replay(data) == Absorbed(NoVersions, DStates(data))

(* What the writer appends will be replayed.                               *)
DSound == ~dscarred /\ \A k \in DOMAIN dfile.data : dfile.data[k].len < U32

DGoto(label) == dpc' = label /\ dans' = "none"
DAnswer(a)   == dpc' = "ready" /\ dans' = a /\ dtodo' = <<>> /\ dgiven' = <<>>
DWrite(data) == dfile' = [dfile EXCEPT !.data = data]
DSync        == dfile' = [dfile EXCEPT !.hard = dfile.data]

DInit ==
  /\ dfile = Empty /\ dnamed \in BOOLEAN /\ dopen = FALSE /\ dbuf = <<>>
  /\ index = NoVersions /\ dpc = "closed" /\ dans = "none"
  /\ dtodo = <<>> /\ dgiven = <<>>
  /\ solid = {} /\ hollow = {} /\ dscarred = FALSE

(* DiskKvStore::open: rebuild the index; cut a torn tail off; open for     *)
(* appending.  An error ends the start.                                    *)
DOpen ==
  /\ dpc = "closed"
  /\ index' = Replay(dfile.data)
  /\ dopen' = TRUE
  /\ IF DGood(dfile.data) = dfile.data
     THEN dpc' = "ready" /\ UNCHANGED dfile
     ELSE dpc' = "cut" /\ DWrite(DGood(dfile.data))
  /\ UNCHANGED <<dnamed, dbuf, dans, dtodo, dgiven, dHistory, left>>

DSyncCut ==
  /\ dpc = "cut"
  /\ DSync
  /\ DGoto("ready")
  /\ UNCHANGED <<dnamed, dopen, dbuf, index, dtodo, dgiven, dHistory, left>>

(* persist_batch                                                           *)
PersistBatch(states) ==
  /\ dpc = "ready"
  /\ IF states = <<>> THEN DAnswer("ok")
     ELSE DGoto("write") /\ dtodo' = states /\ dgiven' = states
  /\ UNCHANGED <<dfile, dnamed, dopen, dbuf, index, dHistory, left>>

DFails == DAnswer("err") /\ Spend("io")

DCopy ==
  /\ dpc = "write" /\ FitsIn(dbuf, RecordCells(Head(dtodo)))
  /\ dbuf' = Append(dbuf, DFrame(Head(dtodo)))
  /\ dtodo' = Tail(dtodo)
  /\ DGoto(IF dtodo' = <<>> THEN "flush" ELSE "write")
  /\ UNCHANGED <<dfile, dnamed, dopen, index, dgiven, dHistory, left>>

DSpill ==
  /\ dpc = "write" /\ Spills(dbuf, RecordCells(Head(dtodo)))
  /\ DWrite(Extended(dfile.data, dbuf))
  /\ dbuf' = <<>>
  /\ UNCHANGED <<dnamed, dopen, index, dpc, dans, dtodo, dgiven, dHistory, left>>

DBufferWriteFails ==
  /\ \/ dpc = "write" /\ Spills(dbuf, RecordCells(Head(dtodo)))
     \/ dpc = "flush"
  /\ \E s \in Stopped(dbuf) : DWrite(Extended(dfile.data, s.done)) /\ dbuf' = s.rest
  /\ DFails
  /\ UNCHANGED <<dnamed, dopen, index, dHistory>>

DWriteThrough ==
  /\ dpc = "write" /\ Bypasses(dbuf, RecordCells(Head(dtodo)))
  /\ DWrite(Append(dfile.data, DFrame(Head(dtodo))))
  /\ dtodo' = Tail(dtodo)
  /\ DGoto(IF dtodo' = <<>> THEN "flush" ELSE "write")
  /\ UNCHANGED <<dnamed, dopen, dbuf, index, dgiven, dHistory, left>>

DWriteThroughFails ==
  /\ dpc = "write" /\ Bypasses(dbuf, RecordCells(Head(dtodo)))
  /\ \E s \in Stopped(<<DFrame(Head(dtodo))>>) :
       /\ DWrite(dfile.data \o s.done)
       /\ dscarred' = (dscarred \/ s.done # <<>>)
  /\ DFails
  /\ UNCHANGED <<dnamed, dopen, dbuf, index, solid, hollow>>

DFlushBuffer ==
  /\ dpc = "flush"
  /\ DWrite(Extended(dfile.data, dbuf))
  /\ dbuf' = <<>>
  /\ DGoto("sync")
  /\ UNCHANGED <<dnamed, dopen, index, dtodo, dgiven, dHistory, left>>

(* Mutant: the index takes the batch before the bytes are synced.          *)
IndexFirst ==
  /\ dpc = "sync"
  /\ index' = Absorbed(index, dgiven)
  /\ DAnswer("ok")
  /\ solid' = IF DSound THEN solid \union Range(dgiven) ELSE solid
  /\ hollow' = IF DSound THEN hollow ELSE hollow \union Range(dgiven)
  /\ UNCHANGED <<dfile, dnamed, dopen, dbuf, dscarred, left>>

(* sync_data, and only then the index.                                     *)
Index ==
  /\ dpc = "sync"
  /\ DSync
  /\ index' = Absorbed(index, dgiven)
  /\ DAnswer("ok")
  /\ solid' = IF DSound THEN solid \union Range(dgiven) ELSE solid
  /\ hollow' = IF DSound THEN hollow ELSE hollow \union Range(dgiven)
  /\ UNCHANGED <<dnamed, dopen, dbuf, dscarred, left>>

DSyncFails ==
  /\ dpc = "sync"
  /\ DFails
  /\ UNCHANGED <<dfile, dnamed, dopen, dbuf, index, dHistory>>

DClosed ==
  /\ dopen' = FALSE /\ dbuf' = <<>> /\ index' = NoVersions
  /\ dpc' = "closed" /\ dans' = "none" /\ dtodo' = <<>> /\ dgiven' = <<>>
  /\ dscarred' = FALSE

DWriting ==
  CASE dpc = "flush" -> dbuf
    [] dpc = "write" /\ Spills(dbuf, RecordCells(Head(dtodo))) -> dbuf
    [] dpc = "write" /\ Bypasses(dbuf, RecordCells(Head(dtodo))) -> <<DFrame(Head(dtodo))>>
    [] OTHER -> <<>>

DKill ==
  /\ \E s \in Splits(DWriting) : DWrite(Extended(dfile.data, s.done))
  /\ UNCHANGED <<dnamed, solid, hollow>>
  /\ DClosed

(* The data file is one of its images, or, if its name was never synced,   *)
(* it may be gone, and with it what was persisted.                         *)
DPowerLoss ==
  /\ \/ /\ \E d \in Images(dfile) : dfile' = [data |-> d, hard |-> d]
        /\ dnamed' = TRUE
        /\ UNCHANGED <<solid, hollow>>
     \/ /\ ~dnamed
        /\ dfile' = Empty
        /\ dnamed' = FALSE
        /\ solid' = {} /\ hollow' = {}
  /\ DClosed

DStarting   == DOpen \/ DSyncCut
DPersisting ==
  \/ DCopy \/ DSpill \/ DWriteThrough \/ DFlushBuffer \/ Index
  \/ DBufferWriteFails \/ DWriteThroughFails \/ DSyncFails
=============================================================================
