--------------------------- MODULE PipelineClaims ---------------------------
(***************************************************************************)
(* Statements the repository's comments make about the running engine and  *)
(* that the code does not keep; each is checked by a run that expects TLC  *)
(* to refute it.  The findings in PROJECT.json and README.md say why.      *)
(***************************************************************************)
EXTENDS Pipeline

(* api.rs submit_durable: note_pending "pins the worker's checkpoint floor *)
(* strictly below it, so no concurrent worker flush can checkpoint this    *)
(* acknowledged record out of the WAL before its content is guaranteed to  *)
(* reach the store".                                                       *)
PendingKept ==
  \A a \in acked : a.lsn \in pending => Kept(a.id, a.ver)

(* lsn.rs: "a checkpoint can only ever discard records whose content the   *)
(* store has (or is guaranteed to have) absorbed"; here for a durable      *)
(* write that was registered in time and has been drained into the cache.  *)
DrainedKept ==
  \A a \in acked : a.lsn > 0 /\ a.lsn \notin pending \union exposed =>
    Kept(a.id, a.ver)

(* api.rs submit_durable: "once this call returns Ok, the write survives a *)
(* hard kill and will be replayed by recover()"; here for writes an        *)
(* earlier process acknowledged and this one has recovered.                *)
RecoveredKept ==
  \A a \in acked : a.lsn = 0 /\ Plainly(a) \in promised => Kept(a.id, a.ver)

(* api.rs submit_durable: "once this call returns Ok, the write survives a *)
(* hard kill": none of the three ways above, nor any other, may leave an   *)
(* acknowledged write neither in the store nor in the log.                 *)
AckedKept == \A a \in acked : Kept(a.id, a.ver)

(* worker.rs final_drain, giving up: "The undrained dirty entries are      *)
(* already safe in the WAL (logged + fsync'd before the store call)".      *)
ShutdownKeeps ==
  phase = "down" => \A r \in promised : Kept(r.id, r.ver)

(* persist_batch of examples/redis_store.rs: one SET per state, whatever   *)
(* version the key holds.                                                  *)
PipelineSet(keys, states) ==
  [i \in Ids |-> IF {s \in states : s.id = i} = {} THEN keys[i]
                 ELSE StateOf(CHOOSE s \in states : s.id = i)]

(* redis_store.rs persist_batch: "Across batches, the worker only ever     *)
(* flushes monotonically-newer versions for a given id, so an              *)
(* unconditional SET preserves LWW too".                                   *)
SetKeepsLww ==
  pc[Worker] = "persist" =>
    \A i \in Ids :
      VersionOf(PipelineSet(store, batch[Worker])[i]) >= VersionOf(store[i])
=============================================================================
