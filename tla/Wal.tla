-------------------------------- MODULE Wal --------------------------------
(***************************************************************************)
(* The write-ahead log (src/src/wal.rs) on its files: the active segment,  *)
(* the temp segment of a checkpoint, the writer's BufWriter, and what a    *)
(* process kill or a power loss leaves of them.                            *)
(*                                                                         *)
(* One action is one file operation, so a kill may fall between any two    *)
(* and inside a write.  The mutex makes one call at a time run; wpc names  *)
(* its next step and wans its answer.  write_offset is never read, and is  *)
(* left out.  Inode 0 stands for a name that is not there.                 *)
(***************************************************************************)
EXTENDS Files, Codec

CONSTANTS
  Fsync,     \* config: sync every append
  Inodes     \* inode numbers the log can use: 1..n

VARIABLES
  file,      \* Inodes -> [data, hard]
  active,    \* the inode named wal-0.log
  stale,     \* inodes stable storage may still name wal-0.log
  temp,      \* the inode named wal-0.log.tmp
  handle,    \* the inode the writer has open
  wbuf,      \* the BufWriter's content
  lastLsn,   \* Inner.last_lsn
  wpc, wans, \* next step; answer of the last call
  todo,      \* records append_batch has not yet written to the BufWriter
  given,     \* the whole batch
  upTo,      \* argument of checkpoint
  live,      \* survivors
  recovered, \* what recover returned
  \* History variables, not in the code:
  acked,     \* records answered Ok while the writer was on a sound segment
  sure,      \* those whose bytes and name were on stable storage as well
  answered,  \* every record answered Ok
  scarred,   \* a failed write left the beginning of a frame the writer will
             \* not complete, or a checkpoint failed between the rename and
             \* the reopening
  floor,     \* the highest LSN a checkpoint was asked to drop
  trimmed    \* the highest LSN a checkpoint that returned Ok has dropped

names    == <<active, stale, temp>>
writer   == <<handle, wbuf>>
callVars == <<todo, given, upTo, live>>
acks     == <<acked, sure, answered>>
marks    == <<floor, trimmed>>
wHistory == <<acks, scarred, marks>>
walVars  == <<file, names, writer, lastLsn, wpc, wans, callVars, recovered, wHistory>>

-----------------------------------------------------------------------------
(* Segments                                                                *)

Header == WholePiece([lsn |-> 0, id |-> "FLUXWAL1", ver |-> 0, blob |-> 0], HEADER_LEN)
Frame(r)     == WholePiece(r, WalCells(r))
Frames(recs) == [k \in DOMAIN recs |-> Frame(recs[k])]

(* A frame decodes if it is whole and its u32 length says so.              *)
Readable(p) == IsWhole(p) /\ p.len < U32

(* decode_segment in frames: the pieces up to the first that does not      *)
(* decode.  A file that does not start with the header holds no records    *)
(* and is not cut.                                                         *)
Good(data) ==
  IF data = <<>> \/ data[1] # Header THEN data
  ELSE LET ok == {k \in DOMAIN data : \A j \in 1..k : Readable(data[j])}
       IN  SubSeq(data, 1, Cardinality(ok))
Log(data) ==
  IF data = <<>> \/ data[1] # Header THEN <<>>
  ELSE [k \in 1..(Len(Good(data)) - 1) |-> data[k + 1].rec]
Recs(data) == Range(Log(data))
LsnsOf(recs) == {r.lsn : r \in recs}
HigherOf(a, b) == IF a > b THEN a ELSE b

DataOf(i) == IF i = 0 THEN <<>> ELSE file[i].data
OnDisk    == Recs(DataOf(active))
(* Everything a power loss may leave under the name wal-0.log.             *)
Leftovers == UNION {IF i = 0 THEN {<<>>} ELSE Images(file[i]) :
                      i \in stale \union {active}}
(* What the writer appends can be replayed: neither of the two, and no     *)
(* frame too long for its length field.                                    *)
Sound == ~scarred /\ \A k \in DOMAIN DataOf(active) : DataOf(active)[k].len < U32

Write(i, data)  == file' = [file EXCEPT ![i] = [data |-> data, hard |-> @.hard]]
Sync(i)         == file' = [file EXCEPT ![i] = [data |-> @.data, hard |-> @.data]]
(* Inodes bounds how many files have a name or are open at a time.         *)
Unused          == Inodes \ (stale \union {active, temp, handle})
Fresh           == CHOOSE i \in Unused : TRUE
(* Inodes nothing refers to any more are given back.                       *)
Reclaimed(f, inUse) == [i \in Inodes |-> IF i \in inUse THEN f[i] ELSE Empty]

WGoto(label)  == wpc' = label /\ wans' = "none"
WAnswer(a)    == wpc' = "ready" /\ wans' = a
WCallEnds     == todo' = <<>> /\ given' = <<>> /\ live' = <<>> /\ upTo' = 0

(* No process; the directory is new, or one an earlier process left.       *)
WInit ==
  /\ \/ active = 0 /\ file = [i \in Inodes |-> Empty]
     \/ /\ active = 1
        /\ file = [i \in Inodes |->
                     IF i = 1 THEN [data |-> <<Header>>, hard |-> <<Header>>]
                     ELSE Empty]
  /\ stale = {} /\ temp = 0 /\ handle = 0 /\ wbuf = <<>>
  /\ lastLsn = 0 /\ wpc = "closed" /\ wans = "none"
  /\ todo = <<>> /\ given = <<>> /\ upTo = 0 /\ live = <<>> /\ recovered = <<>>
  /\ acked = {} /\ sure = {} /\ answered = {} /\ scarred = FALSE /\ floor = 0 /\ trimmed = 0

-----------------------------------------------------------------------------
(* Wal::open, then recover.  An error in either ends the start, and leaves *)
(* what a kill at that point leaves.                                       *)

(* create, or the existing segment.  The name of a created file is not     *)
(* synced here.  A file without a full header gets one.                    *)
Open ==
  /\ wpc = "closed"
  /\ IF active = 0
     THEN /\ Unused # {}
          /\ active' = Fresh /\ stale' = stale \union {0}
          /\ handle' = Fresh
          /\ WGoto("header")
     ELSE /\ handle' = active
          /\ WGoto(IF CellsIn(DataOf(active)) < HEADER_LEN THEN "header" ELSE "recover")
          /\ UNCHANGED <<active, stale>>
  /\ wbuf' = <<>> /\ lastLsn' = 0
  /\ UNCHANGED <<file, temp, callVars, recovered, wHistory, left>>

WriteHeader ==
  /\ wpc = "header"
  /\ Write(handle, <<Header>>)
  /\ WGoto("hsync")
  /\ UNCHANGED <<names, writer, lastLsn, callVars, recovered, wHistory, left>>

SyncHeader ==
  /\ wpc = "hsync"
  /\ Sync(handle)
  /\ WGoto("recover")
  /\ UNCHANGED <<names, writer, lastLsn, callVars, recovered, wHistory, left>>

(* recover: decode; the writer stands at the end already unless the tail   *)
(* is torn, then set_len cuts it off, ...                                  *)
Recover ==
  /\ wpc = "recover"
  /\ IF Good(DataOf(active)) = DataOf(active)
     THEN WAnswer("started") /\ UNCHANGED file
     ELSE Write(active, Good(DataOf(active))) /\ WGoto("rsync")
  /\ recovered' = Log(DataOf(active))
  /\ lastLsn' = Max({0} \union LsnsOf(OnDisk))
  /\ UNCHANGED <<names, writer, callVars, wHistory, left>>

SyncCut ==
  /\ wpc = "rsync"
  /\ Sync(active)
  /\ WGoto("rdir")
  /\ UNCHANGED <<names, writer, lastLsn, callVars, recovered, wHistory, left>>

(* ... and sync_dir and a writer at the new end finish it.                 *)
SyncCutName ==
  /\ wpc = "rdir"
  /\ stale' = {}
  /\ WAnswer("started")
  /\ UNCHANGED <<file, active, temp, writer, lastLsn, callVars, recovered,
                 wHistory, left>>

-----------------------------------------------------------------------------
(* append_batch                                                            *)

AppendBatch(recs) ==
  /\ wpc = "ready"
  /\ IF recs = <<>> THEN WAnswer("ok") ELSE WGoto("write")
  /\ todo' = recs /\ given' = recs
  /\ UNCHANGED <<file, names, writer, lastLsn, upTo, live, recovered, wHistory>>

WFails == WAnswer("err") /\ WCallEnds /\ Spend("io")

(* write_all(frame): into the buffer, ...                                  *)
Copy ==
  /\ wpc = "write" /\ todo # <<>>
  /\ FitsIn(wbuf, WalCells(Head(todo)))
  /\ wbuf' = Append(wbuf, Frame(Head(todo)))
  /\ todo' = Tail(todo)
  /\ WGoto(IF todo' = <<>> THEN "flush" ELSE "write")
  /\ UNCHANGED <<file, names, handle, lastLsn, given, upTo, live, recovered,
                 wHistory, left>>

(* ... after writing a buffer without room for it out, ...                 *)
Spill ==
  /\ wpc = "write" /\ todo # <<>>
  /\ Spills(wbuf, WalCells(Head(todo)))
  /\ Write(handle, Extended(DataOf(handle), wbuf))
  /\ wbuf' = <<>>
  /\ WGoto("write")
  /\ UNCHANGED <<names, handle, lastLsn, callVars, recovered, wHistory, left>>

(* (an error there keeps what was not written in the buffer, and flush     *)
(* fails in the same way)                                                  *)
BufferWriteFails ==
  /\ \/ wpc = "write" /\ todo # <<>> /\ Spills(wbuf, WalCells(Head(todo)))
     \/ wpc \in {"flush", "ckflush"}
  /\ \E s \in Stopped(wbuf) :
       Write(handle, Extended(DataOf(handle), s.done)) /\ wbuf' = s.rest
  /\ WFails
  /\ UNCHANGED <<names, handle, lastLsn, recovered, wHistory>>

(* ... or, if it is as large as the buffer, straight into the file.        *)
WriteThrough ==
  /\ wpc = "write" /\ todo # <<>>
  /\ Bypasses(wbuf, WalCells(Head(todo)))
  /\ Write(handle, Append(DataOf(handle), Frame(Head(todo))))
  /\ todo' = Tail(todo)
  /\ WGoto(IF todo' = <<>> THEN "flush" ELSE "write")
  /\ UNCHANGED <<names, writer, lastLsn, given, upTo, live, recovered, wHistory, left>>

(* An error there leaves the beginning of a frame no one will complete.    *)
WriteThroughFails ==
  /\ wpc = "write" /\ todo # <<>>
  /\ Bypasses(wbuf, WalCells(Head(todo)))
  /\ \E s \in Stopped(<<Frame(Head(todo))>>) :
       /\ Write(handle, DataOf(handle) \o s.done)
       /\ scarred' = (scarred \/ s.done # <<>>)
  /\ WFails
  /\ UNCHANGED <<names, writer, lastLsn, recovered, acks, marks>>

FlushBuffer ==
  /\ wpc = "flush"
  /\ Write(handle, Extended(DataOf(handle), wbuf))
  /\ wbuf' = <<>>
  /\ WGoto("sync")
  /\ UNCHANGED <<names, handle, lastLsn, callVars, recovered, wHistory, left>>

(* What the Ok of append_batch makes of the batch.                         *)
Acknowledged ==
  /\ answered' = answered \union Range(given)
  /\ acked' = IF Sound THEN acked \union Range(given) ELSE acked
  /\ sure' = IF Sound /\ Fsync /\ stale = {} THEN sure \union Range(given) ELSE sure

(* sync_data if configured (flush() always does), then the commit of       *)
(* last_lsn and the answer.                                                *)
Commit ==
  /\ wpc = "sync"
  /\ IF Fsync \/ given = <<>> THEN Sync(handle) ELSE UNCHANGED file
  /\ Acknowledged
  /\ lastLsn' = Max({lastLsn} \union LsnsOf(Range(given)))
  /\ WAnswer("ok") /\ WCallEnds
  /\ UNCHANGED <<names, writer, recovered, scarred, marks, left>>

(* sync_data, or a step of a checkpoint from the temp segment to the       *)
(* reopening, returns an error.                                            *)
StepFails ==
  /\ wpc \in {"sync", "ckwrite", "cksync", "ckrename", "ckdir", "ckreopen"}
  /\ scarred' = (scarred \/ wpc \in {"ckdir", "ckreopen"})
  /\ WFails
  /\ UNCHANGED <<file, names, writer, lastLsn, recovered, acks, marks>>

(* flush(): the two steps an append ends with.                             *)
FlushCall ==
  /\ wpc = "ready"
  /\ WGoto("flush")
  /\ UNCHANGED <<file, names, writer, lastLsn, callVars, recovered, wHistory, left>>

-----------------------------------------------------------------------------
(* checkpoint                                                              *)

CheckpointCall(n) ==
  /\ wpc = "ready"
  /\ upTo' = n
  /\ WGoto("ckflush")
  /\ UNCHANGED <<file, names, writer, lastLsn, todo, given, live, recovered,
                 wHistory, left>>

(* The records above n, in their order.                                    *)
Survivors(data, n) ==
  LET log == Log(data)
      kept[k \in 0..Len(log)] ==
        IF k = 0 THEN <<>>
        ELSE IF log[k].lsn > n THEN Append(kept[k - 1], log[k]) ELSE kept[k - 1]
  IN  kept[Len(log)]

(* flush, then read and decode the segment of that name (not the writer's).*)
Collect ==
  /\ wpc = "ckflush"
  /\ Write(handle, Extended(DataOf(handle), wbuf))
  /\ live' = Survivors(IF active = handle THEN Extended(DataOf(handle), wbuf)
                       ELSE DataOf(active), upTo)
  /\ wbuf' = <<>>
  /\ WGoto("ckwrite")
  /\ UNCHANGED <<names, handle, lastLsn, todo, given, upTo, recovered, wHistory, left>>

(* Mutant: a temp segment left by a crash is not truncated.                *)
WriteTempUntruncated ==
  /\ wpc = "ckwrite"
  /\ temp' = IF temp = 0 THEN Fresh ELSE temp
  /\ Write(temp', DataOf(temp) \o <<Header>> \o Frames(live))
  /\ WGoto("cksync")
  /\ UNCHANGED <<active, stale, writer, lastLsn, callVars, recovered, wHistory, left>>

(* The temp segment, created or truncated: header and survivors.           *)
WriteTemp ==
  /\ wpc = "ckwrite" /\ (temp # 0 \/ Unused # {})
  /\ temp' = IF temp = 0 THEN Fresh ELSE temp
  /\ file' = [file EXCEPT ![temp'] = [data |-> <<Header>> \o Frames(live), hard |-> <<>>]]
  /\ WGoto("cksync")
  /\ UNCHANGED <<active, stale, writer, lastLsn, callVars, recovered, wHistory, left>>

(* Mutant: no sync_data of the temp segment.                               *)
SyncTempSkipped ==
  /\ wpc = "cksync"
  /\ WGoto("ckrename")
  /\ UNCHANGED <<file, names, writer, lastLsn, callVars, recovered, wHistory, left>>

SyncTemp ==
  /\ wpc = "cksync"
  /\ Sync(temp)
  /\ WGoto("ckrename")
  /\ UNCHANGED <<names, writer, lastLsn, callVars, recovered, wHistory, left>>

(* Mutant: the old temp name is thought to be there still.                 *)
RenameKeepsTemp ==
  /\ wpc = "ckrename"
  /\ active' = temp /\ stale' = stale \union {active} /\ temp' = temp
  /\ floor' = HigherOf(floor, upTo)
  /\ WGoto("ckdir")
  /\ UNCHANGED <<file, writer, lastLsn, callVars, recovered, acks, scarred, trimmed, left>>

(* rename: at once for everyone who looks, on stable storage some time     *)
(* until the directory is synced.                                          *)
Rename ==
  /\ wpc = "ckrename"
  /\ active' = temp /\ stale' = stale \union {active} /\ temp' = 0
  /\ floor' = HigherOf(floor, upTo)
  /\ WGoto("ckdir")
  /\ UNCHANGED <<file, writer, lastLsn, callVars, recovered, acks, scarred, trimmed, left>>

(* Mutant: the directory is not synced.                                    *)
SyncDirSkipped ==
  /\ wpc = "ckdir"
  /\ WGoto("ckreopen")
  /\ UNCHANGED <<file, names, writer, lastLsn, callVars, recovered, wHistory, left>>

SyncDir ==
  /\ wpc = "ckdir"
  /\ stale' = {}
  /\ file' = Reclaimed(file, {active, handle})
  /\ WGoto("ckreopen")
  /\ UNCHANGED <<active, temp, writer, lastLsn, callVars, recovered, wHistory, left>>

(* Mutant: the writer goes on with the file it has open.                   *)
ReopenSkipped ==
  /\ wpc = "ckreopen"
  /\ lastLsn' = Max({upTo} \union LsnsOf(Range(live)))
  /\ trimmed' = HigherOf(trimmed, upTo)
  /\ scarred' = FALSE
  /\ WAnswer("ok") /\ WCallEnds
  /\ UNCHANGED <<file, names, writer, recovered, acks, floor, left>>

Reopen ==
  /\ wpc = "ckreopen"
  /\ handle' = active /\ wbuf' = <<>>
  /\ file' = Reclaimed(file, {active} \union stale)
  /\ lastLsn' = Max({upTo} \union LsnsOf(Range(live)))
  /\ trimmed' = HigherOf(trimmed, upTo)
  /\ scarred' = FALSE
  /\ WAnswer("ok") /\ WCallEnds
  /\ UNCHANGED <<names, recovered, acks, floor, left>>

-----------------------------------------------------------------------------
(* Crashes                                                                 *)

(* What the file operation under way is writing to the writer's inode.     *)
Writing ==
  CASE wpc = "header" -> <<Header>>
    [] wpc \in {"flush", "ckflush"} -> wbuf
    [] wpc = "write" /\ Spills(wbuf, WalCells(Head(todo))) -> wbuf
    [] wpc = "write" /\ Bypasses(wbuf, WalCells(Head(todo))) -> <<Frame(Head(todo))>>
    [] OTHER -> <<>>

WriterGone ==
  /\ handle' = 0 /\ wbuf' = <<>> /\ lastLsn' = 0
  /\ wpc' = "closed" /\ wans' = "none" /\ WCallEnds
  /\ recovered' = <<>> /\ scarred' = FALSE

(* SIGKILL: the page cache stays, with any part of the write under way;    *)
(* the buffer is gone.                                                     *)
WKill ==
  /\ \E s \in Splits(Writing) :
       LET base == IF wpc = "header" THEN <<>> ELSE DataOf(handle)
           f    == IF handle = 0 \/ s.done = <<>> THEN file
                   ELSE [file EXCEPT ![handle] = [data |-> Extended(base, s.done),
                                                  hard |-> @.hard]]
       IN  file' = Reclaimed(f, {active, temp} \union stale)
  /\ UNCHANGED <<names, acks, marks>>
  /\ WriterGone

(* Power loss: one of the names, one of the images.  A temp segment, if    *)
(* any, will be truncated before it is used.                               *)
WPowerLoss ==
  /\ \E i \in stale \union {active} :
       \E d \in (IF i = 0 THEN {<<>>} ELSE Images(file[i])) :
         /\ active' = i
         /\ file' = [j \in Inodes |-> IF j = i THEN [data |-> d, hard |-> d] ELSE Empty]
  /\ stale' = {} /\ temp' = 0
  /\ acked' = sure
  /\ UNCHANGED <<sure, answered, floor, trimmed>>
  /\ WriterGone

(* After a restart LSNs start again above those recovered: the LSNs of     *)
(* records dropped by earlier checkpoints may be used again.               *)
LsnsRestart ==
  /\ acked' = {r \in acked : r.lsn > floor}
  /\ sure' = {r \in sure : r.lsn > floor}
  /\ answered' = {r \in answered : r.lsn > floor}
  /\ floor' = 0 /\ trimmed' = 0

-----------------------------------------------------------------------------
(* Each file operation, or the way it fails, of a call in progress.        *)
WStarting == Open \/ WriteHeader \/ SyncHeader \/ Recover \/ SyncCut \/ SyncCutName
WAppending ==
  \/ Copy \/ Spill \/ WriteThrough \/ FlushBuffer \/ Commit
  \/ BufferWriteFails \/ WriteThroughFails \/ StepFails
WCheckpointing ==
  Collect \/ WriteTemp \/ SyncTemp \/ Rename \/ SyncDir \/ Reopen
=============================================================================
