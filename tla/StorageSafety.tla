--------------------------- MODULE StorageSafety ----------------------------
(***************************************************************************)
(* Proofs of the safety properties of the log on disk, and of the store:   *)
(*                                                                         *)
(*   CheckpointedGone  what a checkpoint dropped stays dropped             *)
(*   FrameOnce         no record is in the log twice                       *)
(*   SolidKept         the store keeps what it answered Ok for             *)
(*                                                                         *)
(* Neither is inductive. A record reaches the file long after the call     *)
(* that brought it: through the call's own list, the BufWriter, a          *)
(* temporary file and a rename, and a power loss chooses between several   *)
(* pasts of each file. Covered(Q) says that every place a future log can   *)
(* come from holds records of Q only. CheckpointInv says that the log is   *)
(* covered by the records above the last watermark, and, step by step,     *)
(* what a checkpoint under way has done to make that true for its own.     *)
(*                                                                         *)
(* FrameOnce follows from LSNs that rise along every file (Ordered). A     *)
(* frame written by append_batch is above the log only if the engine's     *)
(* counter is (Numbered), which holds after a restart because recover      *)
(* returns the highest LSN it found. After a failed write the rest of the  *)
(* buffer is still to be written: Ordered speaks of the stream, the file   *)
(* as it will be when the buffer has been written.                         *)
(*                                                                         *)
(* SolidKept compares files by what a reopening reads of them. Leads(a, b) *)
(* says that b shows all that a shows: no write, torn or whole, no cut of  *)
(* a torn tail and no power loss takes a readable frame back. An Ok comes  *)
(* with a sync, so what was answered is shown by what is stable            *)
(* (Answered), if the frames of the batch are in the file, one after the   *)
(* other, whole (Completed, Underway).                                     *)
(***************************************************************************)
EXTENDS StorageTyping

-----------------------------------------------------------------------------
(* Which records a future log can hold                                     *)

(* Everything the next call, or the next start, will find in the log is a  *)
(* record of Q: what is in the segments by name and in the writer's hands, *)
(* and what will be.                                                       *)
Cover(Q) ==
  /\ \A i \in {active, handle} \ {0} : file[i].data \in SegmentsOf(Q)
  /\ wbuf \in Seq(Pieces(Q)) /\ todo \in Seq(Q)
  /\ wpc = "ckwrite" => live \in Seq(Q)
  /\ wpc \in {"cksync", "ckrename"} => file[temp].data \in SegmentsOf(Q)

(* And so is what a power loss may bring back.                             *)
Solid(Q) ==
  /\ \A i \in (stale \union {active}) \ {0} :
       file[i].data \in SegmentsOf(Q) /\ file[i].hard \in SegmentsOf(Q)
  /\ wpc \in {"cksync", "ckrename"} => file[temp].hard \in SegmentsOf(Q)

(* Both.                                                                   *)
Covered(Q) == Cover(Q) /\ Solid(Q)

(* Nothing at all is made of any records.                                  *)
LEMMA NothingOf ==
  \A Q : <<>> \in SegmentsOf(Q) /\ <<>> \in Seq(Q) /\ <<>> \in Seq(Pieces(Q))
  BY EmptyOf, EmptySeq

(* Steps that write no file: the flags say what they leave alone.          *)
LEMMA CoverQuiet ==
  ASSUME NEW Q, Cover(Q), file' = file, active' = active, handle' = handle,
         wbuf' = wbuf, todo' \in Seq(Q), wpc' \notin {"ckwrite", "cksync", "ckrename"}
  PROVE  Cover(Q)'
  BY DEF Cover

(* Nor does such a step change what a power loss may bring back.           *)
LEMMA SolidQuiet ==
  ASSUME NEW Q, Solid(Q), file' = file, active' = active, stale' \subseteq stale,
         wpc' \notin {"cksync", "ckrename"}
  PROVE  Solid(Q)'
  BY DEF Solid

(* Steps that write the writer's file.                                     *)
LEMMA CoverWrites ==
  ASSUME NEW Q, WalInv, Cover(Q), wpc # "closed", NEW d \in Segments, Write(handle, d),
         d \in SegmentsOf(Q), UNCHANGED <<active, handle>>,
         wbuf' \in Seq(Pieces(Q)), todo' \in Seq(Q), wpc' \notin {"cksync", "ckrename"},
         wpc' = "ckwrite" => live' \in Seq(Q)
  PROVE  Cover(Q)'
<1>1. handle \in Inodes /\ active \in Inodes
  BY HandleIs
<1>2. /\ file'[handle].data = d
      /\ \A j \in Inodes : j # handle => file'[j] = file[j]
  BY <1>1, WriteIs DEF WalInv
<1>3. \A i \in {active, handle} \ {0} : file'[i].data \in SegmentsOf(Q)
  BY <1>1, <1>2 DEF Cover
<1>4. QED
  BY <1>3 DEF Cover

(* A write changes only what the operating system has.                     *)
LEMMA SolidWrites ==
  ASSUME NEW Q, WalInv, Solid(Q), wpc # "closed", NEW d \in Segments, Write(handle, d),
         d \in SegmentsOf(Q), UNCHANGED <<active, stale>>,
         wpc' \notin {"cksync", "ckrename"}
  PROVE  Solid(Q)'
<1>1. handle \in Inodes /\ stale \union {active} \subseteq Inodes \union {0}
  BY HandleIs DEF WalInv, WalTypes
<1>2. /\ file'[handle].data = d /\ file'[handle].hard = file[handle].hard
      /\ \A j \in Inodes : j # handle => file'[j] = file[j]
  BY <1>1, WriteIs DEF WalInv
<1>3. \A i \in (stale \union {active}) \ {0} :
         file'[i].data \in SegmentsOf(Q) /\ file'[i].hard \in SegmentsOf(Q)
  BY <1>1, <1>2 DEF Solid
<1>4. QED
  BY <1>3 DEF Solid

(* Steps that sync a file.                                                 *)
LEMMA CoverSyncs ==
  ASSUME NEW Q, WalInv, Cover(Q), NEW i \in Inodes, Sync(i), UNCHANGED <<active, handle, temp>>,
         wbuf' = wbuf, todo' \in Seq(Q), wpc' # "ckwrite",
         wpc' \in {"cksync", "ckrename"} => wpc \in {"cksync", "ckrename"}
  PROVE  Cover(Q)'
<1>1. {active, handle, temp} \subseteq Inodes \union {0}
  BY DEF WalInv, WalTypes
<1>2. \A j \in Inodes : file'[j].data = file[j].data
  BY SyncIs DEF WalInv
<1>3. wpc' \in {"cksync", "ckrename"} => temp \in Inodes
  BY <1>1 DEF WalInv, Names
<1>4. \A j \in {active, handle} \ {0} : file'[j].data \in SegmentsOf(Q)
  BY <1>1, <1>2 DEF Cover
<1>5. QED
  BY <1>2, <1>3, <1>4 DEF Cover

(* A sync makes stable what the operating system has of the file.          *)
LEMMA SolidSyncs ==
  ASSUME NEW Q, WalInv, Covered(Q), NEW i \in Inodes, Sync(i), UNCHANGED <<active, stale, temp>>,
         wpc' \in {"cksync", "ckrename"} => wpc \in {"cksync", "ckrename"}
  PROVE  Solid(Q)'
<1>1. {active, temp} \union stale \subseteq Inodes \union {0}
  BY DEF WalInv, WalTypes
<1>2. /\ file'[i].data = file[i].data /\ file'[i].hard = file[i].data
      /\ \A j \in Inodes : j # i => file'[j] = file[j]
  BY SyncIs DEF WalInv
<1>3. wpc' \in {"cksync", "ckrename"} => temp \in Inodes
  BY <1>1 DEF WalInv, Names
<1>4. \A j \in (stale \union {active}) \ {0} :
         file'[j].data \in SegmentsOf(Q) /\ file'[j].hard \in SegmentsOf(Q)
  BY <1>1, <1>2 DEF Solid, Covered
<1>5. wpc' \in {"cksync", "ckrename"} => file'[temp].hard \in SegmentsOf(Q)
  BY <1>2, <1>3 DEF Solid, Cover, Covered
<1>6. QED
  BY <1>4, <1>5 DEF Solid

(* The steps of Wal::open and of recover write no new record.              *)
LEMMA StartingCovered ==
  ASSUME NEW Q, WalInv, Covered(Q), WStarting PROVE Covered(Q)'
<1>1. todo = <<>> /\ wbuf = <<>> /\ todo' = todo /\ wbuf' = <<>> /\ todo' \in Seq(Q)
      /\ wpc \notin {"ckwrite", "cksync", "ckrename"}
      /\ wpc' \notin {"ckwrite", "cksync", "ckrename"}
  BY NothingOf DEF WStarting, Open, WriteHeader, SyncHeader, Recover, SyncCut, SyncCutName,
     WalInv, Names, AtStart, callVars, writer, WGoto, WAnswer
<1>2. CASE Open
  <2>1. CASE active = 0
    <3>1. active' = Fresh /\ handle' = Fresh /\ stale' = stale \union {0} /\ file' = file
          /\ Fresh \in Inodes
      BY <1>2, <2>1, FreshIs DEF Open
    <3>2. file[Fresh] = Empty
      BY <2>1, <3>1 DEF WalInv, Names
    <3>3. file[Fresh].data \in SegmentsOf(Q) /\ file[Fresh].hard \in SegmentsOf(Q)
      BY <3>2, NothingOf DEF Empty
    <3>4. Cover(Q)'
      BY <1>1, <3>1, <3>3, NothingOf DEF Cover
    <3>5. Solid(Q)'
      BY <1>1, <3>1, <3>3 DEF Solid, Covered
    <3>6. QED
      BY <3>4, <3>5 DEF Covered
  <2>2. CASE active # 0
    <3>1. active' = active /\ handle' = active /\ stale' = stale /\ file' = file
      BY <1>2, <2>2 DEF Open
    <3>2. Cover(Q)'
      BY <1>1, <3>1, NothingOf DEF Cover, Covered
    <3>3. QED
      BY <1>1, <3>1, <3>2, SolidQuiet DEF Covered
  <2>3. QED
    BY <2>1, <2>2
<1>3. CASE WriteHeader
  <2>1. wpc # "closed" /\ Write(handle, <<Header>>) /\ UNCHANGED <<active, stale, handle>>
    BY <1>3 DEF WriteHeader, names, writer
  <2>2. <<Header>> \in Segments /\ <<Header>> \in SegmentsOf(Q)
    BY OneOf DEF Segments
  <2>3. Cover(Q)'
    BY <1>1, <2>1, <2>2, NothingOf, CoverWrites DEF Covered
  <2>4. Solid(Q)'
    BY <1>1, <2>1, <2>2, SolidWrites DEF Covered
  <2>5. QED
    BY <2>3, <2>4 DEF Covered
<1>4. CASE SyncHeader \/ SyncCut
  <2>1. wpc # "closed" /\ (Sync(handle) \/ Sync(active))
        /\ UNCHANGED <<active, stale, handle, temp, wbuf>>
    BY <1>4 DEF SyncHeader, SyncCut, names, writer
  <2>2. handle \in Inodes /\ active \in Inodes
    BY <2>1, HandleIs
  <2>3. QED
    BY <1>1, <2>1, <2>2, CoverSyncs, SolidSyncs DEF Covered
<1>5. CASE Recover
  <2>1. wpc # "closed" /\ wpc = "recover" /\ UNCHANGED <<active, stale, handle>> /\ handle = active
    BY <1>5 DEF Recover, names, writer, WalInv, Names, AtStart
  <2>2. CASE file' = file
    BY <1>1, <2>1, <2>2, CoverQuiet, SolidQuiet DEF Covered
  <2>3. CASE Write(active, Good(DataOf(active)))
    <3>1. /\ DataOf(active) \in Segments /\ DataOf(active) = file[active].data
          /\ active \in Inodes /\ HEADER_LEN < U32 /\ active # 0
      BY <2>1, HandleIs, FilesAssumption, NoCall
    <3>2. DataOf(active) \in SegmentsOf(Q)
      BY <3>1 DEF Covered, Cover
    <3>3. Good(DataOf(active)) \in Segments /\ Good(DataOf(active)) \in SegmentsOf(Q)
      BY <3>1, <3>2, SegmentGood, GoodOf
    <3>4. Cover(Q)'
      BY <1>1, <2>1, <2>3, <3>3, NothingOf, CoverWrites DEF Covered
    <3>5. Solid(Q)'
      BY <1>1, <2>1, <2>3, <3>3, SolidWrites DEF Covered
    <3>6. QED
      BY <3>4, <3>5 DEF Covered
  <2>4. QED
    BY <1>5, <2>2, <2>3 DEF Recover
<1>6. CASE SyncCutName
  <2>1. UNCHANGED <<file, active, handle>> /\ stale' \subseteq stale
    BY <1>6 DEF SyncCutName, writer
  <2>2. QED
    BY <1>1, <2>1, CoverQuiet, SolidQuiet DEF Covered, WalInv, Names
<1>7. QED
  BY <1>2, <1>3, <1>4, <1>5, <1>6 DEF WStarting

(* The frame of a record of Q is a piece of Q.                             *)
LEMMA FrameOf ==
  ASSUME NEW Q, Q \subseteq LogRecords, NEW r \in Q
  PROVE  Frame(r) \in Pieces(Q) /\ Frame(r).from = 0 /\ <<Frame(r)>> \in Seq(Pieces(Q))
<1>1. PICK p : p = Frame(r)
  OBVIOUS
<1>2. p \in Pieces(LogRecords) /\ p.rec = r /\ p.from = 0
  BY <1>1, FrameIs DEF LogPiece
<1>3. p \in [rec : LogRecords, len : Nat, from : Nat, to : Nat] /\ p.from < p.to /\ p.to <= p.len
  BY <1>2 DEF Pieces
<1>4. p \in [rec : Q, len : Nat, from : Nat, to : Nat]
  BY <1>2, <1>3
<1>5. p \in Pieces(Q)
  BY <1>3, <1>4 DEF Pieces
<1>6. QED
  BY <1>1, <1>2, <1>5, One

(* The next record to write, and the others, are of Q.                     *)
LEMMA TodoOf ==
  ASSUME NEW Q, todo \in Seq(Q), todo # <<>>
  PROVE  Head(todo) \in Q /\ Tail(todo) \in Seq(Q)
  BY HeadTailProperties

(* What the writer's file is extended with.                                *)
LEMMA HandleOf ==
  ASSUME NEW Q, WalInv, Cover(Q), wpc # "closed"
  PROVE  /\ DataOf(handle) \in SegmentsOf(Q) /\ DataOf(active) \in SegmentsOf(Q)
         /\ DataOf(handle) \in Segments /\ Joins(DataOf(handle), wbuf)
         /\ Extended(DataOf(handle), wbuf) \in SegmentsOf(Q)
         /\ Extended(DataOf(handle), wbuf) \in Segments
         /\ \A s \in Splits(wbuf) :
              /\ Extended(DataOf(handle), s.done) \in SegmentsOf(Q)
              /\ Extended(DataOf(handle), s.done) \in Segments
              /\ s.rest \in Seq(Pieces(Q))
<1>1. /\ handle \in Inodes /\ DataOf(handle) = file[handle].data /\ handle # 0
      /\ active \in Inodes /\ DataOf(active) = file[active].data /\ active # 0
      /\ DataOf(handle) \in Segments
  BY HandleIs, NoCall
<1>2. /\ DataOf(handle) \in SegmentsOf(Q) /\ DataOf(active) \in SegmentsOf(Q)
      /\ wbuf \in Seq(Pieces(Q))
  BY <1>1 DEF Cover
<1>3. Joins(DataOf(handle), wbuf) /\ Cuts \subseteq Nat
  BY FilesAssumption DEF WalInv, WBuffered
<1>4. ASSUME NEW s \in Splits(wbuf)
      PROVE  /\ Extended(DataOf(handle), s.done) \in SegmentsOf(Q)
             /\ Extended(DataOf(handle), s.done) \in Segments
             /\ s.rest \in Seq(Pieces(Q))
  <2>1. s.done \in Seq(Pieces(Q)) /\ s.rest \in Seq(Pieces(Q))
    BY <1>2, <1>3, SplitIs
  <2>2. Joins(DataOf(handle), s.done)
    <3>1. /\ DataOf(handle) \in Seq(Whole(Q \union {Header.rec}))
          /\ wbuf \in Seq(Pieces(Q \union {Header.rec}))
      BY <1>2, PiecesOf
    <3>2. QED
      BY <1>3, <3>1, SplitJoins
  <2>3. QED
    BY <1>2, <2>1, <2>2, ExtendedOf, BufferWritten
<1>5. QED
  BY <1>1, <1>2, <1>3, <1>4, ExtendedOf, BufferWritten

(* A frame of Q, or a part of one, appended to a segment of Q.             *)
LEMMA AppendOf ==
  ASSUME NEW Q, NEW data \in Segments, data \in SegmentsOf(Q), NEW r \in Q,
         Q \subseteq LogRecords
  PROVE  /\ Append(data, Frame(r)) \in Segments /\ Append(data, Frame(r)) \in SegmentsOf(Q)
         /\ \A s \in Splits(<<Frame(r)>>) :
              data \o s.done \in Segments /\ data \o s.done \in SegmentsOf(Q)
<1>1. r \in LogRecords
  OBVIOUS
<1>2. PICK ps : ps = <<Frame(r)>>
  OBVIOUS
<1>3. ps \in Seq(Pieces(Q)) /\ Joins(data, ps) /\ Append(data, Frame(r)) = Extended(data, ps)
      /\ Extended(data, ps) \in Segments
  BY <1>1, <1>2, FrameOf, FrameWritten
<1>4. ASSUME NEW s \in Splits(ps)
      PROVE  data \o s.done \in Segments /\ data \o s.done \in SegmentsOf(Q)
  <2>1. /\ data \o s.done = Extended(data, s.done) /\ Joins(data, s.done)
        /\ Extended(data, s.done) \in Segments
    BY <1>1, <1>2, FrameWritten
  <2>2. s.done \in Seq(Pieces(Q))
    BY <1>3, SplitIs, FilesAssumption
  <2>3. QED
    BY <2>1, <2>2, ExtendedOf
<1>5. QED
  BY <1>2, <1>3, <1>4, ExtendedOf

(* append_batch and flush write only the records they were called with.    *)
LEMMA AppendingCovered ==
  ASSUME NEW Q, Q \subseteq LogRecords, WalInv, Cover(Q), WAppending
  PROVE  Cover(Q)' /\ (Solid(Q) => Solid(Q)')
<1>1. wpc # "closed" /\ UNCHANGED <<names, handle>> /\ todo \in Seq(Q) /\ wbuf \in Seq(Pieces(Q))
  BY DEF WAppending, Copy, Spill, WriteThrough, FlushBuffer, Commit, BufferWriteFails,
     WriteThroughFails, StepFails, writer, Covered, Cover
<1>2. UNCHANGED <<active, stale, temp>>
  BY <1>1 DEF names
<1>3. CASE Copy
  <2>1. wpc = "write" /\ todo # <<>> /\ wbuf' = Append(wbuf, Frame(Head(todo))) /\ todo' = Tail(todo)
        /\ file' = file /\ wpc' \in {"flush", "write"}
    BY <1>3 DEF Copy, WGoto
  <2>2. wbuf' \in Seq(Pieces(Q)) /\ todo' \in Seq(Q)
    BY <1>1, <2>1, TodoOf, FrameOf, AppendProperties
  <2>3. Cover(Q)'
    BY <1>1, <1>2, <2>1, <2>2 DEF Covered, Cover
  <2>4. QED
    BY <1>2, <2>1, <2>3, SolidQuiet DEF Covered
<1>4. CASE Spill
  <2>1. Write(handle, Extended(DataOf(handle), wbuf)) /\ wbuf' = <<>> /\ todo' = todo /\ wpc' = "write"
    BY <1>4 DEF Spill, WGoto, callVars
  <2>2. Cover(Q)'
    BY <1>1, <1>2, <2>1, HandleOf, NothingOf, CoverWrites DEF Covered
  <2>3. Solid(Q) => Solid(Q)'
    BY <1>1, <1>2, <2>1, HandleOf, SolidWrites DEF Covered
  <2>4. QED
    BY <2>2, <2>3 DEF Covered
<1>5. CASE FlushBuffer
  <2>1. Write(handle, Extended(DataOf(handle), wbuf)) /\ wbuf' = <<>> /\ todo' = todo /\ wpc' = "sync"
    BY <1>5 DEF FlushBuffer, WGoto, callVars
  <2>2. Cover(Q)'
    BY <1>1, <1>2, <2>1, HandleOf, NothingOf, CoverWrites DEF Covered
  <2>3. Solid(Q) => Solid(Q)'
    BY <1>1, <1>2, <2>1, HandleOf, SolidWrites DEF Covered
  <2>4. QED
    BY <2>2, <2>3 DEF Covered
<1>6. CASE WriteThrough
  <2>1. /\ todo # <<>> /\ Write(handle, Append(DataOf(handle), Frame(Head(todo))))
        /\ wbuf' = wbuf /\ todo' = Tail(todo) /\ wpc' \in {"flush", "write"}
    BY <1>6 DEF WriteThrough, WGoto, writer
  <2>2. Head(todo) \in Q /\ todo' \in Seq(Q)
    BY <1>1, <2>1, TodoOf
  <2>3. /\ Append(DataOf(handle), Frame(Head(todo))) \in Segments
        /\ Append(DataOf(handle), Frame(Head(todo))) \in SegmentsOf(Q)
    BY <1>1, <2>2, HandleOf, AppendOf DEF Covered
  <2>4. Cover(Q)'
    BY <1>1, <1>2, <2>1, <2>2, <2>3, CoverWrites DEF Covered
  <2>5. Solid(Q) => Solid(Q)'
    BY <1>1, <1>2, <2>1, <2>3, SolidWrites DEF Covered
  <2>6. QED
    BY <2>4, <2>5 DEF Covered
<1>7. CASE WriteThroughFails
  <2>1. todo # <<>> /\ wbuf' = wbuf /\ todo' = <<>> /\ wpc' = "ready"
    BY <1>7 DEF WriteThroughFails, WFails, WAnswer, WCallEnds, writer
  <2>2. PICK s \in Splits(<<Frame(Head(todo))>>) : Write(handle, DataOf(handle) \o s.done)
    BY <1>7 DEF WriteThroughFails, Stopped
  <2>3. Head(todo) \in Q
    BY <1>1, <2>1, TodoOf
  <2>4. DataOf(handle) \o s.done \in Segments /\ DataOf(handle) \o s.done \in SegmentsOf(Q)
    BY <1>1, <2>2, <2>3, HandleOf, AppendOf DEF Covered
  <2>5. Cover(Q)'
    BY <1>1, <1>2, <2>1, <2>2, <2>4, NothingOf, CoverWrites DEF Covered
  <2>6. Solid(Q) => Solid(Q)'
    BY <1>1, <1>2, <2>1, <2>2, <2>4, SolidWrites DEF Covered
  <2>7. QED
    BY <2>5, <2>6 DEF Covered
<1>8. CASE BufferWriteFails
  <2>1. PICK s \in Splits(wbuf) :
          Write(handle, Extended(DataOf(handle), s.done)) /\ wbuf' = s.rest
    BY <1>8 DEF BufferWriteFails, Stopped
  <2>2. todo' = <<>> /\ wpc' = "ready"
    BY <1>8 DEF BufferWriteFails, WFails, WAnswer, WCallEnds
  <2>3. /\ Extended(DataOf(handle), s.done) \in Segments /\ s.rest \in Seq(Pieces(Q))
        /\ Extended(DataOf(handle), s.done) \in SegmentsOf(Q)
    BY <1>1, HandleOf DEF Covered
  <2>4. Cover(Q)'
    BY <1>1, <1>2, <2>1, <2>2, <2>3, NothingOf, CoverWrites DEF Covered
  <2>5. Solid(Q) => Solid(Q)'
    BY <1>1, <1>2, <2>1, <2>2, <2>3, SolidWrites DEF Covered
  <2>6. QED
    BY <2>4, <2>5 DEF Covered
<1>9. CASE Commit
  <2>1. todo' = <<>> /\ wpc' = "ready" /\ wbuf' = wbuf /\ todo' \in Seq(Q)
    BY <1>9, NothingOf DEF Commit, WAnswer, WCallEnds, writer
  <2>2. CASE Sync(handle)
    BY <1>1, <1>2, <2>1, <2>2, HandleIs, CoverSyncs, SolidSyncs DEF Covered
  <2>3. CASE file' = file
    BY <1>1, <1>2, <2>1, <2>3, CoverQuiet, SolidQuiet DEF Covered
  <2>4. QED
    BY <1>9, <2>2, <2>3 DEF Commit
<1>10. CASE StepFails
  <2>1. todo' = <<>> /\ wpc' = "ready" /\ wbuf' = wbuf /\ todo' \in Seq(Q) /\ file' = file
    BY <1>10, NothingOf DEF StepFails, WFails, WAnswer, WCallEnds, writer
  <2>2. QED
    BY <1>1, <1>2, <2>1, CoverQuiet, SolidQuiet DEF Covered
<1>11. QED
  BY <1>3, <1>4, <1>5, <1>6, <1>7, <1>8, <1>9, <1>10 DEF WAppending

(* What Collect keeps: records of the segment with that name, above upTo.  *)
LEMMA SurvivorsOf ==
  ASSUME NEW Q, Q \subseteq LogRecords, NEW data \in SegmentsOf(Q), NEW n
  PROVE  /\ Survivors(data, n) \in Seq(Q)
         /\ \A k \in 1..Len(Survivors(data, n)) : Survivors(data, n)[k].lsn > n
         /\ RisingRecs(Log(data)) => RisingRecs(Survivors(data, n))
<1> DEFINE R == Q \union {Header.rec}
           s == Survivors(data, n)
<1>1. data \in Seq(Whole(R)) /\ HEADER_LEN < U32
  BY PiecesOf, FilesAssumption
<1>2. \A r \in R : r.lsn \in Nat
  BY RecordIs
<1> HIDE DEF R
<1>3. /\ s \in Seq(R)
      /\ \A k \in 1..Len(s) : \E j \in 1..Len(Log(data)) : /\ s[k] = Log(data)[j]
                                                           /\ Log(data)[j].lsn > n
      /\ RisingRecs(Log(data)) => RisingRecs(s)
  BY <1>1, <1>2, SurvivorsAre
<1>4. Log(data) \in Seq(Q)
  BY <1>1, LogOf
<1>5. \A j \in 1..Len(Log(data)) : Log(data)[j] \in Q
  BY <1>4
<1> HIDE DEF s
<1>6. \A k \in 1..Len(s) : s[k] \in Q /\ s[k].lsn > n
  BY <1>3, <1>5
<1>7. s \in Seq(Q)
  BY <1>3, <1>6, SeqIntro
<1>8. QED
  BY <1>3, <1>6, <1>7 DEF s

(* What collect_live reads: the segment, with what flush just wrote to it  *)
(* if the writer still writes the segment.                                 *)
LEMMA CollectFrom ==
  ASSUME NEW Q, WalInv, Cover(Q), Collect
  PROVE  \E data \in SegmentsOf(Q) :
           /\ live' = Survivors(data, upTo)
           /\ data = IF active = handle THEN Extended(DataOf(handle), wbuf) ELSE DataOf(active)
<1>1. wpc # "closed"
  BY DEF Collect
<1>2. Extended(DataOf(handle), wbuf) \in SegmentsOf(Q) /\ DataOf(active) \in SegmentsOf(Q)
  BY <1>1, HandleOf
<1>3. CASE active = handle
  <2>1. live' = Survivors(Extended(DataOf(handle), wbuf), upTo)
    BY <1>3 DEF Collect
  <2>2. QED
    BY <1>2, <1>3, <2>1
<1>4. CASE active # handle
  <2>1. live' = Survivors(DataOf(active), upTo)
    BY <1>4 DEF Collect
  <2>2. QED
    BY <1>2, <1>4, <2>1
<1>5. QED
  BY <1>3, <1>4

(* checkpoint writes only records it read from the segment.                *)
LEMMA CheckpointingCovered ==
  ASSUME NEW Q, Q \subseteq LogRecords, WalInv, Cover(Q), WCheckpointing
  PROVE  Cover(Q)' /\ (Solid(Q) => Solid(Q)')
<1>1. /\ wpc # "closed" /\ todo \in Seq(Q) /\ wbuf \in Seq(Pieces(Q))
      /\ handle \in Inodes /\ active \in Inodes /\ handle # 0 /\ active # 0
  BY HandleIs, NoCall DEF WCheckpointing, Collect, WriteTemp, SyncTemp, Rename, SyncDir, Reopen,
     Covered, Cover
<1>2. CASE Collect
  <2>1. Write(handle, Extended(DataOf(handle), wbuf)) /\ wbuf' = <<>> /\ todo' = todo
        /\ wpc' = "ckwrite" /\ UNCHANGED <<active, stale, handle, temp>>
    BY <1>2 DEF Collect, WGoto, names
  <2>2. live' \in Seq(Q)
    BY <1>2, CollectFrom, SurvivorsOf DEF Covered
  <2>3. Cover(Q)'
    BY <1>1, <2>1, <2>2, HandleOf, NothingOf, CoverWrites DEF Covered
  <2>4. Solid(Q) => Solid(Q)'
    BY <1>1, <2>1, HandleOf, SolidWrites DEF Covered
  <2>5. QED
    BY <2>3, <2>4 DEF Covered
<1>3. CASE WriteTemp
  <2>1. /\ temp' \in Inodes /\ temp' \notin {active, handle} \union stale
        /\ file'[temp'] = [data |-> <<Header>> \o Frames(live), hard |-> <<>>]
        /\ \A j \in Inodes : j # temp' => file'[j] = file[j]
    BY <1>3, TempStep
  <2>2. /\ UNCHANGED <<active, stale, handle, wbuf, todo>> /\ wpc' = "cksync" /\ live \in Seq(Q)
    BY <1>3 DEF WriteTemp, writer, callVars, WGoto, Covered, Cover
  <2>3. <<Header>> \o Frames(live) \in SegmentsOf(Q)
    BY <2>2, TempOf
  <2>4. file'[temp'].data \in SegmentsOf(Q) /\ file'[temp'].hard \in SegmentsOf(Q)
    BY <2>1, <2>3, NothingOf
  <2>5. Cover(Q)'
    BY <1>1, <2>1, <2>2, <2>4 DEF Covered, Cover
  <2>6. stale \subseteq Inodes \union {0}
    BY DEF WalInv, WalTypes
  <2>7. Solid(Q) => Solid(Q)'
    BY <1>1, <2>1, <2>2, <2>4, <2>6 DEF Covered, Solid
  <2>8. QED
    BY <2>5, <2>7 DEF Covered
<1>4. CASE SyncTemp
  <2>1. /\ UNCHANGED <<active, stale, handle, temp, wbuf, todo>> /\ wpc' = "ckrename" /\ wpc = "cksync"
        /\ Sync(temp)
    BY <1>4 DEF SyncTemp, writer, names, callVars, WGoto
  <2>2. temp \in Inodes
    BY <2>1 DEF WalInv, WalTypes, Names
  <2>3. QED
    BY <1>1, <2>1, <2>2, CoverSyncs, SolidSyncs DEF Covered
<1>5. CASE Rename
  <2>1. /\ active' = temp /\ stale' = stale \union {active} /\ wpc' = "ckdir" /\ wpc = "ckrename"
        /\ UNCHANGED <<file, handle, wbuf, todo>>
    BY <1>5 DEF Rename, writer, callVars, WGoto
  <2>2. Cover(Q)'
    BY <2>1 DEF Covered, Cover
  <2>3. Solid(Q) => Solid(Q)'
    BY <2>1 DEF Covered, Cover, Solid
  <2>4. QED
    BY <2>2, <2>3 DEF Covered
<1>6. CASE SyncDir
  <2>1. /\ stale' = {} /\ file' = Reclaimed(file, {active, handle}) /\ wpc' = "ckreopen"
        /\ UNCHANGED <<active, handle, wbuf, todo>>
    BY <1>6 DEF SyncDir, writer, callVars, WGoto
  <2>2. file \in [Inodes -> File]
    BY DEF WalInv, WalTypes
  <2>3. file'[active] = file[active] /\ file'[handle] = file[handle]
    BY <1>1, <2>1, <2>2, ReclaimedIs
  <2>4. Cover(Q)'
    BY <2>1, <2>3 DEF Covered, Cover
  <2>5. Solid(Q) => Solid(Q)'
    BY <2>1, <2>3 DEF Covered, Solid
  <2>6. QED
    BY <2>4, <2>5 DEF Covered
<1>7. CASE Reopen
  <2>1. /\ file' = Reclaimed(file, {active} \union stale) /\ wpc' = "ready" /\ wpc = "ckreopen"
        /\ handle' = active /\ wbuf' = <<>> /\ todo' = <<>> /\ UNCHANGED <<active, stale>>
    BY <1>7 DEF Reopen, names, WAnswer, WCallEnds
  <2>2. file \in [Inodes -> File] /\ stale = {}
    BY <2>1 DEF WalInv, WalTypes, Names
  <2>3. file'[active] = file[active]
    BY <1>1, <2>1, <2>2, ReclaimedIs
  <2>4. Cover(Q)'
    BY <2>1, <2>3, NothingOf DEF Covered, Cover
  <2>5. Solid(Q) => Solid(Q)'
    BY <2>1, <2>2, <2>3 DEF Covered, Solid
  <2>6. QED
    BY <2>4, <2>5 DEF Covered
<1>8. QED
  BY <1>2, <1>3, <1>4, <1>5, <1>6, <1>7 DEF WCheckpointing

(* A call brings in the records it was called with, and no other.          *)
LEMMA CallsCovered ==
  ASSUME NEW Q, NEW R, Cover(Q), Q \subseteq R,
         \/ \E recs \in Seq(R) : AppendBatch(recs)
         \/ FlushCall \/ \E n \in Nat : CheckpointCall(n)
  PROVE  Cover(R)' /\ (Solid(Q) => Solid(R)')
<1>1. SegmentsOf(Q) \subseteq SegmentsOf(R) /\ Seq(Q) \subseteq Seq(R)
      /\ Seq(Pieces(Q)) \subseteq Seq(Pieces(R))
  BY OfMore
<1>2. UNCHANGED <<file, active, stale, temp, handle, wbuf>> /\ todo' \in Seq(R)
      /\ wpc' \notin {"ckwrite", "cksync", "ckrename"}
  BY <1>1 DEF AppendBatch, FlushCall, CheckpointCall, WAnswer, WGoto, names, writer, callVars,
              Cover
<1>3. QED
  BY <1>1, <1>2 DEF Cover, Solid

(* A kill adds at most a part of what was being written.                   *)
LEMMA KillCovered ==
  ASSUME NEW Q, Q \subseteq LogRecords, WalInv, Covered(Q), WKill
  PROVE  Covered(Q)'
<1>1. WriterGone /\ UNCHANGED <<active, stale, temp>>
  BY DEF WKill, names
<1>2. PICK s \in Splits(Writing) :
        LET base == IF wpc = "header" THEN <<>> ELSE DataOf(handle)
            f    == IF handle = 0 \/ s.done = <<>> THEN file
                    ELSE [file EXCEPT ![handle] = [data |-> Extended(base, s.done),
                                                   hard |-> @.hard]]
        IN  file' = Reclaimed(f, {active, temp} \union stale)
  BY DEF WKill
<1>3. file \in [Inodes -> File] /\ {active, temp} \union stale \subseteq Inodes \union {0}
  BY DEF WalInv, WalTypes
<1>4. \A i \in Inodes : i \in {active} \union stale =>
        /\ file'[i].hard = file[i].hard
        /\ \/ file'[i].data = file[i].data
           \/ (i = handle /\ file'[i].data \in SegmentsOf(Q))
  <2>1. CASE handle = 0 \/ s.done = <<>>
    <3>1. file' = Reclaimed(file, {active, temp} \union stale)
      BY <1>2, <2>1
    <3>2. \A i \in Inodes : i \in {active, temp} \union stale =>
             Reclaimed(file, {active, temp} \union stale)[i] = file[i]
      BY <1>3, ReclaimedIs
    <3>3. \A i \in Inodes : i \in {active} \union stale => file'[i] = file[i]
      BY <3>1, <3>2
    <3>4. QED
      BY <3>3
  <2>2. CASE ~(handle = 0 \/ s.done = <<>>)
    <3> DEFINE base == IF wpc = "header" THEN <<>> ELSE DataOf(handle)
    <3>1. handle \in Inodes /\ Extended(base, s.done) \in Segments /\ wpc # "closed"
      BY <2>2, WritingIs DEF WalInv, Names
    <3>2. Extended(base, s.done) \in SegmentsOf(Q)
      <4>1. CASE wpc = "header"
        <5>1. base = <<>> /\ Writing = <<Header>>
          BY <4>1 DEF Writing
        <5>2. <<Header>> \in SegmentsOf(Q)
          BY OneOf
        <5>3. s.done \in SegmentsOf(Q)
          BY <5>1, <5>2, CutOf, FilesAssumption
        <5>4. Extended(<<>>, s.done) = s.done
          <6>1. s.done \in Seq(Whole(Q \union {Header.rec}))
            BY <5>3 DEF SegmentsOf
          <6>2. s.done # <<>> => Head(s.done).from = 0
            BY <6>1, HeadTailProperties DEF Whole
          <6>3. ~(s.done # <<>> /\ Head(s.done).from > 0)
            BY <6>2
          <6>4. Extended(<<>>, s.done) = <<>> \o s.done
            BY <6>3 DEF Extended
          <6>5. QED
            BY <6>1, <6>4, ConcatEmptySeq
        <5>5. QED
          BY <5>1, <5>3, <5>4
      <4>2. CASE wpc # "header" /\ Writing = wbuf
        BY <3>1, <4>2, HandleOf DEF Covered
      <4>3. CASE wpc # "header" /\ Writing = <<Frame(Head(todo))>> /\ todo # <<>>
        <5>1. todo \in Seq(Q)
          BY DEF Covered, Cover
        <5>2. Head(todo) \in Q /\ Head(todo) \in LogRecords
          BY <4>3, <5>1, TodoOf
        <5>3. DataOf(handle) \in SegmentsOf(Q) /\ DataOf(handle) \in Segments
          BY <3>1, HandleOf DEF Covered
        <5>4. DataOf(handle) \o s.done \in SegmentsOf(Q)
          BY <4>3, <5>2, <5>3, AppendOf
        <5>5. DataOf(handle) \o s.done = Extended(DataOf(handle), s.done)
          BY <4>3, <5>2, <5>3, FrameWritten
        <5>6. QED
          BY <4>3, <5>4, <5>5
      <4>4. CASE wpc # "header" /\ Writing = <<>>
        <5>1. <<>> \in SegmentsOf(Q) /\ Cuts \subseteq Nat
          BY NothingOf, FilesAssumption
        <5>2. s.done \in Seq(Whole(Q \union {Header.rec})) /\ Len(s.done) \in 0..Len(<<>>)
          BY <4>4, <5>1, CutIs, PiecesOf
        <5>3. Len(s.done) = 0
          BY <5>2, EmptySeq
        <5>4. s.done = <<>>
          BY <5>2, <5>3
        <5>5. QED
          BY <2>2, <5>4
      <4>5. wpc = "write" => todo # <<>>
        BY DEF WalInv, Names
      <4>6. QED
        BY <4>1, <4>2, <4>3, <4>4, <4>5 DEF Writing
    <3>3. PICK g : g = [data |-> Extended(base, s.done), hard |-> file[handle].hard]
      OBVIOUS
    <3>4. g \in File /\ g.data \in SegmentsOf(Q) /\ g.hard = file[handle].hard
      BY <1>3, <3>1, <3>2, <3>3 DEF File
    <3>5. PICK f : f = [file EXCEPT ![handle] = g]
      OBVIOUS
    <3>6. f \in [Inodes -> File] /\ f[handle] = g /\ \A j \in Inodes : j # handle => f[j] = file[j]
      BY <1>3, <3>1, <3>4, <3>5
    <3>7. file' = Reclaimed(f, {active, temp} \union stale)
      BY <1>2, <2>2, <3>3, <3>5
    <3>8. \A i \in Inodes : i \in {active} \union stale => file'[i] = f[i]
      <4>1. \A i \in Inodes : i \in {active, temp} \union stale =>
               Reclaimed(f, {active, temp} \union stale)[i] = f[i]
        BY <3>6, ReclaimedIs
      <4>2. QED
        BY <3>7, <4>1
    <3>9. ASSUME NEW i \in Inodes, i \in {active} \union stale
          PROVE  /\ file'[i].hard = file[i].hard
                 /\ \/ file'[i].data = file[i].data
                    \/ (i = handle /\ file'[i].data \in SegmentsOf(Q))
      <4>1. CASE i = handle
        BY <3>4, <3>6, <3>8, <3>9, <4>1
      <4>2. CASE i # handle
        BY <3>6, <3>8, <3>9, <4>2
      <4>3. QED
        BY <4>1, <4>2
    <3>10. QED
      BY <3>9
  <2>3. QED
    BY <2>1, <2>2
<1>5. Solid(Q)'
  BY <1>1, <1>3, <1>4, WriterGoneTypes DEF Covered, Solid
<1>6. Cover(Q)'
  <2>1. \A i \in {active', handle'} \ {0} : file'[i].data \in SegmentsOf(Q)
    BY <1>1, <1>3, <1>4, WriterGoneTypes DEF Covered, Cover
  <2>2. QED
    BY <1>1, <2>1, WriterGoneTypes, NothingOf DEF Cover
<1>7. QED
  BY <1>5, <1>6 DEF Covered

(* A power loss leaves parts of what the files held.                       *)
LEMMA PowerLossCovered ==
  ASSUME NEW Q, Q \subseteq LogRecords, WalInv, Covered(Q), WPowerLoss
  PROVE  Covered(Q)'
<1>1. PICK i \in stale \union {active} :
        \E d \in (IF i = 0 THEN {<<>>} ELSE Images(file[i])) :
         /\ active' = i
         /\ file' = [j \in Inodes |-> IF j = i THEN [data |-> d, hard |-> d] ELSE Empty]
  BY DEF WPowerLoss
<1>2. PICK d \in (IF i = 0 THEN {<<>>} ELSE Images(file[i])) :
         /\ active' = i
         /\ file' = [j \in Inodes |-> IF j = i THEN [data |-> d, hard |-> d] ELSE Empty]
  BY <1>1
<1>3. i \in Inodes \union {0} /\ file \in [Inodes -> File]
  BY DEF WalInv, WalTypes
<1>4. i # 0 => d \in SegmentsOf(Q)
  BY <1>2, ImageOf, FilesAssumption DEF Covered, Solid
<1>5. i # 0 => file'[i].data = d /\ file'[i].hard = d
  BY <1>2, <1>3
<1>6. WriterGone /\ stale' = {}
  BY DEF WPowerLoss
<1>7. Solid(Q)'
  BY <1>2, <1>4, <1>5, <1>6, WriterGoneTypes DEF Solid
<1>8. Cover(Q)'
  BY <1>2, <1>4, <1>5, <1>6, WriterGoneTypes, NothingOf DEF Cover
<1>9. QED
  BY <1>7, <1>8 DEF Covered


-----------------------------------------------------------------------------
(* What a checkpoint drops is gone                                         *)

(* The records a checkpoint at n keeps.                                    *)
Above(n) == {r \in LogRecords : r.lsn > n}

(* The engine waits for the log to start exactly while the log starts, and *)
(* calls the store and takes submits only between calls of the log.        *)
Shape ==
  /\ (step = "starting") = (wpc \in AtStart \/ wans = "started")
  /\ step \in {"idle", "persist"} => wpc = "ready"

(* Watermarks are below the LSN that is given out next.                    *)
Marks ==
  /\ step = "starting" => upTo = 0
  /\ step # "starting" => trimmed < nextLsn /\ upTo < nextLsn

(* Nothing in the log is at or below the watermark of the last checkpoint  *)
(* that returned Ok, and from its second step on nothing the one under way *)
(* works with is at or below its own.                                      *)
Dropping ==
  /\ wpc = "ckwrite" => live \in Seq(Above(upTo))
  /\ wpc \in {"cksync", "ckrename"} =>
       /\ file[temp].data \in SegmentsOf(Above(upTo))
       /\ file[temp].hard \in SegmentsOf(Above(upTo))
  /\ wpc \in {"ckdir", "ckreopen"} =>
       /\ file[active].data \in SegmentsOf(Above(upTo))
       /\ file[active].hard \in SegmentsOf(Above(upTo))

(* What a checkpoint dropped is not in the log, not even on stable         *)
(* storage, so that no crash brings it back.                               *)
CheckpointInv == Covered(Above(trimmed)) /\ Dropping

(* Which steps are part of the start, and which of a call.                 *)
LEMMA StepsOfLog ==
  /\ WStarting => wpc \in AtStart /\ (wpc' \in AtStart \/ wans' = "started")
  /\ WAppending \/ WCheckpointing => /\ wpc \notin AtStart /\ wpc # "ready"
                                     /\ wpc' \notin AtStart /\ wans' # "started"
<1>1. WStarting => wpc \in AtStart /\ (wpc' \in AtStart \/ wans' = "started")
  BY DEF WStarting, Open, WriteHeader, SyncHeader, Recover, SyncCut, SyncCutName, AtStart,
         WGoto, WAnswer
<1>2. WCheckpointing => /\ wpc \notin AtStart /\ wpc # "ready"
                        /\ wpc' \notin AtStart /\ wans' # "started"
  BY DEF WCheckpointing, Collect, WriteTemp, SyncTemp, Rename, SyncDir, Reopen, AtStart,
         WGoto, WAnswer
<1>3. WAppending => /\ wpc \notin AtStart /\ wpc # "ready"
                    /\ wpc' \notin AtStart /\ wans' # "started"
  BY DEF WAppending, Copy, Spill, WriteThrough, FlushBuffer, Commit, BufferWriteFails,
         WriteThroughFails, StepFails, AtStart, WFails, WGoto, WAnswer
<1>4. QED
  BY <1>1, <1>2, <1>3

(* A call begins when the log is ready.                                    *)
LEMMA CallsOfLog ==
  ASSUME \/ \E recs : AppendBatch(recs)
         \/ FlushCall \/ \E n : CheckpointCall(n)
  PROVE  wpc = "ready" /\ wpc' \notin AtStart /\ wans' # "started"
  BY DEF AppendBatch, FlushCall, CheckpointCall, WGoto, WAnswer, AtStart

(* Every step keeps Shape.                                                 *)
LEMMA ShapeStep == ASSUME TypeInv, Shape, [Next]_vars PROVE Shape'
<1>1. wans = "started" => wpc = "ready"
  BY DEF TypeInv, WalInv, Names
<1>2. CASE UNCHANGED vars \/ StartStore \/ Retry \/ StoreWorks
                          \/ \E w \in Plain \union Durable : Accept(w)
  BY <1>2 DEF vars, StartStore, Retry, StoreWorks, Accept, walVars, engineVars, Shape
<1>3. CASE StartLog
  BY <1>3, StepsOfLog DEF StartLog, engineVars, Shape
<1>4. CASE Started
  BY <1>1, <1>4 DEF Started, Shape, AtStart
<1>5. CASE Flush \/ \E w \in Plain \union Durable : SubmitDurable(w)
  <2>1. PICK ws \in Seq(Value), call \in {"flush", "durable"} : LogBatch(ws, call)
    BY <1>5, LoggedWrites
  <2>2. QED
    BY <2>1, CallsOfLog DEF LogBatch, Shape
<1>6. CASE DurableAnswered \/ Logged \/ Requeue \/ Trimmed
  BY <1>6 DEF DurableAnswered, Logged, Requeue, Trimmed, walVars, Shape
<1>7. CASE Persisted \/ FlushLog
  BY <1>7, CallsOfLog DEF Persisted, FlushLog, Shape
<1>8. CASE LogWorks
  <2>1. wpc \notin AtStart /\ wpc # "ready" /\ wpc' \notin AtStart /\ wans' # "started"
    BY <1>8, StepsOfLog DEF LogWorks
  <2>2. step' = step
    BY <1>8 DEF LogWorks, engineVars
  <2>3. step # "starting" /\ step \notin {"idle", "persist"}
    BY <1>1, <2>1 DEF Shape
  <2>4. QED
    BY <2>1, <2>2, <2>3 DEF Shape
<1>9. CASE Kill \/ PowerLoss
  BY <1>9 DEF Kill, PowerLoss, EngineGone, WKill, WPowerLoss, WriterGone, Shape, AtStart
<1>10. QED
  BY <1>2, <1>3, <1>4, <1>5, <1>6, <1>7, <1>8, <1>9 DEF Next

(* Which steps of the log move its watermarks.                             *)
LEMMA MarksOfLog ==
  ASSUME WalTypes, WAppending \/ WCheckpointing
  PROVE  /\ upTo' \in {upTo, 0}
         /\ ~Reopen => trimmed' = trimmed
         /\ Reopen => trimmed' = HigherOf(trimmed, upTo)
<1>1. ASSUME WCheckpointing
      PROVE  upTo' \in {upTo, 0} /\ (Reopen \/ trimmed' = trimmed)
  BY <1>1 DEF WCheckpointing, Collect, WriteTemp, SyncTemp, Rename, SyncDir, Reopen,
       WCallEnds, callVars, marks, wHistory
<1>2. ASSUME WAppending
      PROVE  upTo' \in {upTo, 0} /\ trimmed' = trimmed
  BY <1>2 DEF WAppending, Copy, Spill, WriteThrough, FlushBuffer, Commit, BufferWriteFails,
       WriteThroughFails, StepFails, WFails, WCallEnds, callVars, marks, wHistory
<1>3. QED
  BY <1>1, <1>2 DEF Reopen

(* Every step keeps Marks.                                                 *)
LEMMA MarksStep == ASSUME TypeInv, Shape, Marks, [Next]_vars PROVE Marks'
<1>1. trimmed \in Nat /\ upTo \in Nat /\ nextLsn \in Nat \ {0} /\ lastLsn \in Nat /\ WalTypes
  BY DEF TypeInv, EngineTypes, WalInv, WalTypes
<1>2. CASE UNCHANGED vars \/ StartStore \/ Retry \/ StoreWorks
                          \/ \E w \in Plain \union Durable : Accept(w)
  BY <1>2 DEF vars, StartStore, Retry, StoreWorks, Accept, walVars, callVars, wHistory, marks,
              engineVars, Marks
<1>3. CASE StartLog
  <2>1. upTo' = upTo
    BY <1>3 DEF StartLog, WStarting, Open, WriteHeader, SyncHeader, Recover, SyncCut, SyncCutName,
                callVars
  <2>2. QED
    BY <1>3, <2>1 DEF StartLog, engineVars, Marks
<1>4. CASE Started
  <2>1. step = "starting" /\ trimmed' = 0 /\ upTo' = upTo /\ nextLsn' = lastLsn + 1
    BY <1>4 DEF Started, LsnsRestart, callVars
  <2>2. QED
    BY <1>1, <2>1 DEF Marks
<1>5. CASE Flush \/ \E w \in Plain \union Durable : SubmitDurable(w)
  <2>1. PICK ws \in Seq(Value), call \in {"flush", "durable"} : step = "idle" /\ LogBatch(ws, call)
    BY <1>5, LoggedWrites
  <2>2. /\ nextLsn' = nextLsn + Len(ws) /\ Len(ws) \in Nat /\ trimmed' = trimmed /\ upTo' = upTo
        /\ step' = call
    BY <2>1 DEF LogBatch, AppendBatch, wHistory, marks
  <2>3. QED
    BY <1>1, <2>1, <2>2 DEF Marks
<1>6. CASE DurableAnswered \/ Logged \/ Requeue \/ Trimmed
  BY <1>6 DEF DurableAnswered, Logged, Requeue, Trimmed, walVars, callVars, wHistory, marks, Marks
<1>7. CASE Persisted
  <2>1. PICK n \in 0..(nextLsn - 1) : CheckpointCall(n)
    BY <1>7 DEF Persisted
  <2>2. step = "persist" /\ trimmed' = trimmed /\ upTo' = n /\ nextLsn' = nextLsn
        /\ step' = "trim"
    BY <1>7, <2>1 DEF Persisted, CheckpointCall, wHistory, marks
  <2>3. QED
    BY <1>1, <2>1, <2>2 DEF Marks
<1>8. CASE FlushLog
  BY <1>8 DEF FlushLog, FlushCall, callVars, wHistory, marks, Marks
<1>9. CASE LogWorks
  <2>1. upTo' \in {upTo, 0} /\ trimmed' \in {trimmed, HigherOf(trimmed, upTo)}
        /\ step' = step /\ nextLsn' = nextLsn
    BY <1>1, <1>9, MarksOfLog DEF LogWorks, engineVars
  <2>2. HigherOf(trimmed, upTo) \in {trimmed, upTo}
    BY <1>1, HigherIs
  <2>3. QED
    BY <1>1, <2>1, <2>2 DEF Marks
<1>10. CASE Kill \/ PowerLoss
  BY <1>10, WriterGoneTypes DEF Kill, PowerLoss, WKill, WPowerLoss, EngineGone, Marks
<1>11. QED
  BY <1>2, <1>3, <1>4, <1>5, <1>6, <1>7, <1>8, <1>9, <1>10 DEF Next

(* Covered, for a larger set of records.                                   *)
LEMMA CoveredMore ==
  ASSUME NEW Q, NEW R, Q \subseteq R, Covered(Q),
         UNCHANGED <<file, active, stale, temp, handle, wbuf, todo, live, wpc>>
  PROVE  Covered(R)'
<1>1. SegmentsOf(Q) \subseteq SegmentsOf(R) /\ Seq(Q) \subseteq Seq(R)
      /\ Seq(Pieces(Q)) \subseteq Seq(Pieces(R))
  BY OfMore
<1>2. QED
  BY <1>1 DEF Covered, Cover, Solid

(* The checkpoint's last step leaves the renamed file as the only one: it  *)
(* covers the log by itself.                                               *)
LEMMA ReopenCovered ==
  ASSUME NEW Q, WalInv, Reopen,
         file[active].data \in SegmentsOf(Q), file[active].hard \in SegmentsOf(Q)
  PROVE  Covered(Q)'
<1>1. /\ file' = Reclaimed(file, {active} \union stale) /\ wpc' = "ready" /\ wpc = "ckreopen"
      /\ handle' = active /\ wbuf' = <<>> /\ todo' = <<>> /\ UNCHANGED <<active, stale>>
  BY DEF Reopen, names, WAnswer, WCallEnds
<1>2. file \in [Inodes -> File] /\ stale = {} /\ active \in Inodes
  BY <1>1, HandleIs DEF WalInv, WalTypes, Names
<1>3. file'[active] = file[active]
  BY <1>1, <1>2, ReclaimedIs
<1>4. QED
  BY <1>1, <1>2, <1>3, NothingOf DEF Covered, Cover, Solid

(* Dropping says nothing unless a checkpoint is under way.                 *)
LEMMA DroppingNot ==
  ASSUME wpc' \notin {"ckwrite", "cksync", "ckrename", "ckdir", "ckreopen"}
  PROVE  Dropping'
  BY DEF Dropping

(* Nor does it change with anything but the files and the checkpoint.      *)
LEMMA DroppingSame ==
  ASSUME Dropping, UNCHANGED <<file, active, temp, live, wpc, upTo>>
  PROVE  Dropping'
  BY DEF Dropping

(* Every step of a checkpoint keeps Dropping: the temporary file gets only *)
(* the records kept, and rename makes it the segment.                      *)
LEMMA CheckpointingDrops ==
  ASSUME WalInv, Dropping, WCheckpointing PROVE Dropping'
<1>1. Above(upTo) \subseteq LogRecords /\ upTo \in Nat
  BY DEF Above, WalInv, WalTypes
<1>2. CASE Collect
  <2>1. Cover(LogRecords)
    BY <1>2 DEF WalInv, WalTypes, Cover, File, Segments, LogPiece, Collect
  <2>2. PICK data \in SegmentsOf(LogRecords) : live' = Survivors(data, upTo)
    BY <1>2, <2>1, CollectFrom
  <2>3. /\ live' \in Seq(LogRecords) /\ \A k \in 1..Len(live') : live'[k].lsn > upTo
    BY <2>2, SurvivorsOf
  <2>4. \A k \in 1..Len(live') : live'[k] \in Above(upTo)
    BY <2>3 DEF Above
  <2>5. live' \in Seq(Above(upTo))
    BY <2>3, <2>4, SeqIntro
  <2>6. upTo' = upTo /\ wpc' = "ckwrite"
    BY <1>2 DEF Collect, WGoto
  <2>7. QED
    BY <2>5, <2>6 DEF Dropping
<1>3. CASE WriteTemp
  <2>1. /\ temp' \in Inodes
        /\ file'[temp'] = [data |-> <<Header>> \o Frames(live), hard |-> <<>>]
    BY <1>3, TempStep
  <2>2. upTo' = upTo /\ wpc' = "cksync" /\ live \in Seq(Above(upTo))
    BY <1>3 DEF WriteTemp, WGoto, callVars, Dropping
  <2>3. <<Header>> \o Frames(live) \in SegmentsOf(Above(upTo))
    BY <1>1, <2>2, TempOf
  <2>4. QED
    BY <2>1, <2>2, <2>3, NothingOf DEF Dropping
<1>4. CASE SyncTemp
  <2>1. wpc' = "ckrename" /\ wpc = "cksync" /\ Sync(temp) /\ UNCHANGED <<temp, upTo>>
    BY <1>4 DEF SyncTemp, WGoto, callVars, names
  <2>2. temp \in Inodes
    BY <2>1 DEF WalInv, WalTypes, Names
  <2>3. file'[temp].data = file[temp].data /\ file'[temp].hard = file[temp].data
    BY <2>1, <2>2, SyncIs DEF WalInv
  <2>4. QED
    BY <2>1, <2>3 DEF Dropping
<1>5. CASE Rename
  BY <1>5 DEF Rename, WGoto, callVars, Dropping
<1>6. CASE SyncDir
  <2>1. /\ file' = Reclaimed(file, {active, handle}) /\ wpc' = "ckreopen" /\ wpc = "ckdir"
        /\ UNCHANGED <<active, upTo>>
    BY <1>6 DEF SyncDir, WGoto, callVars
  <2>2. active \in Inodes /\ file \in [Inodes -> File]
    BY <2>1, HandleIs DEF WalInv, WalTypes
  <2>3. file'[active] = file[active]
    BY <2>1, <2>2, ReclaimedIs
  <2>4. QED
    BY <2>1, <2>3 DEF Dropping
<1>7. CASE Reopen
  BY <1>7, DroppingNot DEF Reopen, WAnswer
<1>8. QED
  BY <1>2, <1>3, <1>4, <1>5, <1>6, <1>7 DEF WCheckpointing

(* Every step of the system keeps CheckpointInv. At the step where         *)
(* checkpoint answers Ok the watermark rises; there Dropping gives what    *)
(* Covered needs. New records have LSNs above every watermark (Marks).     *)
LEMMA CheckpointInvStep ==
  ASSUME TypeInv, Shape, Marks, CheckpointInv, [Next]_vars PROVE CheckpointInv'
<1>1. trimmed \in Nat /\ upTo \in Nat /\ nextLsn \in Nat \ {0} /\ WalTypes /\ WalInv
  BY DEF TypeInv, EngineTypes, WalInv, WalTypes
<1>2. PICK Q : Q = Above(trimmed)
  OBVIOUS
<1>3. Covered(Q) /\ Dropping /\ Q \subseteq LogRecords
  BY <1>2 DEF CheckpointInv, Above
<1>0. ASSUME NEW R, R = Above(trimmed'), Covered(R)', Dropping'
      PROVE  CheckpointInv'
  BY <1>0 DEF CheckpointInv
<1>4. ASSUME Covered(Q)', Dropping', trimmed' = trimmed
      PROVE  CheckpointInv'
  <2>1. Q = Above(trimmed')
    BY <1>2, <1>4
  <2>2. QED
    BY <1>0, <1>4, <2>1
<1>5. CASE \/ UNCHANGED vars \/ StartStore \/ Retry \/ StoreWorks
           \/ DurableAnswered \/ Logged \/ Requeue \/ Trimmed
           \/ \E w \in Plain \union Durable : Accept(w)
  <2>1. UNCHANGED walVars
    BY <1>5 DEF vars, StartStore, Retry, StoreWorks, Accept, DurableAnswered, Logged, Requeue,
                Trimmed
  <2>2. UNCHANGED <<file, active, stale, temp, handle, wbuf, todo, live, wpc, upTo, trimmed>>
    BY <2>1 DEF walVars, names, writer, callVars, wHistory, marks
  <2>3. QED
    BY <1>3, <1>4, <2>2, CoveredMore, DroppingSame
<1>6. CASE StartLog
  <2>1. WStarting /\ wpc' \notin {"ckwrite", "cksync", "ckrename", "ckdir", "ckreopen"}
        /\ trimmed' = trimmed
    BY <1>6 DEF StartLog, WStarting, Open, WriteHeader, SyncHeader, Recover, SyncCut, SyncCutName,
                WGoto, WAnswer, wHistory, marks
  <2>2. QED
    BY <1>1, <1>3, <1>4, <2>1, StartingCovered, DroppingNot
<1>7. CASE Started
  <2>1. /\ UNCHANGED <<file, active, stale, temp, handle, wbuf, todo, live, wpc, upTo>>
        /\ trimmed' = 0 /\ wans = "started"
    BY <1>7 DEF Started, LsnsRestart, names, writer, callVars
  <2>2. Q \subseteq Above(0)
    BY <1>1, <1>2, RecordIs DEF Above
  <2>3. PICK R : R = Above(0)
    OBVIOUS
  <2>4. Covered(R)'
    BY <1>3, <2>1, <2>2, <2>3, CoveredMore
  <2>5. R = Above(trimmed')
    BY <2>1, <2>3
  <2>6. Dropping'
    BY <1>3, <2>1, DroppingSame
  <2>7. QED
    BY <1>0, <2>4, <2>5, <2>6
<1>8. CASE Flush \/ \E w \in Plain \union Durable : SubmitDurable(w)
  <2>1. PICK ws \in Seq(Value), call \in {"flush", "durable"} : step = "idle" /\ LogBatch(ws, call)
    BY <1>8, LoggedWrites
  <2>2. AppendBatch(Stamped(ws)) /\ trimmed < nextLsn
    BY <2>1 DEF LogBatch, Marks
  <2>3. /\ Stamped(ws) \in Seq(LogRecords) /\ Len(Stamped(ws)) = Len(ws)
        /\ \A k \in 1..Len(ws) : Stamped(ws)[k].lsn = nextLsn + k - 1
    BY <1>1, StampedLogs
  <2>4. \A k \in 1..Len(Stamped(ws)) : Stamped(ws)[k] \in Q
    BY <1>1, <1>2, <2>2, <2>3 DEF Above
  <2>5. Stamped(ws) \in Seq(Q)
    BY <2>3, <2>4, SeqIntro
  <2>6. Covered(Q)'
    BY <1>3, <2>2, <2>5, CallsCovered DEF Covered
  <2>7. trimmed' = trimmed /\ wpc' \notin {"ckwrite", "cksync", "ckrename", "ckdir", "ckreopen"}
    BY <2>2 DEF AppendBatch, WAnswer, WGoto, wHistory, marks
  <2>8. QED
    BY <1>4, <2>6, <2>7, DroppingNot
<1>9. CASE Persisted \/ FlushLog
  <2>1. FlushCall \/ \E n \in Nat : CheckpointCall(n)
    BY <1>1, <1>9 DEF Persisted, FlushLog
  <2>2. Covered(Q)'
    BY <1>3, <2>1, CallsCovered DEF Covered
  <2>3. trimmed' = trimmed /\ wpc' \notin {"ckwrite", "cksync", "ckrename", "ckdir", "ckreopen"}
    BY <2>1 DEF FlushCall, CheckpointCall, WGoto, wHistory, marks
  <2>4. QED
    BY <1>4, <2>2, <2>3, DroppingNot
<1>10. CASE LogWorks
  <2>1. CASE WAppending
    <3>1. Covered(Q)'
      BY <1>1, <1>3, <2>1, AppendingCovered DEF Covered
    <3>2. trimmed' = trimmed
      BY <1>1, <2>1, MarksOfLog DEF WAppending, Reopen, Copy, Spill, WriteThrough, FlushBuffer,
         Commit, BufferWriteFails, WriteThroughFails, StepFails, wHistory, marks
    <3>3. wpc' \notin {"ckwrite", "cksync", "ckrename", "ckdir", "ckreopen"}
      BY <2>1 DEF WAppending, Copy, Spill, WriteThrough, FlushBuffer, Commit, BufferWriteFails,
         WriteThroughFails, StepFails, WFails, WGoto, WAnswer
    <3>4. QED
      BY <1>4, <3>1, <3>2, <3>3, DroppingNot
  <2>2. CASE WCheckpointing /\ ~Reopen
    <3>1. Covered(Q)' /\ Dropping'
      BY <1>1, <1>3, <2>2, CheckpointingCovered, CheckpointingDrops DEF Covered
    <3>2. trimmed' = trimmed
      BY <1>1, <2>2, MarksOfLog
    <3>3. QED
      BY <1>4, <3>1, <3>2
  <2>3. CASE Reopen
    <3>1. wpc = "ckreopen" /\ trimmed' = HigherOf(trimmed, upTo) /\ active # 0
      BY <1>1, <2>3 DEF Reopen, WalInv, Names
    <3>2. trimmed' \in {trimmed, upTo}
      BY <1>1, <3>1, HigherIs
    <3>3. PICK R : R = Above(trimmed')
      OBVIOUS
    <3>4. file[active].data \in SegmentsOf(R) /\ file[active].hard \in SegmentsOf(R)
      <4>1. CASE trimmed' = trimmed
        <5>1. R = Q
          BY <1>2, <3>3, <4>1
        <5>2. QED
          BY <1>3, <3>1, <5>1 DEF Covered, Solid
      <4>2. CASE trimmed' = upTo
        <5>1. R = Above(upTo)
          BY <3>3, <4>2
        <5>2. QED
          BY <1>3, <3>1, <5>1 DEF Dropping
      <4>3. QED
        BY <3>2, <4>1, <4>2
    <3>5. Covered(R)'
      BY <1>1, <2>3, <3>4, ReopenCovered
    <3>6. Dropping'
      BY <2>3, DroppingNot DEF Reopen, WAnswer
    <3>7. QED
      BY <1>0, <3>3, <3>5, <3>6
  <2>4. QED
    BY <1>10, <2>1, <2>2, <2>3 DEF LogWorks
<1>11. CASE Kill \/ PowerLoss
  <2>1. Covered(Q)'
    BY <1>1, <1>3, <1>11, KillCovered, PowerLossCovered DEF Kill, PowerLoss
  <2>2. trimmed' = trimmed /\ wpc' = "closed"
    BY <1>11, WriterGoneTypes DEF Kill, PowerLoss, WKill, WPowerLoss, marks
  <2>3. QED
    BY <1>4, <2>1, <2>2, DroppingNot
<1>12. QED
  BY <1>5, <1>6, <1>7, <1>8, <1>9, <1>10, <1>11 DEF Next

(* The inductive invariant of the property.                                *)
StoppingInv == TypeInv /\ Shape /\ Marks /\ CheckpointInv

(* It holds initially.                                                     *)
LEMMA CheckpointInitially == ASSUME Init PROVE Shape /\ Marks /\ CheckpointInv
<1>1. WInit /\ step = "starting" /\ nextLsn = 1
  BY DEF Init
<1>2. Shape /\ Marks /\ Dropping
  BY <1>1 DEF WInit, Shape, Marks, Dropping, AtStart
<1>3. PICK Q : Q = Above(trimmed)
  OBVIOUS
<1>4. \A i \in Inodes : /\ file[i].data \in {<<>>, <<Header>>}
                        /\ file[i].hard \in {<<>>, <<Header>>}
  BY <1>1 DEF WInit, Empty
<1>5. <<>> \in SegmentsOf(Q) /\ <<Header>> \in SegmentsOf(Q)
  BY NothingOf, OneOf
<1>6. active \in Inodes \union {0} /\ handle = 0 /\ stale = {}
  BY <1>1, TypeInitially DEF WInit, TypeInv, WalInv, WalTypes
<1>7. Covered(Q)
  BY <1>1, <1>4, <1>5, <1>6, NothingOf DEF WInit, Covered, Cover, Solid
<1>8. QED
  BY <1>2, <1>3, <1>7 DEF CheckpointInv

(* It is stronger than the property.                                       *)
LEMMA CheckpointGives == TypeInv /\ CheckpointInv => CheckpointedGone
<1> SUFFICES ASSUME TypeInv, CheckpointInv,
                    NEW d \in Leftovers, NEW r \in Recs(d)
             PROVE  r.lsn > trimmed
  BY DEF CheckpointedGone
<1>1. PICK Q : Q = Above(trimmed)
  OBVIOUS
<1>2. Solid(Q)
  BY <1>1 DEF CheckpointInv, Covered
<1>3. PICK i \in stale \union {active} : d \in (IF i = 0 THEN {<<>>} ELSE Images(file[i]))
  BY DEF Leftovers
<1>4. d \in SegmentsOf(Q)
  BY <1>2, <1>3, ImageOf, NothingOf, FilesAssumption DEF Solid
<1>5. Log(d) \in Seq(Q)
  BY <1>4, LogOf, FilesAssumption
<1>6. Recs(d) \in SUBSET Q
  BY <1>5, RangeIs DEF Recs
<1>7. QED
  BY <1>1, <1>6 DEF Above

(* Once checkpoint (wal.rs) has returned Ok, no record at or below its     *)
(* watermark is in the log, or in anything a crash may leave of it, until  *)
(* the engine has recovered from that crash: temporary file, rename and    *)
(* directory sync leave no way back.                                       *)
THEOREM DroppedStaysGone == Spec => []CheckpointedGone
<1>1. Init => StoppingInv
  BY TypeInitially, CheckpointInitially DEF StoppingInv
<1>2. StoppingInv /\ [Next]_vars => StoppingInv'
  BY TypeStep, ShapeStep, MarksStep, CheckpointInvStep DEF StoppingInv
<1>3. StoppingInv => CheckpointedGone
  BY CheckpointGives DEF StoppingInv
<1>4. QED
  BY <1>1, <1>2, <1>3, PTL DEF Spec


-----------------------------------------------------------------------------
(* LSNs rise along a file                                                  *)

(* LSNs rise along a segment; its header counts as 0.                      *)
Rising(ps) == \A j, k \in 1..Len(ps) : j < k => ps[j].rec.lsn < ps[k].rec.lsn

(* A segment with its header.                                              *)
Headed(d)  == d # <<>> /\ d[1] = Header

(* What any file may look like, torn or not: nothing but a header cut      *)
(* short, or a header and records with rising LSNs.                        *)
Segment(d) ==
  /\ Rising(d)
  /\ d # <<>> => d[1].rec = Header.rec /\ d[1].len = HEADER_LEN
  /\ Len(d) > 1 => d[1] = Header

(* Piece by piece, d has the records that e begins with.                   *)
RecPrefix(d, e) == Len(d) \in 0..Len(e) /\ \A j \in 1..Len(d) : d[j].rec = e[j].rec

(* Every LSN of d is lower than every LSN of recs.                         *)
Under(d, recs) == \A j \in 1..Len(d), k \in 1..Len(recs) : d[j].rec.lsn < recs[k].lsn

(* LSNs rise along a beginning of what they rise along.                    *)
LEMMA RisingPrefix ==
  ASSUME NEW d, NEW e, RecPrefix(d, e), Len(e) \in Nat, Rising(e)
  PROVE  Rising(d)
<1> SUFFICES ASSUME NEW j \in 1..Len(d), NEW k \in 1..Len(d), j < k
             PROVE  d[j].rec.lsn < d[k].rec.lsn
  BY DEF Rising
<1>1. j \in 1..Len(e) /\ k \in 1..Len(e)
  BY DEF RecPrefix
<1>2. d[j].rec = e[j].rec /\ d[k].rec = e[k].rec
  BY DEF RecPrefix
<1>3. QED
  BY <1>1, <1>2 DEF Rising

(* A beginning is under what the whole is under.                           *)
LEMMA UnderPrefix ==
  ASSUME NEW d, NEW e, RecPrefix(d, e), Len(e) \in Nat, NEW recs, Under(e, recs)
  PROVE  Under(d, recs)
<1> SUFFICES ASSUME NEW j \in 1..Len(d), NEW k \in 1..Len(recs)
             PROVE  d[j].rec.lsn < recs[k].lsn
  BY DEF Under
<1>1. j \in 1..Len(e) /\ d[j].rec = e[j].rec
  BY DEF RecPrefix
<1>2. QED
  BY <1>1 DEF Under

(* With its header and rising LSNs a file is as it should be.              *)
LEMMA HeadedSegment ==
  ASSUME NEW d, Headed(d), Rising(d) PROVE Segment(d)
  BY HeaderIs DEF Headed, Segment

(* Writing nothing changes nothing.                                        *)
LEMMA ExtendedSelf ==
  ASSUME NEW S, NEW data \in Seq(S) PROVE Extended(data, <<>>) = data
<1>1. Extended(data, <<>>) = data \o <<>>
  BY DEF Extended
<1>2. QED
  BY <1>1, ConcatEmptySeq

(* No write takes the header away.                                         *)
LEMMA HeadedExtended ==
  ASSUME NEW data \in Segments, Headed(data), NEW ps \in Seq(LogPiece), Joins(data, ps)
  PROVE  Headed(Extended(data, ps))
<1>1. data \in Seq(Whole(Contents)) /\ ps \in Seq(Pieces(Contents))
  BY SegmentIs, LogPieces
<1>2. PICK e : e = Extended(data, ps)
  OBVIOUS
<1>3. PICK n : n = Off(data, ps)
  OBVIOUS
<1>4. PICK l \in Nat : l = Len(data) /\ l > 0
  BY <1>1 DEF Headed
<1>5. /\ n \in 0..l /\ e \in Seq(Whole(Contents)) /\ Len(e) = n + Len(ps)
      /\ \A j \in 1..n : e[j] = data[j]
  <2>1. /\ Off(data, ps) \in 0..Len(data)
        /\ Extended(data, ps) \in Seq(Whole(Contents))
        /\ Len(Extended(data, ps)) = Off(data, ps) + Len(ps)
        /\ \A j \in 1..Off(data, ps) : Extended(data, ps)[j] = data[j]
    BY <1>1, ExtendedIs
  <2>2. QED
    BY <1>2, <1>3, <1>4, <2>1
<1>6. n > 0
  <2>1. CASE ps # <<>> /\ ps[1].from > 0
    <3>1. data[l].rec = ps[1].rec /\ 1 \in 1..Len(ps)
      BY <1>1, <1>4, <2>1 DEF Joins
    <3>2. ps[1] \in LogPiece
      BY <3>1
    <3>3. ps[1].rec \in LogRecords
      BY <3>2, LogPieceIs
    <3>4. data[l].rec # Header.rec
      BY <3>1, <3>3, RecordIs
    <3>5. l # 1
      BY <3>4 DEF Headed
    <3>6. n = l - 1
      BY <1>3, <1>4, <2>1 DEF Off
    <3>7. QED
      BY <1>4, <3>5, <3>6
  <2>2. CASE ~(ps # <<>> /\ ps[1].from > 0)
    BY <1>3, <1>4, <2>2 DEF Off
  <2>3. QED
    BY <2>1, <2>2
<1>7. e[1] = Header /\ Len(e) > 0
  <2>1. 1 \in 1..n /\ Len(ps) \in Nat
    BY <1>1, <1>5, <1>6
  <2>2. e[1] = data[1]
    BY <1>5, <2>1
  <2>3. QED
    BY <1>5, <1>6, <2>1, <2>2 DEF Headed
<1>8. e # <<>>
  BY <1>5, <1>7
<1>9. QED
  BY <1>2, <1>7, <1>8 DEF Headed

(* A frame added to the buffer is one record more in the stream.           *)
LEMMA ExtendedAppend ==
  ASSUME NEW data \in Segments, NEW ps \in Seq(LogPiece), Joins(data, ps),
         NEW p \in LogPiece, p.from = 0
  PROVE  LET e == Extended(data, ps)
             f == Extended(data, Append(ps, p))
         IN  /\ Len(e) \in Nat /\ Len(f) = Len(e) + 1
             /\ \A j \in 1..Len(e) : f[j].rec = e[j].rec
             /\ f[Len(e) + 1].rec = p.rec
<1> DEFINE e == Extended(data, ps)
           qs == Append(ps, p)
           f == Extended(data, qs)
<1>1. data \in Seq(Whole(Contents)) /\ ps \in Seq(Pieces(Contents)) /\ p \in Pieces(Contents)
  BY SegmentIs, LogPieces, LogPieceIs
<1>2. /\ qs \in Seq(Pieces(Contents)) /\ Joins(data, qs)
      /\ Len(qs) = Len(ps) + 1 /\ qs[Len(ps) + 1] = p
      /\ \A k \in 1..Len(ps) : qs[k] = ps[k]
  BY <1>1, JoinsAppend
<1>3. /\ Off(data, ps) \in 0..Len(data) /\ e \in Seq(Whole(Contents))
      /\ Len(e) = Off(data, ps) + Len(ps)
      /\ \A j \in 1..Off(data, ps) : e[j] = data[j]
      /\ \A k \in 1..Len(ps) : e[Off(data, ps) + k] = [ps[k] EXCEPT !.from = 0]
  BY <1>1, ExtendedIs
<1> HIDE DEF qs
<1>4. /\ Off(data, qs) \in 0..Len(data) /\ f \in Seq(Whole(Contents))
      /\ Len(f) = Off(data, qs) + Len(qs)
      /\ \A j \in 1..Off(data, qs) : f[j] = data[j]
      /\ \A k \in 1..Len(qs) : f[Off(data, qs) + k] = [qs[k] EXCEPT !.from = 0]
  BY <1>1, <1>2, ExtendedIs, SMTT(30)
<1>5. PICK m \in Nat : m = Len(ps)
  BY <1>1
<1>6. Off(data, qs) = Off(data, ps)
  <2>1. CASE ps = <<>>
    <3>1. m = 0
      BY <1>5, <2>1
    <3>2. qs[1] = p
      BY <1>2, <1>5, <3>1
    <3>3. QED
      BY <2>1, <3>2 DEF Off
  <2>2. CASE ps # <<>>
    <3>1. m > 0 /\ 1 \in 1..m
      BY <1>1, <1>5, <2>2
    <3>2. qs[1] = ps[1] /\ qs # <<>>
      BY <1>2, <1>5, <3>1
    <3>3. QED
      BY <2>2, <3>2 DEF Off
  <2>3. QED
    BY <2>1, <2>2
<1>7. PICK n \in Nat : n = Off(data, ps)
  BY <1>1, <1>3
<1>8. \A k \in 1..(m + 1) : qs[k] \in Pieces(Contents)
  BY <1>2, <1>5
<1>9. \A k \in 1..m : ps[k] \in Pieces(Contents)
  BY <1>1, <1>5
<1> HIDE DEF e, f
<1>10. /\ Len(e) = n + m /\ Len(f) = n + (m + 1)
       /\ \A j \in 1..n : e[j] = data[j] /\ f[j] = data[j]
       /\ \A k \in 1..m : e[n + k] = [ps[k] EXCEPT !.from = 0]
       /\ \A k \in 1..(m + 1) : f[n + k] = [qs[k] EXCEPT !.from = 0]
  BY <1>2, <1>3, <1>4, <1>5, <1>6, <1>7
<1>11. \A k \in 1..m : e[n + k].rec = ps[k].rec
  BY <1>9, <1>10 DEF Pieces
<1>12. \A k \in 1..(m + 1) : f[n + k].rec = qs[k].rec
  BY <1>8, <1>10 DEF Pieces
<1>13. ASSUME NEW j \in 1..(n + m)
       PROVE  f[j].rec = e[j].rec
  <2>1. CASE j <= n
    BY <1>7, <1>10, <2>1
  <2>2. CASE j > n
    <3>1. PICK k : k = j - n
      OBVIOUS
    <3>2. k \in 1..m /\ k \in 1..(m + 1) /\ j = n + k
      BY <1>5, <1>7, <2>2, <3>1
    <3>3. e[j].rec = ps[k].rec /\ f[j].rec = qs[k].rec
      BY <1>11, <1>12, <3>2
    <3>4. qs[k] = ps[k]
      BY <1>2, <1>5, <3>2
    <3>5. QED
      BY <3>3, <3>4
  <2>3. QED
    BY <1>5, <1>7, <2>1, <2>2
<1>14. f[n + (m + 1)].rec = p.rec
  <2>1. m + 1 \in 1..(m + 1)
    BY <1>5
  <2>2. f[n + (m + 1)].rec = qs[m + 1].rec
    BY <1>12, <2>1
  <2>3. QED
    BY <1>2, <1>5, <2>2
<1>15. Len(e) = n + m /\ Len(f) = Len(e) + 1 /\ n + (m + 1) = Len(e) + 1 /\ Len(e) \in Nat
  BY <1>5, <1>7, <1>10
<1>16. QED
  BY <1>13, <1>14, <1>15 DEF e, f, qs

(* Nothing rises.                                                          *)
LEMMA NothingRises ==
  /\ Segment(<<>>) /\ Rising(<<>>) /\ RisingRecs(<<>>)
  /\ \A d : Under(d, <<>>) /\ \A recs : Under(<<>>, recs)
<1>1. Len(<<>>) = 0
  BY EmptySeq
<1>2. \A x : x \notin 1..0
  OBVIOUS
<1>3. QED
  BY <1>1, <1>2 DEF Segment, Rising, RisingRecs, Under

(* A new segment rises.                                                    *)
LEMMA OneRises ==
  Headed(<<Header>>) /\ Rising(<<Header>>) /\ Segment(<<Header>>)
<1>1. <<Header>> \in Segments /\ Len(<<Header>>) = 1 /\ <<Header>>[1] = Header
  BY SegmentOne
<1>2. Headed(<<Header>>)
  BY <1>1 DEF Headed
<1>3. Rising(<<Header>>)
  BY <1>1 DEF Rising
<1>4. QED
  BY <1>2, <1>3, HeadedSegment

(* A segment cut short is a segment.                                       *)
LEMMA CutSegment ==
  ASSUME NEW d \in Segments, Segment(d), NEW s \in Splits(d)
  PROVE  Segment(s.done)
<1>1. /\ s.done \in Seq(Whole(Contents)) /\ Len(s.done) \in 0..Len(d)
      /\ \A k \in 1..Len(s.done) :
           s.done[k].rec = d[k].rec /\ s.done[k].len = d[k].len
      /\ \A k \in 1..Len(s.done) : k < Len(s.done) => s.done[k] = d[k]
  BY SegmentIs, CutIs, FilesAssumption
<1>2. PICK n \in Nat : n = Len(s.done)
  BY <1>1
<1>3. Len(d) \in Nat /\ d \in Seq(Whole(Contents))
  BY SegmentIs
<1>4. Rising(s.done)
  BY <1>1, <1>3, RisingPrefix DEF RecPrefix, Segment
<1>5. s.done # <<>> => /\ s.done[1].rec = Header.rec /\ s.done[1].len = HEADER_LEN
  <2>1. s.done # <<>> => n > 0
    BY <1>1, <1>2
  <2>2. n > 0 => Len(d) > 0
    BY <1>1, <1>2, <1>3
  <2>3. Len(d) > 0 => d # <<>>
    BY <1>3
  <2>4. n > 0 => s.done[1].rec = d[1].rec /\ s.done[1].len = d[1].len
    BY <1>1, <1>2
  <2>5. QED
    BY <2>1, <2>2, <2>3, <2>4 DEF Segment
<1>6. n > 1 => s.done[1] = Header
  <2>1. n > 1 => s.done[1] = d[1] /\ Len(d) > 1
    BY <1>1, <1>2, <1>3
  <2>2. QED
    BY <2>1 DEF Segment
<1>7. QED
  BY <1>2, <1>4, <1>5, <1>6 DEF Segment

(* What a power loss leaves of a file is as it should be.                  *)
LEMMA ImageSegmented ==
  ASSUME NEW f \in File, Segment(f.data), Segment(f.hard), NEW d \in Images(f)
  PROVE  Segment(d)
<1>1. f.data \in Segments
  BY DEF File
<1>2. d = f.data \/ d = f.hard \/ \E s \in Splits(f.data) : d = s.done
  BY ImagesAre
<1>3. QED
  BY <1>1, <1>2, CutSegment

(* What recover keeps of a segment.                                        *)
LEMMA GoodSegment ==
  ASSUME NEW d \in Segments, Headed(d), Rising(d)
  PROVE  /\ Headed(Good(d)) /\ Rising(Good(d))
         /\ Len(Good(d)) \in Nat \ {0} /\ Len(Good(d)) <= Len(d)
         /\ \A k \in 1..Len(Good(d)) : Good(d)[k] = d[k]
<1>1. d \in Seq(Whole(Contents)) /\ HEADER_LEN < U32 /\ Len(d) \in Nat
  BY SegmentIs, FilesAssumption
<1>2. /\ Good(d) \in Seq(Whole(Contents)) /\ Len(Good(d)) \in 0..Len(d)
      /\ \A k \in 1..Len(Good(d)) : Good(d)[k] = d[k]
      /\ Len(Good(d)) > 0
  BY <1>1, GoodIs DEF Headed
<1>3. Good(d) # <<>> /\ Good(d)[1] = d[1]
  BY <1>2
<1>4. Rising(Good(d))
  BY <1>1, <1>2, RisingPrefix DEF RecPrefix
<1>5. QED
  BY <1>1, <1>2, <1>3, <1>4 DEF Headed

(* The LSNs that recover returns rise.                                     *)
LEMMA LogRises ==
  ASSUME NEW d \in Segments, Segment(d)
  PROVE  RisingRecs(Log(d))
<1>1. d \in Seq(Whole(Contents)) /\ HEADER_LEN < U32
  BY SegmentIs, FilesAssumption
<1>2. /\ Log(d) \in Seq(Contents) /\ Len(Log(d)) <= Len(d)
      /\ \A k \in 1..Len(Log(d)) :
           k + 1 \in 1..Len(d) /\ Log(d)[k] = d[k + 1].rec
  BY <1>1, LogIs
<1>3. ASSUME NEW j \in 1..Len(Log(d)), NEW k \in 1..Len(Log(d)), j < k
      PROVE  Log(d)[j].lsn < Log(d)[k].lsn
  <2>1. j + 1 \in 1..Len(d) /\ k + 1 \in 1..Len(d) /\ j + 1 < k + 1
    BY <1>2, <1>3
  <2>2. d[j + 1].rec.lsn < d[k + 1].rec.lsn
    BY <2>1 DEF Segment, Rising
  <2>3. QED
    BY <1>2, <2>2
<1>4. QED
  BY <1>3 DEF RisingRecs

(* What a checkpoint writes.                                               *)
LEMMA TempRises ==
  ASSUME NEW recs \in Seq(LogRecords), RisingRecs(recs)
  PROVE  Headed(<<Header>> \o Frames(recs)) /\ Rising(<<Header>> \o Frames(recs))
<1>1. PICK d : d = <<Header>> \o Frames(recs)
  OBVIOUS
<1>2. /\ Len(d) = Len(recs) + 1 /\ d[1] = Header /\ d \in SegmentsOf(LogRecords)
      /\ \A k \in 1..Len(recs) : d[k + 1].rec = recs[k]
  BY <1>1, TempOf
<1>3. PICK n \in Nat : n = Len(recs)
  OBVIOUS
<1>4. \A k \in 1..n : recs[k].lsn > 0
  BY <1>3, RecordIs
<1>5. ASSUME NEW j \in 1..(n + 1), NEW k \in 1..(n + 1), j < k
      PROVE  d[j].rec.lsn < d[k].rec.lsn
  <2>1. PICK l : l = k - 1
    OBVIOUS
  <2>2. l \in 1..n /\ k = l + 1
    BY <1>5, <2>1
  <2>3. d[k].rec = recs[l]
    BY <1>2, <1>3, <2>2
  <2>4. CASE j = 1
    <3>1. d[j].rec.lsn = 0
      BY <1>2, <2>4, HeaderIs
    <3>2. QED
      BY <1>4, <2>2, <2>3, <3>1
  <2>5. CASE j # 1
    <3>1. PICK i : i = j - 1
      OBVIOUS
    <3>2. i \in 1..n /\ j = i + 1 /\ i < l
      BY <1>5, <2>1, <2>5, <3>1
    <3>3. d[j].rec = recs[i]
      BY <1>2, <1>3, <3>2
    <3>4. QED
      BY <1>3, <2>2, <2>3, <3>2, <3>3 DEF RisingRecs
  <2>6. QED
    BY <2>4, <2>5
<1>6. Rising(d)
  BY <1>2, <1>3, <1>5 DEF Rising
<1>7. d # <<>>
  <2>1. d \in Seq(Whole(LogRecords \union {Header.rec})) /\ Len(d) > 0
    BY <1>2, <1>3 DEF SegmentsOf
  <2>2. QED
    BY <2>1
<1>8. QED
  BY <1>1, <1>2, <1>6, <1>7 DEF Headed

(* Open finds a header iff the file is as long as one.                     *)
LEMMA FullHeader ==
  ASSUME NEW d \in Segments, Segment(d), ~(CellsIn(d) < HEADER_LEN)
  PROVE  Headed(d)
<1>1. d \in Seq(Pieces(Contents)) /\ d \in Seq(Whole(Contents))
  BY SegmentIs
<1>2. HEADER_LEN = 2
  BY HeaderIs
<1>3. d # <<>>
  BY <1>2, CellsEmpty
<1>4. CASE Len(d) = 1
  <2>1. CellsIn(d) = d[1].to - d[1].from
    BY <1>1, <1>4, CellsOne DEF Size
  <2>2. PICK p : p = d[1]
    OBVIOUS
  <2>3. p \in Whole(Contents)
    BY <1>1, <1>4, <2>2
  <2>4. /\ p \in [rec : Contents, len : Nat, from : Nat, to : Nat]
        /\ p.from = 0 /\ p.to <= p.len
    BY <2>3 DEF Whole, Pieces
  <2>5. p.rec = Header.rec /\ p.len = 2
    BY <1>2, <1>3, <2>2 DEF Segment
  <2>6. p.to \in Nat /\ ~(p.to - p.from < 2)
    BY <1>2, <2>1, <2>2, <2>4
  <2>7. p.to = 2
    BY <2>4, <2>5, <2>6
  <2>8. p = [rec |-> p.rec, len |-> p.len, from |-> p.from, to |-> p.to]
    BY <2>4
  <2>9. p = Header
    BY <2>4, <2>5, <2>7, <2>8, HeaderIs
  <2>10. QED
    BY <1>3, <2>2, <2>9 DEF Headed
<1>5. CASE Len(d) > 1
  BY <1>3, <1>5 DEF Segment, Headed
<1>6. Len(d) \in Nat \ {0}
  BY <1>1, <1>3
<1>7. QED
  BY <1>4, <1>5, <1>6


-----------------------------------------------------------------------------
(* and along what is still to be written                                   *)

(* What the writer's file will hold once its buffer is written out.        *)
Stream == Extended(DataOf(handle), wbuf)

(* The segment has its header.                                             *)
Opened == wpc \notin {"closed", "header"}

(* Every file is as it should be, and the segment has its header.          *)
FilesOrdered ==
  /\ \A i \in Inodes : Segment(file[i].data) /\ Segment(file[i].hard)
  /\ Opened => Headed(DataOf(handle)) /\ Headed(DataOf(active))
  /\ wpc \in {"cksync", "ckrename"} => Headed(file[temp].data)

(* What the writer has yet to write fits to what the file holds.           *)
CallsOrdered ==
  /\ Rising(Stream)
  /\ RisingRecs(todo) /\ RisingRecs(live)
  /\ Under(Stream, todo)

(* LSNs rise along every file, along what the writer has in hand, and      *)
(* along what the call under way is still to write.                        *)
Ordered == FilesOrdered /\ CallsOrdered

(* Steps that write no file keep FilesOrdered.                             *)
LEMMA FilesQuiet ==
  ASSUME FilesOrdered, UNCHANGED <<file, active, handle>>, Opened' => Opened,
         wpc' \notin {"cksync", "ckrename"}
  PROVE  FilesOrdered'
  BY DEF FilesOrdered, DataOf

(* Steps that write the writer's file keep it, if they write what rises.   *)
LEMMA FilesWritten ==
  ASSUME WalInv, FilesOrdered, wpc # "closed", NEW d \in Segments, Write(handle, d),
         Headed(d), Rising(d), UNCHANGED <<active, handle>>, Opened \/ active = handle,
         wpc' \notin {"cksync", "ckrename"}
  PROVE  FilesOrdered' /\ DataOf(handle)' = d
<1>1. handle \in Inodes /\ active \in Inodes /\ handle # 0 /\ active # 0
  BY HandleIs, NoCall
<1>2. /\ file'[handle].data = d /\ file'[handle].hard = file[handle].hard
      /\ \A j \in Inodes : j # handle => file'[j] = file[j]
  BY <1>1, WriteIs DEF WalInv
<1>3. \A i \in Inodes : Segment(file'[i].data) /\ Segment(file'[i].hard)
  BY <1>1, <1>2, HeadedSegment DEF FilesOrdered
<1>4. DataOf(handle)' = d
  BY <1>1, <1>2 DEF DataOf
<1>5. Headed(DataOf(active)')
  <2>1. CASE active = handle
    BY <1>1, <1>2, <2>1 DEF DataOf
  <2>2. CASE active # handle
    BY <1>1, <1>2, <2>2 DEF DataOf, FilesOrdered
  <2>3. QED
    BY <2>1, <2>2
<1>6. QED
  BY <1>3, <1>4, <1>5 DEF FilesOrdered

(* Steps that sync a file keep it.                                         *)
LEMMA FilesSynced ==
  ASSUME WalInv, FilesOrdered, NEW i \in Inodes, Sync(i), UNCHANGED <<active, handle, temp>>,
         Opened' => Opened,
         wpc' \in {"cksync", "ckrename"} => wpc \in {"cksync", "ckrename"}
  PROVE  FilesOrdered' /\ DataOf(handle)' = DataOf(handle)
<1>1. {active, handle, temp} \subseteq Inodes \union {0}
  BY DEF WalInv, WalTypes
<1>2. /\ file'[i].data = file[i].data /\ file'[i].hard = file[i].data
      /\ \A j \in Inodes : j # i => file'[j] = file[j]
  BY SyncIs DEF WalInv
<1>3. \A j \in Inodes : Segment(file'[j].data) /\ Segment(file'[j].hard)
  BY <1>2 DEF FilesOrdered
<1>4. DataOf(handle)' = DataOf(handle) /\ DataOf(active)' = DataOf(active)
  BY <1>1, <1>2 DEF DataOf
<1>5. wpc' \in {"cksync", "ckrename"} => temp \in Inodes /\ Headed(file[temp].data)
  BY <1>1 DEF FilesOrdered, WalInv, Names
<1>6. QED
  BY <1>2, <1>3, <1>4, <1>5 DEF FilesOrdered

(* With an empty buffer the stream is the file.                            *)
LEMMA StreamNow ==
  ASSUME wbuf' = <<>>, WalInv', FilesOrdered'
  PROVE  Stream' = DataOf(handle)' /\ Rising(Stream')
<1>1. handle' \in Inodes \union {0} /\ file' \in [Inodes -> File]
  BY DEF WalInv, WalTypes
<1>2. DataOf(handle)' = IF handle' = 0 THEN <<>> ELSE file'[handle'].data
  BY DEF DataOf
<1>3. CASE handle' = 0
  <2>1. DataOf(handle)' = <<>> /\ <<>> \in Seq(Contents)
    BY <1>2, <1>3, EmptySeq
  <2>2. Extended(<<>>, <<>>) = <<>>
    BY <2>1, ExtendedSelf
  <2>3. Stream' = <<>>
    BY <2>1, <2>2 DEF Stream
  <2>4. QED
    BY <2>1, <2>3, NothingRises
<1>4. CASE handle' # 0
  <2>1. DataOf(handle)' \in Segments /\ Segment(DataOf(handle)')
    BY <1>1, <1>2, <1>4 DEF File, FilesOrdered
  <2>2. DataOf(handle)' \in Seq(Whole(Contents))
    BY <2>1, SegmentIs
  <2>3. Extended(DataOf(handle)', <<>>) = DataOf(handle)'
    BY <2>2, ExtendedSelf
  <2>4. QED
    BY <2>1, <2>3 DEF Stream, Segment
<1>5. QED
  BY <1>3, <1>4

(* CallsOrdered, when file and buffer stay.                                *)
LEMMA CallsSame ==
  ASSUME CallsOrdered, DataOf(handle)' = DataOf(handle), wbuf' = wbuf,
         todo' = todo \/ todo' = <<>>, live' = live \/ live' = <<>>
  PROVE  CallsOrdered'
<1>1. Stream' = Stream
  BY DEF Stream
<1>2. QED
  BY <1>1, NothingRises DEF CallsOrdered

(* CallsOrdered, when nothing is left to write.                            *)
LEMMA CallsNone ==
  ASSUME wbuf' = <<>>, WalInv', FilesOrdered', todo' = <<>>, RisingRecs(live')
  PROVE  CallsOrdered'
  BY StreamNow, NothingRises DEF CallsOrdered

(* The steps of Wal::open and of recover keep Ordered: recover cuts a file *)
(* only after its last readable record.                                    *)
LEMMA StartingOrdered ==
  ASSUME WalInv, WalInv', Ordered, WStarting PROVE Ordered'
<1>1. /\ todo = <<>> /\ wbuf = <<>> /\ todo' = <<>> /\ wbuf' = <<>> /\ live' = live
      /\ wpc # "closed" => handle = active
      /\ wpc' \notin {"cksync", "ckrename"} /\ temp' = temp
  BY DEF WStarting, Open, WriteHeader, SyncHeader, Recover, SyncCut, SyncCutName,
     WalInv, Names, AtStart, callVars, writer, names, WGoto, WAnswer
<1>2. file \in [Inodes -> File]
  BY DEF WalInv, WalTypes
<1>3. FilesOrdered'
  <2>1. CASE Open
    <3>1. CASE active = 0
      <4>1. file' = file /\ wpc' = "header"
        BY <2>1, <3>1 DEF Open, WGoto
      <4>2. QED
        BY <1>1, <4>1 DEF Ordered, FilesOrdered, Opened
    <3>2. CASE active # 0
      <4>1. active' = active /\ handle' = active /\ file' = file /\ DataOf(active) = file[active].data
            /\ active \in Inodes
        BY <2>1, <3>2 DEF Open, DataOf, WalInv, WalTypes
      <4>2. wpc' # "header" => ~(CellsIn(DataOf(active)) < HEADER_LEN)
        BY <2>1, <3>2 DEF Open, WGoto
      <4>3. DataOf(active) \in Segments /\ Segment(DataOf(active))
        BY <1>2, <4>1 DEF File, Ordered, FilesOrdered
      <4>4. Opened' => Headed(DataOf(active))
        BY <4>2, <4>3, FullHeader DEF Opened
      <4>5. DataOf(active)' = DataOf(active) /\ DataOf(handle)' = DataOf(active)
        BY <4>1 DEF DataOf
      <4>6. QED
        BY <1>1, <4>1, <4>4, <4>5 DEF Ordered, FilesOrdered
    <3>3. QED
      BY <3>1, <3>2
  <2>2. CASE WriteHeader
    <3>1. wpc = "header" /\ Write(handle, <<Header>>) /\ UNCHANGED <<active, handle>>
      BY <2>2 DEF WriteHeader, names, writer
    <3>2. QED
      BY <1>1, <3>1, SegmentOne, OneRises, FilesWritten DEF Ordered
  <2>3. CASE SyncHeader \/ SyncCut
    <3>1. wpc \in {"hsync", "rsync"} /\ (Sync(handle) \/ Sync(active))
          /\ UNCHANGED <<active, handle, temp>>
      BY <2>3 DEF SyncHeader, SyncCut, names, writer
    <3>2. handle \in Inodes /\ active \in Inodes
      BY <3>1, HandleIs
    <3>3. QED
      BY <1>1, <3>1, <3>2, FilesSynced DEF Ordered, Opened
  <2>4. CASE Recover
    <3>1. wpc = "recover" /\ UNCHANGED <<active, handle>> /\ handle = active
      BY <1>1, <2>4 DEF Recover, names, writer
    <3>2. CASE file' = file
      BY <1>1, <3>1, <3>2, FilesQuiet DEF Ordered, Opened
    <3>3. CASE Write(active, Good(DataOf(active)))
      <4>1. DataOf(active) \in Segments /\ active \in Inodes /\ DataOf(active) = file[active].data
        BY <3>1, HandleIs
      <4>2. Headed(DataOf(active)) /\ Rising(DataOf(active))
        BY <3>1, <4>1 DEF Ordered, FilesOrdered, Opened, Segment
      <4>3. Good(DataOf(active)) \in Segments
        BY <4>1, SegmentGood, FilesAssumption
      <4>4. QED
        BY <1>1, <3>1, <3>3, <4>1, <4>2, <4>3, GoodSegment, FilesWritten DEF Ordered
    <3>4. QED
      BY <2>4, <3>2, <3>3 DEF Recover
  <2>5. CASE SyncCutName
    BY <1>1, <2>5, FilesQuiet DEF SyncCutName, writer, Ordered, Opened
  <2>6. QED
    BY <2>1, <2>2, <2>3, <2>4, <2>5 DEF WStarting
<1>4. QED
  BY <1>1, <1>3, CallsNone DEF Ordered, CallsOrdered

(* A call keeps Ordered, if the records it is called with rise above those *)
(* of the log.                                                             *)
LEMMA CallingOrdered ==
  ASSUME Ordered,
         \/ \E recs : AppendBatch(recs) /\ RisingRecs(recs) /\ Under(Stream, recs)
         \/ FlushCall \/ \E n : CheckpointCall(n)
  PROVE  Ordered'
<1>1. wpc = "ready" /\ UNCHANGED <<file, active, handle, wbuf, live>>
      /\ wpc' \notin {"cksync", "ckrename"}
  BY DEF AppendBatch, FlushCall, CheckpointCall, WAnswer, WGoto, names, writer, callVars
<1>2. RisingRecs(todo') /\ Under(Stream, todo')
  BY DEF AppendBatch, FlushCall, CheckpointCall, callVars, Ordered, CallsOrdered
<1>3. FilesOrdered'
  BY <1>1, FilesQuiet DEF Ordered, Opened
<1>4. Stream' = Stream
  BY <1>1 DEF Stream, DataOf
<1>5. QED
  BY <1>1, <1>2, <1>3, <1>4 DEF Ordered, CallsOrdered

(* One more record, above all those before it.                             *)
LEMMA NextRises ==
  ASSUME NEW e, NEW f, Len(e) \in Nat, Len(f) = Len(e) + 1,
         \A j \in 1..Len(e) : f[j].rec = e[j].rec,
         NEW recs \in Seq(LogRecords), recs # <<>>, f[Len(e) + 1].rec = Head(recs),
         Rising(e), RisingRecs(recs), Under(e, recs)
  PROVE  Rising(f) /\ Under(f, Tail(recs)) /\ RisingRecs(Tail(recs))
<1>1. PICK n \in Nat : n = Len(e)
  OBVIOUS
<1>2. PICK m \in Nat : m = Len(recs) /\ m > 0
  OBVIOUS
<1>3. /\ Len(Tail(recs)) = m - 1 /\ Head(recs) = recs[1]
      /\ \A k \in 1..(m - 1) : Tail(recs)[k] = recs[k + 1]
  BY <1>2
<1>4. f[n + 1].rec = recs[1]
  BY <1>1, <1>3
<1>5. \A j \in 1..n, k \in 1..m : f[j].rec.lsn < recs[k].lsn
  BY <1>1, <1>2 DEF Under
<1>6. \A j, k \in 1..n : j < k => f[j].rec.lsn < f[k].rec.lsn
  BY <1>1 DEF Rising
<1>7. \A j, k \in 1..m : j < k => recs[j].lsn < recs[k].lsn
  BY <1>2 DEF RisingRecs
<1>8. ASSUME NEW j \in 1..(n + 1), NEW k \in 1..(n + 1), j < k
      PROVE  f[j].rec.lsn < f[k].rec.lsn
  <2>1. j \in 1..n
    BY <1>1, <1>8
  <2>2. CASE k = n + 1
    BY <1>2, <1>4, <1>5, <2>1, <2>2
  <2>3. CASE k # n + 1
    <3>1. k \in 1..n
      BY <1>1, <2>3
    <3>2. QED
      BY <1>6, <1>8, <2>1, <3>1
  <2>4. QED
    BY <2>2, <2>3
<1>9. ASSUME NEW j \in 1..(n + 1), NEW k \in 1..(m - 1)
      PROVE  f[j].rec.lsn < Tail(recs)[k].lsn
  <2>1. k + 1 \in 1..m /\ 1 \in 1..m /\ 1 < k + 1 /\ Tail(recs)[k] = recs[k + 1]
    BY <1>2, <1>3
  <2>2. CASE j = n + 1
    BY <1>4, <1>7, <2>1, <2>2
  <2>3. CASE j # n + 1
    <3>1. j \in 1..n
      BY <1>1, <2>3
    <3>2. QED
      BY <1>5, <2>1, <3>1
  <2>4. QED
    BY <2>2, <2>3
<1>10. ASSUME NEW j \in 1..(m - 1), NEW k \in 1..(m - 1), j < k
       PROVE  Tail(recs)[j].lsn < Tail(recs)[k].lsn
  <2>1. j + 1 \in 1..m /\ k + 1 \in 1..m /\ j + 1 < k + 1
    BY <1>2, <1>10
  <2>2. Tail(recs)[j] = recs[j + 1] /\ Tail(recs)[k] = recs[k + 1]
    BY <1>3
  <2>3. QED
    BY <1>7, <2>1, <2>2
<1>11. Rising(f)
  BY <1>1, <1>8 DEF Rising
<1>12. Under(f, Tail(recs))
  BY <1>1, <1>3, <1>9 DEF Under
<1>13. RisingRecs(Tail(recs))
  BY <1>3, <1>10 DEF RisingRecs
<1>14. QED
  BY <1>11, <1>12, <1>13

(* What Ordered says of the file, the buffer, and the file after any part  *)
(* of the buffer was written.                                              *)
LEMMA StreamIs ==
  ASSUME WalInv, Ordered, Opened
  PROVE  /\ handle \in Inodes /\ DataOf(handle) \in Segments /\ wpc # "closed"
         /\ Headed(DataOf(handle)) /\ Rising(DataOf(handle))
         /\ Stream \in Segments /\ Headed(Stream) /\ Rising(Stream) /\ Len(Stream) \in Nat
         /\ wbuf \in Seq(LogPiece) /\ Joins(DataOf(handle), wbuf)
         /\ \A s \in Splits(wbuf) :
              /\ Extended(DataOf(handle), s.done) \in Segments
              /\ Headed(Extended(DataOf(handle), s.done))
              /\ Rising(Extended(DataOf(handle), s.done))
              /\ Rising(Extended(Extended(DataOf(handle), s.done), s.rest))
<1>1. wpc # "closed" /\ Cuts \subseteq Nat
  BY FilesAssumption DEF Opened
<1>2. handle \in Inodes /\ DataOf(handle) \in Segments /\ DataOf(handle) = file[handle].data
  BY <1>1, HandleIs
<1>3. Headed(DataOf(handle)) /\ Rising(DataOf(handle)) /\ Rising(Stream)
  BY <1>2 DEF Ordered, FilesOrdered, CallsOrdered, Segment
<1>4. wbuf \in Seq(LogPiece) /\ Joins(DataOf(handle), wbuf) /\ wbuf \in Seq(Pieces(Contents))
      /\ DataOf(handle) \in Seq(Whole(Contents))
  BY <1>2, BufferIs, SegmentIs DEF WalInv, WBuffered
<1>5. Stream \in Segments /\ Headed(Stream)
  BY <1>2, <1>3, <1>4, SegmentExtended, HeadedExtended DEF Stream
<1>6. Len(Stream) \in Nat
  BY <1>5, SegmentIs
<1>7. ASSUME NEW s \in Splits(wbuf)
      PROVE  /\ Extended(DataOf(handle), s.done) \in Segments
             /\ Headed(Extended(DataOf(handle), s.done))
             /\ Rising(Extended(DataOf(handle), s.done))
             /\ Rising(Extended(Extended(DataOf(handle), s.done), s.rest))
  <2>1. PICK d : d = Extended(DataOf(handle), s.done)
    OBVIOUS
  <2>2. PICK f : f = Extended(d, s.rest)
    OBVIOUS
  <2>3. s.done \in Seq(LogPiece)
    BY <1>1, <1>4, SplitIs DEF LogPiece
  <2>4. /\ Joins(DataOf(handle), s.done)
        /\ Len(f) = Len(Stream) /\ \A j \in 1..Len(Stream) : f[j].rec = Stream[j].rec
        /\ Len(d) \in 0..Len(Stream) /\ \A j \in 1..Len(d) : d[j].rec = Stream[j].rec
    BY <1>1, <1>4, <2>1, <2>2, SplitJoins DEF Stream
  <2>5. Rising(d) /\ Rising(f)
    <3>1. RecPrefix(d, Stream)
      BY <2>4 DEF RecPrefix
    <3>2. RecPrefix(f, Stream)
      BY <1>6, <2>4 DEF RecPrefix
    <3>3. QED
      BY <1>3, <1>6, <3>1, <3>2, RisingPrefix
  <2>6. d \in Segments /\ Headed(d)
    BY <1>2, <1>3, <2>1, <2>3, <2>4, SegmentExtended, HeadedExtended
  <2>7. QED
    BY <2>1, <2>2, <2>5, <2>6
<1>8. QED
  BY <1>1, <1>2, <1>3, <1>4, <1>5, <1>6, <1>7

(* The frame that goes straight into the file.                             *)
LEMMA FrameStream ==
  ASSUME WalInv, Ordered, Opened, wbuf = <<>>, todo # <<>>
  PROVE  LET d == Append(DataOf(handle), Frame(Head(todo)))
         IN  /\ d \in Segments /\ Headed(d) /\ Rising(d) /\ Under(d, Tail(todo))
             /\ RisingRecs(Tail(todo))
             /\ \A s \in Splits(<<Frame(Head(todo))>>) :
                  /\ DataOf(handle) \o s.done \in Segments
                  /\ Headed(DataOf(handle) \o s.done)
                  /\ Rising(DataOf(handle) \o s.done)
                  /\ DataOf(handle) \o s.done = Extended(DataOf(handle), s.done)
<1>1. PICK data : data = DataOf(handle)
  OBVIOUS
<1>2. PICK ps : ps = <<Frame(Head(todo))>>
  OBVIOUS
<1>3. PICK f : f = Append(data, Frame(Head(todo)))
  OBVIOUS
<1>4. Head(todo) \in LogRecords /\ todo \in Seq(LogRecords) /\ Cuts \subseteq Nat
  BY TodoIs, FilesAssumption DEF WalInv, WalTypes
<1>5. data \in Segments /\ Headed(data) /\ data \in Seq(Whole(Contents)) /\ Rising(data)
  BY <1>1, StreamIs, SegmentIs
<1>6. /\ f = Extended(data, ps) /\ ps \in Seq(LogPiece) /\ Joins(data, ps) /\ f \in Segments
      /\ \A s \in Splits(ps) :
           /\ data \o s.done = Extended(data, s.done)
           /\ Joins(data, s.done) /\ s.done \in Seq(LogPiece)
           /\ Extended(data, s.done) \in Segments
  BY <1>2, <1>3, <1>4, <1>5, FrameWritten
<1>7. Stream = data
  BY <1>1, <1>5, ExtendedSelf DEF Stream
<1>8. PICK n \in Nat : n = Len(data)
  BY <1>5
<1>9. /\ Len(f) = n + 1 /\ f[n + 1] = Frame(Head(todo)) /\ \A j \in 1..n : f[j] = data[j]
  <2>1. Frame(Head(todo)) \in SegPiece /\ data \in Seq(SegPiece)
    BY <1>4, <1>5, FrameIs, SegmentIs
  <2>2. QED
    BY <1>3, <1>8, <2>1, AppendProperties
<1>10. f[n + 1].rec = Head(todo) /\ \A j \in 1..n : f[j].rec = data[j].rec
  BY <1>4, <1>9, FrameIs
<1>11. RisingRecs(todo) /\ Under(data, todo)
  BY <1>7 DEF Ordered, CallsOrdered
<1>12. Rising(f) /\ Under(f, Tail(todo)) /\ RisingRecs(Tail(todo))
  BY <1>4, <1>5, <1>8, <1>9, <1>10, <1>11, NextRises
<1>13. Headed(f)
  BY <1>5, <1>6, HeadedExtended
<1>14. ASSUME NEW s \in Splits(ps)
       PROVE  /\ data \o s.done \in Segments /\ Headed(data \o s.done) /\ Rising(data \o s.done)
  <2>1. PICK d : d = data \o s.done
    OBVIOUS
  <2>2. d = Extended(data, s.done) /\ d \in Segments /\ Headed(d)
    BY <1>5, <1>6, <2>1, HeadedExtended
  <2>3. ps \in Seq(Pieces(Contents)) /\ Len(f) \in Nat
    BY <1>6, <1>8, <1>9, LogPieces
  <2>4. Len(d) \in 0..Len(f) /\ \A j \in 1..Len(d) : d[j].rec = f[j].rec
    BY <1>4, <1>5, <1>6, <2>2, <2>3, SplitJoins, SMTT(30)
  <2>5. Rising(d)
    BY <1>12, <2>3, <2>4, RisingPrefix DEF RecPrefix
  <2>6. QED
    BY <2>1, <2>2, <2>5
<1>15. QED
  BY <1>1, <1>2, <1>3, <1>6, <1>12, <1>13, <1>14

(* A write that leaves the buffer empty and the rest of the call alone.    *)
LEMMA WrittenOut ==
  ASSUME WalInv, WalInv', Ordered, Opened, Write(handle, Stream), wbuf' = <<>>,
         UNCHANGED <<active, handle, todo>>, RisingRecs(live'),
         wpc' \notin {"cksync", "ckrename"}
  PROVE  Ordered'
<1>1. FilesOrdered' /\ DataOf(handle)' = Stream
  BY StreamIs, FilesWritten DEF Ordered
<1>2. Stream' = Stream /\ Rising(Stream')
  BY <1>1, StreamNow
<1>3. QED
  BY <1>1, <1>2 DEF Ordered, CallsOrdered

(* The steps of append_batch and of flush keep Ordered: a frame goes to    *)
(* the end of the stream, and after a failed write the rest of the buffer  *)
(* still follows what was written.                                         *)
LEMMA AppendingOrdered ==
  ASSUME WalInv, WalInv', Ordered, WAppending PROVE Ordered'
<1>1. Opened /\ UNCHANGED <<active, handle, temp>> /\ wpc' \notin {"cksync", "ckrename"}
      /\ (live' = live \/ live' = <<>>) /\ RisingRecs(live')
  BY NothingRises DEF WAppending, Copy, Spill, WriteThrough, FlushBuffer, Commit, BufferWriteFails,
     WriteThroughFails, StepFails, writer, names, callVars, Opened, WFails, WGoto, WAnswer, WCallEnds,
     Ordered, CallsOrdered
<1>2. CASE Copy
  <2>1. todo # <<>> /\ wbuf' = Append(wbuf, Frame(Head(todo))) /\ todo' = Tail(todo) /\ file' = file
    BY <1>2 DEF Copy
  <2>2. FilesOrdered'
    BY <1>1, <2>1, FilesQuiet DEF Ordered
  <2>3. Head(todo) \in LogRecords /\ todo \in Seq(LogRecords)
    BY <2>1, TodoIs DEF WalInv, WalTypes
  <2>4. PICK p : p = Frame(Head(todo))
    OBVIOUS
  <2>5. p \in LogPiece /\ p.from = 0 /\ p.rec = Head(todo)
    BY <2>3, <2>4, FrameIs
  <2>6. Stream' = Extended(DataOf(handle), Append(wbuf, p))
    BY <1>1, <2>1, <2>4 DEF Stream, DataOf
  <2>7. /\ Len(Stream) \in Nat /\ Len(Stream') = Len(Stream) + 1
        /\ \A j \in 1..Len(Stream) : Stream'[j].rec = Stream[j].rec
        /\ Stream'[Len(Stream) + 1].rec = p.rec
    BY <1>1, <2>5, <2>6, StreamIs, ExtendedAppend DEF Stream
  <2>8. Rising(Stream) /\ RisingRecs(todo) /\ Under(Stream, todo)
    BY DEF Ordered, CallsOrdered
  <2>9. Rising(Stream') /\ Under(Stream', Tail(todo)) /\ RisingRecs(Tail(todo))
    BY <2>1, <2>3, <2>5, <2>7, <2>8, NextRises
  <2>10. QED
    BY <1>1, <2>1, <2>2, <2>9 DEF Ordered, CallsOrdered
<1>3. CASE Spill \/ FlushBuffer
  <2>1. Write(handle, Stream) /\ wbuf' = <<>> /\ todo' = todo
    BY <1>3 DEF Spill, FlushBuffer, callVars, Stream
  <2>2. QED
    BY <1>1, <2>1, WrittenOut
<1>4. CASE BufferWriteFails
  <2>1. PICK s \in Splits(wbuf) :
          Write(handle, Extended(DataOf(handle), s.done)) /\ wbuf' = s.rest
    BY <1>4 DEF BufferWriteFails, Stopped
  <2>2. todo' = <<>>
    BY <1>4 DEF BufferWriteFails, WFails, WCallEnds
  <2>3. PICK d : d = Extended(DataOf(handle), s.done)
    OBVIOUS
  <2>4. d \in Segments /\ Headed(d) /\ Rising(d) /\ Rising(Extended(d, s.rest)) /\ wpc # "closed"
    BY <1>1, <2>3, StreamIs
  <2>5. FilesOrdered' /\ DataOf(handle)' = d
    BY <1>1, <2>1, <2>3, <2>4, FilesWritten DEF Ordered
  <2>6. Stream' = Extended(d, s.rest)
    BY <2>1, <2>5 DEF Stream
  <2>7. QED
    BY <1>1, <2>2, <2>4, <2>5, <2>6, NothingRises DEF Ordered, CallsOrdered
<1>5. CASE WriteThrough
  <2>1. /\ todo # <<>> /\ Write(handle, Append(DataOf(handle), Frame(Head(todo))))
        /\ wbuf' = wbuf /\ todo' = Tail(todo) /\ wbuf = <<>>
    BY <1>5 DEF WriteThrough, writer, Bypasses
  <2>2. PICK d : d = Append(DataOf(handle), Frame(Head(todo)))
    OBVIOUS
  <2>3. /\ d \in Segments /\ Headed(d) /\ Rising(d) /\ Under(d, Tail(todo))
        /\ RisingRecs(Tail(todo)) /\ wpc # "closed"
    BY <1>1, <2>1, <2>2, FrameStream, StreamIs
  <2>4. FilesOrdered' /\ DataOf(handle)' = d
    BY <1>1, <2>1, <2>2, <2>3, FilesWritten DEF Ordered
  <2>5. Stream' = d /\ Rising(Stream')
    BY <2>1, <2>4, StreamNow
  <2>6. QED
    BY <1>1, <2>1, <2>3, <2>4, <2>5 DEF Ordered, CallsOrdered
<1>6. CASE WriteThroughFails
  <2>1. PICK s \in Splits(<<Frame(Head(todo))>>) : Write(handle, DataOf(handle) \o s.done)
    BY <1>6 DEF WriteThroughFails, Stopped
  <2>2. todo' = <<>> /\ todo # <<>> /\ wbuf = <<>> /\ wbuf' = <<>>
    BY <1>6 DEF WriteThroughFails, WFails, WCallEnds, Bypasses, writer
  <2>3. PICK d : d = DataOf(handle) \o s.done
    OBVIOUS
  <2>4. d \in Segments /\ Headed(d) /\ Rising(d) /\ wpc # "closed"
    BY <1>1, <2>1, <2>2, <2>3, FrameStream, StreamIs
  <2>5. FilesOrdered'
    BY <1>1, <2>1, <2>3, <2>4, FilesWritten DEF Ordered
  <2>6. QED
    BY <1>1, <2>2, <2>5, CallsNone DEF Ordered
<1>7. CASE Commit
  <2>1. todo' = <<>> /\ wbuf' = wbuf
    BY <1>7 DEF Commit, WCallEnds, writer
  <2>2. FilesOrdered' /\ DataOf(handle)' = DataOf(handle)
    <3>1. CASE Sync(handle)
      <4>1. handle \in Inodes
        BY <1>1, StreamIs
      <4>2. QED
        BY <1>1, <3>1, <4>1, FilesSynced DEF Ordered
    <3>2. CASE file' = file
      BY <1>1, <3>2, FilesQuiet DEF Ordered, DataOf
    <3>3. QED
      BY <1>7, <3>1, <3>2 DEF Commit
  <2>3. QED
    BY <1>1, <2>1, <2>2, CallsSame DEF Ordered
<1>8. CASE StepFails
  <2>1. todo' = <<>> /\ wbuf' = wbuf /\ file' = file
    BY <1>8 DEF StepFails, WFails, WCallEnds, writer
  <2>2. QED
    BY <1>1, <2>1, FilesQuiet, CallsSame DEF Ordered, DataOf
<1>9. QED
  BY <1>2, <1>3, <1>4, <1>5, <1>6, <1>7, <1>8 DEF WAppending

(* The steps of checkpoint keep Ordered: collect_live keeps the order of   *)
(* the log.                                                                *)
LEMMA CheckpointingOrdered ==
  ASSUME WalInv, WalInv', Ordered, WCheckpointing PROVE Ordered'
<1>1. /\ Opened /\ wpc # "closed" /\ todo' = <<>> /\ todo = <<>> /\ Opened'
      /\ handle \in Inodes /\ active \in Inodes /\ DataOf(active) \in Segments
      /\ DataOf(active) = file[active].data /\ DataOf(handle) = file[handle].data
      /\ Headed(DataOf(active)) /\ Headed(DataOf(handle)) /\ handle # 0 /\ active # 0
      /\ file \in [Inodes -> File]
  <2>1. Opened /\ wpc # "closed" /\ wpc # "write" /\ (todo' = todo \/ todo' = <<>>) /\ Opened'
    BY DEF WCheckpointing, Collect, WriteTemp, SyncTemp, Rename, SyncDir, Reopen, Opened, callVars,
           WCallEnds, WGoto, WAnswer
  <2>2. todo = <<>>
    BY <2>1 DEF WalInv, Names
  <2>3. QED
    BY <2>1, <2>2, HandleIs, NoCall DEF Ordered, FilesOrdered, WalInv, WalTypes
<1>2. CASE Collect
  <2>1. Write(handle, Stream) /\ wbuf' = <<>> /\ UNCHANGED <<active, handle, todo>> /\ wpc' = "ckwrite"
    BY <1>2 DEF Collect, Stream, names, WGoto
  <2>2. RisingRecs(live')
    <3>1. Cover(LogRecords)
      BY <1>1, <1>2 DEF WalInv, WalTypes, Cover, File, Segments, LogPiece, Collect
    <3>2. PICK data \in SegmentsOf(LogRecords) :
            /\ live' = Survivors(data, upTo)
            /\ data = IF active = handle THEN Extended(DataOf(handle), wbuf) ELSE DataOf(active)
      BY <1>2, <3>1, CollectFrom
    <3>3. data \in Segments /\ (data = Stream \/ data = DataOf(active))
      BY <3>2 DEF Stream, Segments
    <3>4. Segment(data)
      <4>1. Segment(Stream)
        BY <1>1, StreamIs, HeadedSegment
      <4>2. Segment(DataOf(active))
        BY <1>1 DEF Ordered, FilesOrdered
      <4>3. QED
        BY <3>3, <4>1, <4>2
    <3>5. RisingRecs(Log(data))
      BY <3>3, <3>4, LogRises
    <3>6. QED
      BY <3>2, <3>5, SurvivorsOf
  <2>3. QED
    BY <1>1, <2>1, <2>2, WrittenOut
<1>3. CASE WriteTemp
  <2>1. /\ temp' \in Inodes /\ temp' \notin {active, handle} \union stale
        /\ file'[temp'] = [data |-> <<Header>> \o Frames(live), hard |-> <<>>]
        /\ \A j \in Inodes : j # temp' => file'[j] = file[j]
    BY <1>3, TempStep
  <2>2. UNCHANGED <<active, handle, wbuf, todo, live>>
    BY <1>3 DEF WriteTemp, writer, callVars
  <2>3. Headed(<<Header>> \o Frames(live)) /\ Rising(<<Header>> \o Frames(live))
    BY TempRises DEF Ordered, CallsOrdered, WalInv, WalTypes
  <2>4. Headed(file'[temp'].data) /\ Segment(file'[temp'].data) /\ Segment(file'[temp'].hard)
    BY <2>1, <2>3, HeadedSegment, NothingRises
  <2>5. DataOf(handle)' = DataOf(handle) /\ DataOf(active)' = DataOf(active)
    BY <1>1, <2>1, <2>2 DEF DataOf
  <2>6. FilesOrdered'
    BY <1>1, <2>1, <2>4, <2>5 DEF Ordered, FilesOrdered
  <2>7. QED
    BY <2>2, <2>5, <2>6, CallsSame DEF Ordered
<1>4. CASE SyncTemp
  <2>1. /\ UNCHANGED <<active, handle, temp, wbuf, todo, live>> /\ wpc = "cksync" /\ Sync(temp)
    BY <1>4 DEF SyncTemp, writer, names, callVars
  <2>2. temp \in Inodes
    BY <2>1 DEF WalInv, WalTypes, Names
  <2>3. QED
    BY <1>1, <2>1, <2>2, FilesSynced, CallsSame DEF Ordered
<1>5. CASE Rename
  <2>1. /\ active' = temp /\ wpc' = "ckdir" /\ wpc = "ckrename"
        /\ UNCHANGED <<file, handle, wbuf, todo, live>>
    BY <1>5 DEF Rename, writer, callVars, WGoto
  <2>2. temp # 0 /\ Headed(file[temp].data)
    BY <2>1 DEF Ordered, FilesOrdered, WalInv, Names
  <2>3. DataOf(active)' = file[temp].data /\ DataOf(handle)' = DataOf(handle)
    BY <2>1, <2>2 DEF DataOf
  <2>4. FilesOrdered'
    BY <1>1, <2>1, <2>2, <2>3 DEF Ordered, FilesOrdered
  <2>5. QED
    BY <2>1, <2>3, <2>4, CallsSame DEF Ordered
<1>6. CASE SyncDir
  <2>1. /\ file' = Reclaimed(file, {active, handle}) /\ wpc' = "ckreopen"
        /\ UNCHANGED <<active, handle, wbuf, todo, live>>
    BY <1>6 DEF SyncDir, writer, callVars, WGoto
  <2>2. /\ file'[active] = file[active] /\ file'[handle] = file[handle]
        /\ \A j \in Inodes : file'[j] = file[j] \/ file'[j] = Empty
    BY <1>1, <2>1, ReclaimedIs
  <2>3. \A j \in Inodes : Segment(file'[j].data) /\ Segment(file'[j].hard)
    BY <2>2, EmptyFile, NothingRises DEF Ordered, FilesOrdered
  <2>4. DataOf(handle)' = DataOf(handle) /\ DataOf(active)' = DataOf(active)
    BY <1>1, <2>1, <2>2 DEF DataOf
  <2>5. FilesOrdered'
    BY <1>1, <2>1, <2>3, <2>4 DEF Ordered, FilesOrdered
  <2>6. QED
    BY <2>1, <2>4, <2>5, CallsSame DEF Ordered
<1>7. CASE Reopen
  <2>1. /\ file' = Reclaimed(file, {active} \union stale) /\ wpc' = "ready"
        /\ handle' = active /\ active' = active /\ wbuf' = <<>> /\ live' = <<>>
    BY <1>7 DEF Reopen, names, WAnswer, WCallEnds
  <2>2. /\ file'[active] = file[active]
        /\ \A j \in Inodes : file'[j] = file[j] \/ file'[j] = Empty
    BY <1>1, <2>1, ReclaimedIs
  <2>3. \A j \in Inodes : Segment(file'[j].data) /\ Segment(file'[j].hard)
    BY <2>2, EmptyFile, NothingRises DEF Ordered, FilesOrdered
  <2>4. DataOf(handle)' = DataOf(active) /\ DataOf(active)' = DataOf(active)
    BY <1>1, <2>1, <2>2 DEF DataOf
  <2>5. FilesOrdered'
    BY <1>1, <2>1, <2>3, <2>4 DEF Ordered, FilesOrdered
  <2>6. QED
    BY <1>1, <2>1, <2>5, CallsNone, NothingRises DEF Ordered
<1>8. QED
  BY <1>2, <1>3, <1>4, <1>5, <1>6, <1>7 DEF WCheckpointing

(* A kill in the middle of a write leaves a segment.                       *)
LEMMA KilledSegment ==
  ASSUME WalInv, Ordered, handle # 0, NEW s \in Splits(Writing)
  PROVE  LET base == IF wpc = "header" THEN <<>> ELSE DataOf(handle)
         IN  Segment(Extended(base, s.done))
<1>1. wpc # "closed" /\ Cuts \subseteq Nat
  BY FilesAssumption DEF WalInv, Names
<1>2. CASE wpc = "header"
  <2>1. Writing = <<Header>>
    BY <1>2 DEF Writing
  <2>2. <<Header>> \in Segments /\ Segment(<<Header>>)
    BY SegmentOne, OneRises
  <2>3. Segment(s.done) /\ s.done \in Segments
    BY <1>1, <2>1, <2>2, CutSegment, SegmentCut
  <2>4. Extended(<<>>, s.done) = s.done
    <3>1. s.done \in Seq(Whole(Contents))
      BY <2>3, SegmentIs
    <3>2. s.done # <<>> => Head(s.done).from = 0
      BY <3>1, HeadTailProperties DEF Whole
    <3>3. ~(s.done # <<>> /\ Head(s.done).from > 0)
      BY <3>2
    <3>4. Extended(<<>>, s.done) = <<>> \o s.done
      BY <3>3 DEF Extended
    <3>5. QED
      BY <3>1, <3>4, ConcatEmptySeq
  <2>5. QED
    BY <1>2, <2>3, <2>4
<1>3. CASE wpc # "header" /\ Writing = wbuf
  <2>1. Opened
    BY <1>1, <1>3 DEF Opened
  <2>2. Segment(Extended(DataOf(handle), s.done))
    BY <1>3, <2>1, StreamIs, HeadedSegment
  <2>3. QED
    BY <1>3, <2>2
<1>4. CASE wpc # "header" /\ Writing = <<Frame(Head(todo))>> /\ todo # <<>> /\ wbuf = <<>>
  <2>1. Opened
    BY <1>1, <1>4 DEF Opened
  <2>2. Segment(Extended(DataOf(handle), s.done))
    BY <1>4, <2>1, FrameStream, HeadedSegment
  <2>3. QED
    BY <1>4, <2>2
<1>5. CASE wpc # "header" /\ Writing = <<>>
  <2>1. s.done = <<>>
    <3>1. <<>> \in Segments
      BY EmptyOf DEF Segments
    <3>2. s.done \in Seq(Whole(Contents)) /\ Len(s.done) \in 0..Len(<<>>)
      BY <1>1, <1>5, <3>1, CutIs, SegmentIs
    <3>3. Len(s.done) = 0
      BY <3>2, EmptySeq
    <3>4. QED
      BY <3>2, <3>3
  <2>2. DataOf(handle) \in Segments /\ handle \in Inodes /\ DataOf(handle) = file[handle].data
    BY <1>1, HandleIs
  <2>3. Extended(DataOf(handle), <<>>) = DataOf(handle)
    BY <2>2, SegmentIs, ExtendedSelf
  <2>4. QED
    BY <1>5, <2>1, <2>2, <2>3 DEF Ordered, FilesOrdered
<1>6. wpc = "write" => todo # <<>>
  BY DEF WalInv, Names
<1>7. QED
  BY <1>2, <1>3, <1>4, <1>5, <1>6 DEF Writing, Bypasses

(* Ordered says nothing of calls when the process is gone.                 *)
LEMMA GoneOrdered ==
  ASSUME WalInv', WriterGone,
         \A i \in Inodes : Segment(file'[i].data) /\ Segment(file'[i].hard)
  PROVE  Ordered'
<1>1. wpc' = "closed" /\ todo' = <<>> /\ live' = <<>> /\ wbuf' = <<>>
  BY WriterGoneTypes
<1>2. FilesOrdered'
  BY <1>1 DEF FilesOrdered, Opened
<1>3. QED
  BY <1>1, <1>2, CallsNone, NothingRises DEF Ordered

(* A kill, wherever it stops a write, keeps Ordered.                       *)
LEMMA KillOrdered ==
  ASSUME WalInv, WalInv', Ordered, WKill PROVE Ordered'
<1>1. WriterGone
  BY DEF WKill
<1>2. PICK s \in Splits(Writing) :
        LET base == IF wpc = "header" THEN <<>> ELSE DataOf(handle)
            f    == IF handle = 0 \/ s.done = <<>> THEN file
                    ELSE [file EXCEPT ![handle] = [data |-> Extended(base, s.done),
                                                   hard |-> @.hard]]
        IN  file' = Reclaimed(f, {active, temp} \union stale)
  BY DEF WKill
<1>3. file \in [Inodes -> File] /\ handle \in Inodes \union {0}
  BY DEF WalInv, WalTypes
<1>4. \A i \in Inodes : Segment(file[i].data) /\ Segment(file[i].hard)
  BY DEF Ordered, FilesOrdered
<1>5. ASSUME NEW f \in [Inodes -> File], file' = Reclaimed(f, {active, temp} \union stale),
             \A i \in Inodes : Segment(f[i].data) /\ Segment(f[i].hard)
      PROVE  \A i \in Inodes : Segment(file'[i].data) /\ Segment(file'[i].hard)
  <2>1. \A i \in Inodes : Reclaimed(f, {active, temp} \union stale)[i] = f[i]
                          \/ Reclaimed(f, {active, temp} \union stale)[i] = Empty
    BY <1>5, ReclaimedIs
  <2>2. QED
    BY <1>5, <2>1, EmptyFile, NothingRises
<1>6. CASE handle = 0 \/ s.done = <<>>
  <2>1. file' = Reclaimed(file, {active, temp} \union stale)
    BY <1>2, <1>6
  <2>2. QED
    BY <1>1, <1>3, <1>4, <1>5, <2>1, GoneOrdered
<1>7. CASE ~(handle = 0 \/ s.done = <<>>)
  <2> DEFINE base == IF wpc = "header" THEN <<>> ELSE DataOf(handle)
  <2>1. handle \in Inodes /\ Extended(base, s.done) \in Segments
    BY <1>7, WritingIs
  <2>2. Segment(Extended(base, s.done))
    BY <1>7, KilledSegment
  <2>3. PICK g : g = [data |-> Extended(base, s.done), hard |-> file[handle].hard]
    OBVIOUS
  <2>4. g \in File /\ Segment(g.data) /\ Segment(g.hard)
    BY <1>3, <1>4, <2>1, <2>2, <2>3 DEF File
  <2>5. PICK f : f = [file EXCEPT ![handle] = g]
    OBVIOUS
  <2>6. f \in [Inodes -> File] /\ \A i \in Inodes : f[i] = g \/ f[i] = file[i]
    BY <1>3, <2>1, <2>4, <2>5
  <2>7. file' = Reclaimed(f, {active, temp} \union stale)
    BY <1>2, <1>7, <2>3, <2>5
  <2>8. \A i \in Inodes : Segment(f[i].data) /\ Segment(f[i].hard)
    BY <1>4, <2>4, <2>6
  <2>9. QED
    BY <1>1, <1>5, <2>6, <2>7, <2>8, GoneOrdered
<1>8. QED
  BY <1>6, <1>7

(* So does a power loss.                                                   *)
LEMMA PowerLossOrdered ==
  ASSUME WalInv, WalInv', Ordered, WPowerLoss PROVE Ordered'
<1>1. PICK i \in stale \union {active} :
        \E d \in (IF i = 0 THEN {<<>>} ELSE Images(file[i])) :
          file' = [j \in Inodes |-> IF j = i THEN [data |-> d, hard |-> d] ELSE Empty]
  BY DEF WPowerLoss
<1>2. PICK d \in (IF i = 0 THEN {<<>>} ELSE Images(file[i])) :
          file' = [j \in Inodes |-> IF j = i THEN [data |-> d, hard |-> d] ELSE Empty]
  BY <1>1
<1>3. i \in Inodes \union {0} /\ file \in [Inodes -> File]
  BY DEF WalInv, WalTypes
<1>4. Segment(d)
  BY <1>2, <1>3, ImageSegmented, NothingRises DEF Ordered, FilesOrdered
<1>5. \A j \in Inodes : Segment(file'[j].data) /\ Segment(file'[j].hard)
  BY <1>2, <1>4, EmptyFile, NothingRises
<1>6. WriterGone
  BY DEF WPowerLoss
<1>7. QED
  BY <1>5, <1>6, GoneOrdered

(* Ordered depends only on the files and the call under way.               *)
LEMMA OrderedSame ==
  ASSUME Ordered, UNCHANGED <<file, active, temp, handle, wbuf, todo, live, wpc>>
  PROVE  Ordered'
  BY DEF Ordered, FilesOrdered, CallsOrdered, Stream, Opened, DataOf

(* Ordered holds before the first start.                                   *)
LEMMA OrderedInitially == ASSUME WInit, WalInv PROVE Ordered
<1>1. \A i \in Inodes : /\ file[i].data \in {<<>>, <<Header>>}
                        /\ file[i].hard \in {<<>>, <<Header>>}
  BY DEF WInit, Empty
<1>2. \A i \in Inodes : Segment(file[i].data) /\ Segment(file[i].hard)
  BY <1>1, NothingRises, OneRises
<1>3. FilesOrdered
  BY <1>2 DEF WInit, FilesOrdered, Opened
<1>4. Stream = <<>>
  <2>1. DataOf(handle) = <<>> /\ wbuf = <<>> /\ <<>> \in Seq(Contents)
    BY EmptySeq DEF WInit, DataOf
  <2>2. QED
    BY <2>1, ExtendedSelf DEF Stream
<1>5. QED
  BY <1>3, <1>4, NothingRises DEF WInit, Ordered, CallsOrdered


-----------------------------------------------------------------------------
(* The engine numbers its batches above the log                            *)

(* The records with an LSN below n.                                        *)
Below(n) == {r \in LogRecords : r.lsn < n}

(* No LSN in the log is one the engine will still give out.                *)
Numbered ==
  /\ step # "starting" => Cover(Below(nextLsn))
  /\ wpc \in {"rsync", "rdir"} \/ wans = "started" =>
       DataOf(active) \in SegmentsOf(Below(lastLsn + 1))

(* What recover keeps is no higher than the LSN it starts from.            *)
LEMMA RecoveredBelow ==
  ASSUME NEW d \in Segments, Headed(d), Rising(d), NEW n,
         n = Max({0} \union LsnsOf(Recs(d)))
  PROVE  n \in Nat /\ Good(d) \in SegmentsOf(Below(n + 1))
<1>1. /\ d \in Seq(Whole(Contents)) /\ HEADER_LEN < U32
      /\ Log(d) \in Seq(LogRecords)
  BY SegmentIs, SegmentLog, FilesAssumption
<1>2. /\ n \in Nat /\ \A k \in 1..Len(Log(d)) : Log(d)[k].lsn <= n
  BY <1>1, HighestIs DEF Recs
<1>3. /\ Headed(Good(d)) /\ Len(Good(d)) \in Nat \ {0}
      /\ Len(Good(d)) <= Len(d)
      /\ \A k \in 1..Len(Good(d)) : Good(d)[k] = d[k]
  BY GoodSegment
<1>4. Good(d) \in Segments /\ Good(d) \in Seq(Whole(Contents))
  BY <1>1, SegmentGood, SegmentIs
<1>5. PICK m \in Nat : m = Len(Good(d)) /\ m > 0
  BY <1>3
<1>6. Log(d) = [k \in 1..(m - 1) |-> d[k + 1].rec]
  BY <1>5 DEF Log, Headed
<1>7. Len(Log(d)) = m - 1 /\ \A k \in 1..(m - 1) : Log(d)[k] = d[k + 1].rec
  <2>1. DOMAIN Log(d) = 1..(m - 1) /\ m - 1 \in Nat
    BY <1>5, <1>6
  <2>2. Len(Log(d)) = m - 1
    BY <1>1, <2>1, LenProperties
  <2>3. QED
    BY <1>6, <2>2
<1>8. ASSUME NEW k \in 2..m
      PROVE  Good(d)[k].rec \in Below(n + 1)
  <2>1. PICK j : j = k - 1
    OBVIOUS
  <2>2. j \in 1..(m - 1) /\ k = j + 1 /\ k \in 1..m
    BY <1>5, <2>1
  <2>3. Good(d)[k].rec = Log(d)[j]
    BY <1>3, <1>5, <1>7, <2>2
  <2>4. Log(d)[j].lsn <= n
    BY <1>2, <1>7, <2>2
  <2>5. Log(d)[j] \in LogRecords
    BY <1>1, <1>7, <2>2
  <2>6. Log(d)[j].lsn < n + 1
    BY <1>2, <2>4, <2>5, RecordIs
  <2>7. QED
    BY <2>3, <2>5, <2>6 DEF Below
<1>9. ASSUME NEW k \in 1..m
      PROVE  Good(d)[k] \in Whole(Below(n + 1) \union {Header.rec})
  <2>1. PICK p : p = Good(d)[k]
    OBVIOUS
  <2>2. p \in Whole(Contents)
    BY <1>4, <1>5, <2>1
  <2>3. p.rec \in Below(n + 1) \union {Header.rec}
    <3>1. CASE k = 1
      BY <1>3, <2>1, <3>1 DEF Headed
    <3>2. CASE k # 1
      <4>1. k \in 2..m
        BY <1>5, <3>2
      <4>2. QED
        BY <1>8, <2>1, <4>1
    <3>3. QED
      BY <3>1, <3>2
  <2>4. /\ p \in [rec : Contents, len : Nat, from : Nat, to : Nat]
        /\ p.from = 0 /\ p.from < p.to /\ p.to <= p.len
    BY <2>2 DEF Whole, Pieces
  <2>5. p \in [rec : Below(n + 1) \union {Header.rec}, len : Nat, from : Nat, to : Nat]
    BY <2>3, <2>4
  <2>6. QED
    BY <2>1, <2>4, <2>5 DEF Whole, Pieces
<1>10. Good(d) \in Seq(Whole(Below(n + 1) \union {Header.rec}))
  BY <1>4, <1>5, <1>9, SeqIntro
<1>11. QED
  BY <1>2, <1>5, <1>8, <1>10 DEF SegmentsOf

(* Cover depends only on the files and the call under way.                 *)
LEMMA CoverSame ==
  ASSUME NEW Q, Cover(Q),
         UNCHANGED <<file, active, temp, handle, wbuf, todo, live, wpc>>
  PROVE  Cover(Q)'
  BY DEF Cover

(* recover starts LSNs above all it found.                                 *)
LEMMA NumberedStarting ==
  ASSUME WalInv, Ordered, Numbered, WStarting, wans # "started"
  PROVE  wpc' \in {"rsync", "rdir"} \/ wans' = "started" =>
           DataOf(active)' \in SegmentsOf(Below(lastLsn' + 1))
<1>1. CASE Open \/ WriteHeader \/ SyncHeader
  BY <1>1 DEF Open, WriteHeader, SyncHeader, WGoto
<1>2. CASE Recover
  <2>1. wpc = "recover" /\ active' = active /\ handle = active
        /\ lastLsn' = Max({0} \union LsnsOf(Recs(DataOf(active))))
    BY <1>2 DEF Recover, names, OnDisk, WalInv, Names, AtStart
  <2>2. DataOf(active) \in Segments /\ active \in Inodes /\ active # 0
        /\ DataOf(active) = file[active].data
    BY <2>1, HandleIs, NoCall
  <2>3. Headed(DataOf(active)) /\ Rising(DataOf(active))
    BY <2>1, <2>2 DEF Ordered, FilesOrdered, Opened, Segment
  <2>4. Good(DataOf(active)) \in SegmentsOf(Below(lastLsn' + 1))
        /\ Good(DataOf(active)) \in Segments
    BY <2>1, <2>2, <2>3, RecoveredBelow, SegmentGood, FilesAssumption
  <2>5. DataOf(active)' = Good(DataOf(active))
    <3>1. CASE Good(DataOf(active)) = DataOf(active)
      <4>1. file' = file
        BY <1>2, <3>1 DEF Recover
      <4>2. QED
        BY <2>1, <3>1, <4>1 DEF DataOf
    <3>2. CASE Good(DataOf(active)) # DataOf(active)
      <4>1. Write(active, Good(DataOf(active)))
        BY <1>2, <3>2 DEF Recover
      <4>2. file'[active].data = Good(DataOf(active))
        BY <2>2, <2>4, <4>1, WriteIs DEF WalInv
      <4>3. QED
        BY <2>1, <2>2, <4>2 DEF DataOf
    <3>3. QED
      BY <3>1, <3>2
  <2>6. QED
    BY <2>4, <2>5
<1>3. CASE SyncCut
  <2>1. wpc = "rsync" /\ Sync(active) /\ active' = active /\ lastLsn' = lastLsn
    BY <1>3 DEF SyncCut, names
  <2>2. active \in Inodes /\ active # 0
    BY <2>1, HandleIs, NoCall
  <2>3. DataOf(active)' = DataOf(active)
    BY <2>1, <2>2, SyncIs DEF WalInv, DataOf
  <2>4. QED
    BY <2>1, <2>3 DEF Numbered
<1>4. CASE SyncCutName
  BY <1>4 DEF SyncCutName, Numbered, DataOf
<1>5. QED
  BY <1>1, <1>2, <1>3, <1>4 DEF WStarting

(* Every step keeps Numbered: only append_batch brings new records in, and *)
(* their LSNs are below the new next_lsn.                                  *)
LEMMA NumberedStep ==
  ASSUME TypeInv, Shape, Shape', Ordered, Numbered, [Next]_vars PROVE Numbered'
<1>1. nextLsn \in Nat \ {0} /\ lastLsn \in Nat /\ WalInv /\ WalTypes
  BY DEF TypeInv, EngineTypes, WalInv, WalTypes
<1>2. ASSUME NEW R, R = Below(nextLsn'), Cover(R)', step' # "starting"
      PROVE  Numbered'
  BY <1>2 DEF Numbered, Shape, AtStart
<1>3. PICK Q : Q = Below(nextLsn)
  OBVIOUS
<1>4. Q \subseteq LogRecords
  BY <1>3 DEF Below
<1>5. CASE \/ UNCHANGED vars \/ StartStore \/ Retry \/ StoreWorks
           \/ DurableAnswered \/ Logged \/ Requeue \/ Trimmed
           \/ \E w \in Plain \union Durable : Accept(w)
  <2>1. UNCHANGED walVars /\ nextLsn' = nextLsn /\ (step' = "starting") = (step = "starting")
    BY <1>5 DEF vars, StartStore, Retry, StoreWorks, Accept, DurableAnswered, Logged, Requeue,
                Trimmed, engineVars
  <2>2. UNCHANGED <<file, active, temp, handle, wbuf, todo, live, wpc, wans, lastLsn>>
    BY <2>1 DEF walVars, names, writer, callVars
  <2>3. CASE step' # "starting"
    <3>1. Cover(Q)
      BY <1>3, <2>1, <2>3 DEF Numbered
    <3>2. Cover(Q)'
      BY <2>2, <3>1, CoverSame
    <3>3. QED
      BY <1>2, <1>3, <2>1, <2>3, <3>2
  <2>4. CASE step' = "starting"
    BY <2>2, <2>4 DEF Numbered, DataOf
  <2>5. QED
    BY <2>3, <2>4
<1>6. CASE StartLog
  <2>1. WStarting /\ step' = "starting" /\ wpc \in AtStart
    BY <1>6, StepsOfLog DEF StartLog, engineVars
  <2>2. wans # "started"
    BY <2>1 DEF TypeInv, WalInv, Names, AtStart
  <2>3. QED
    BY <1>1, <2>1, <2>2, NumberedStarting DEF Numbered
<1>7. CASE Started
  <2>1. /\ UNCHANGED <<file, active, temp, handle, wbuf, todo, live, wpc>>
        /\ nextLsn' = lastLsn + 1 /\ wans = "started" /\ step' = "idle"
    BY <1>7 DEF Started, names, writer, callVars
  <2>2. /\ wpc = "ready" /\ wbuf = <<>> /\ todo = <<>> /\ handle = active
        /\ DataOf(active) = file[active].data
    BY <1>1, <2>1, HandleIs DEF WalInv, Names
  <2>3. PICK R : R = Below(lastLsn + 1)
    OBVIOUS
  <2>4. file[active].data \in SegmentsOf(R)
    BY <2>1, <2>2, <2>3 DEF Numbered
  <2>5. Cover(R)
    BY <2>2, <2>4, NothingOf DEF Cover
  <2>6. Cover(R)'
    BY <2>1, <2>5, CoverSame
  <2>7. QED
    BY <1>2, <2>1, <2>3, <2>6
<1>8. CASE Flush \/ \E w \in Plain \union Durable : SubmitDurable(w)
  <2>1. PICK ws \in Seq(Value), call \in {"flush", "durable"} : step = "idle" /\ LogBatch(ws, call)
    BY <1>8, LoggedWrites
  <2>2. AppendBatch(Stamped(ws)) /\ nextLsn' = nextLsn + Len(ws) /\ step' = call
    BY <2>1 DEF LogBatch
  <2>3. /\ Stamped(ws) \in Seq(LogRecords) /\ Len(Stamped(ws)) = Len(ws)
        /\ \A k \in 1..Len(ws) : Stamped(ws)[k].lsn = nextLsn + k - 1
    BY <1>1, StampedLogs
  <2>4. PICK R : R = Below(nextLsn')
    OBVIOUS
  <2>5. PICK n \in Nat : n = Len(ws)
    OBVIOUS
  <2>6. Q \subseteq R
    <3>1. \A r \in Q : r \in LogRecords /\ r.lsn < nextLsn /\ r.lsn \in Nat
      BY <1>3, RecordIs DEF Below
    <3>2. \A r \in Q : r.lsn < nextLsn'
      BY <1>1, <2>2, <2>5, <3>1
    <3>3. QED
      BY <2>4, <3>1, <3>2 DEF Below
  <2>7. \A k \in 1..Len(Stamped(ws)) : Stamped(ws)[k] \in R
    <3>1. ASSUME NEW k \in 1..n PROVE Stamped(ws)[k] \in R
      <4>1. Stamped(ws)[k] \in LogRecords /\ Stamped(ws)[k].lsn = nextLsn + k - 1
        BY <2>3, <2>5
      <4>2. nextLsn + k - 1 < nextLsn'
        BY <1>1, <2>2, <2>5
      <4>3. QED
        BY <2>4, <4>1, <4>2 DEF Below
    <3>2. QED
      BY <2>3, <2>5, <3>1
  <2>8. Stamped(ws) \in Seq(R)
    BY <2>3, <2>7, SeqIntro
  <2>9. Cover(Q)
    BY <1>3, <2>1 DEF Numbered
  <2>10. Cover(R)'
    BY <2>2, <2>6, <2>8, <2>9, CallsCovered
  <2>11. QED
    BY <1>2, <2>2, <2>4, <2>10
<1>9. CASE Persisted \/ FlushLog
  <2>1. /\ FlushCall \/ \E n \in Nat : CheckpointCall(n)
        /\ step # "starting" /\ step' # "starting" /\ nextLsn' = nextLsn
    BY <1>1, <1>9 DEF Persisted, FlushLog
  <2>2. Cover(Q)
    BY <1>3, <2>1 DEF Numbered
  <2>3. Cover(Q)'
    BY <2>1, <2>2, CallsCovered
  <2>4. QED
    BY <1>2, <1>3, <2>1, <2>3
<1>10. CASE LogWorks
  <2>1. (WAppending \/ WCheckpointing) /\ step' = step /\ nextLsn' = nextLsn
    BY <1>10 DEF LogWorks, engineVars
  <2>2. wans = "started" => wpc = "ready"
    BY <1>1 DEF WalInv, Names
  <2>3. step # "starting"
    BY <2>1, <2>2, StepsOfLog DEF Shape
  <2>4. Cover(Q)
    BY <1>3, <2>3 DEF Numbered
  <2>5. Cover(Q)'
    BY <1>1, <1>4, <2>1, <2>4, AppendingCovered, CheckpointingCovered
  <2>6. QED
    BY <1>2, <1>3, <2>1, <2>3, <2>5
<1>11. CASE Kill \/ PowerLoss
  <2>1. step' = "starting" /\ wpc' = "closed" /\ wans' = "none"
    BY <1>11, WriterGoneTypes DEF Kill, PowerLoss, WKill, WPowerLoss, EngineGone
  <2>2. QED
    BY <2>1 DEF Numbered
<1>12. QED
  BY <1>5, <1>6, <1>7, <1>8, <1>9, <1>10, <1>11 DEF Next

(* A batch with the LSNs from n on rises above a log below n.              *)
LEMMA BatchAbove ==
  ASSUME WalInv, NEW n \in Nat \ {0}, Cover(Below(n)), wpc # "closed",
         NEW recs \in Seq(LogRecords), \A k \in 1..Len(recs) : recs[k].lsn = n + k - 1
  PROVE  RisingRecs(recs) /\ Under(Stream, recs)
<1>1. PICK Q : Q = Below(n)
  OBVIOUS
<1>2. Stream \in SegmentsOf(Q)
  BY <1>1, HandleOf DEF Stream
<1>3. Stream \in Seq(Whole(Q \union {Header.rec}))
  BY <1>2 DEF SegmentsOf
<1>4. \A j \in 1..Len(Stream) : Stream[j] \in Whole(Q \union {Header.rec})
  BY <1>3
<1>5. \A p \in Whole(Q \union {Header.rec}) : p.rec \in Q \union {Header.rec}
  BY DEF Whole, Pieces
<1>6. \A r \in Q \union {Header.rec} : r.lsn \in Nat /\ r.lsn < n
  BY <1>1, RecordIs, HeaderIs DEF Below
<1>7. \A j \in 1..Len(Stream) : Stream[j].rec.lsn \in Nat /\ Stream[j].rec.lsn < n
  BY <1>4, <1>5, <1>6
<1>8. PICK m \in Nat : m = Len(recs)
  OBVIOUS
<1>9. \A k \in 1..m : recs[k].lsn = n + k - 1 /\ n + k - 1 >= n
  BY <1>8
<1>10. RisingRecs(recs)
  <2>1. \A j, k \in 1..m : j < k => n + j - 1 < n + k - 1
    OBVIOUS
  <2>2. QED
    BY <1>8, <1>9, <2>1 DEF RisingRecs
<1>11. Under(Stream, recs)
  <2>1. ASSUME NEW j \in 1..Len(Stream), NEW k \in 1..m
        PROVE  Stream[j].rec.lsn < recs[k].lsn
    <3>1. PICK x \in Nat : x = Stream[j].rec.lsn /\ x < n
      BY <1>7
    <3>2. recs[k].lsn = n + k - 1
      BY <1>9
    <3>3. x < n + k - 1
      BY <3>1
    <3>4. QED
      BY <3>1, <3>2, <3>3
  <2>2. QED
    BY <1>8, <2>1 DEF Under
<1>12. QED
  BY <1>10, <1>11

(* Every step of the system keeps Ordered; where append_batch is called,   *)
(* Numbered says that its LSNs are above those of the log.                 *)
LEMMA OrderedStep ==
  ASSUME TypeInv, TypeInv', Shape, Numbered, Ordered, [Next]_vars PROVE Ordered'
<1>1. WalInv /\ WalInv' /\ nextLsn \in Nat \ {0}
  BY DEF TypeInv, EngineTypes
<1>2. CASE \/ UNCHANGED vars \/ StartStore \/ Retry \/ StoreWorks
           \/ DurableAnswered \/ Logged \/ Requeue \/ Trimmed \/ Started
           \/ \E w \in Plain \union Durable : Accept(w)
  <2>1. UNCHANGED <<file, active, temp, handle, wbuf, todo, live, wpc>>
    BY <1>2 DEF vars, StartStore, Retry, StoreWorks, Accept, DurableAnswered, Logged, Requeue,
                Trimmed, Started, walVars, names, writer, callVars
  <2>2. QED
    BY <2>1, OrderedSame
<1>3. CASE StartLog
  BY <1>1, <1>3, StartingOrdered DEF StartLog
<1>4. CASE Flush \/ \E w \in Plain \union Durable : SubmitDurable(w)
  <2>1. PICK ws \in Seq(Value), call \in {"flush", "durable"} : step = "idle" /\ LogBatch(ws, call)
    BY <1>4, LoggedWrites
  <2>2. AppendBatch(Stamped(ws)) /\ wpc # "closed"
    BY <2>1 DEF LogBatch, AppendBatch
  <2>3. /\ Stamped(ws) \in Seq(LogRecords) /\ Len(Stamped(ws)) = Len(ws)
        /\ \A k \in 1..Len(ws) : Stamped(ws)[k].lsn = nextLsn + k - 1
    BY <1>1, StampedLogs
  <2>4. Cover(Below(nextLsn))
    BY <2>1 DEF Numbered
  <2>5. RisingRecs(Stamped(ws)) /\ Under(Stream, Stamped(ws))
    <3>1. PICK n \in Nat \ {0} : n = nextLsn
      BY <1>1
    <3>2. PICK recs \in Seq(LogRecords) : recs = Stamped(ws)
      BY <2>3
    <3>3. Cover(Below(n)) /\ \A k \in 1..Len(recs) : recs[k].lsn = n + k - 1
      BY <2>3, <2>4, <3>1, <3>2
    <3>4. QED
      BY <1>1, <2>2, <3>2, <3>3, BatchAbove
  <2>6. QED
    BY <2>2, <2>5, CallingOrdered
<1>5. CASE Persisted \/ FlushLog
  BY <1>5, CallingOrdered DEF Persisted, FlushLog
<1>6. CASE LogWorks
  BY <1>1, <1>6, AppendingOrdered, CheckpointingOrdered DEF LogWorks
<1>7. CASE Kill \/ PowerLoss
  BY <1>1, <1>7, KillOrdered, PowerLossOrdered DEF Kill, PowerLoss
<1>8. QED
  BY <1>2, <1>3, <1>4, <1>5, <1>6, <1>7 DEF Next

(* Where LSNs rise no frame is there twice.                                *)
LEMMA OrderedGives == TypeInv /\ Ordered => FrameOnce
<1> SUFFICES ASSUME TypeInv, Ordered, NEW d \in Leftovers \union {DataOf(handle)},
                    NEW j \in DOMAIN Log(d), NEW k \in DOMAIN Log(d),
                    Log(d)[j].lsn = Log(d)[k].lsn
             PROVE  j = k
  BY DEF FrameOnce
<1>1. WalInv /\ file \in [Inodes -> File] /\ {active, handle} \union stale \subseteq Inodes \union {0}
  BY DEF TypeInv, WalInv, WalTypes
<1>2. \A i \in Inodes : Segment(file[i].data) /\ Segment(file[i].hard)
  BY DEF Ordered, FilesOrdered
<1>3. d \in Segments /\ Segment(d)
  <2>1. <<>> \in Segments /\ Segment(<<>>)
    BY EmptyOf, NothingRises DEF Segments
  <2>2. CASE d \in Leftovers
    <3>1. PICK i \in stale \union {active} : d \in (IF i = 0 THEN {<<>>} ELSE Images(file[i]))
      BY <2>2 DEF Leftovers
    <3>2. CASE i = 0
      BY <2>1, <3>1, <3>2
    <3>3. CASE i # 0
      BY <1>1, <1>2, <3>1, <3>3, ImageSegmented, ImageSegment, FilesAssumption
    <3>4. QED
      BY <3>2, <3>3
  <2>3. CASE d = DataOf(handle)
    BY <1>1, <1>2, <2>1, <2>3 DEF DataOf, File
  <2>4. QED
    BY <2>2, <2>3
<1>4. RisingRecs(Log(d)) /\ Log(d) \in Seq(LogRecords)
  BY <1>3, LogRises, SegmentLog, FilesAssumption
<1>5. j \in 1..Len(Log(d)) /\ k \in 1..Len(Log(d))
  BY <1>4
<1>6. Log(d)[j].lsn \in Nat /\ Log(d)[k].lsn \in Nat
  BY <1>4, <1>5, RecordIs
<1>7. ~(j < k) /\ ~(k < j)
  BY <1>4, <1>5, <1>6 DEF RisingRecs
<1>8. QED
  BY <1>5, <1>7

(* The inductive invariant of the property.                                *)
RisingInv == TypeInv /\ Shape /\ Ordered /\ Numbered

(* No LSN is in the log twice: neither a BufWriter that goes on after a    *)
(* failed write, nor a checkpoint that copies the log while it still has a *)
(* buffer, nor a crash in the middle of either writes a frame again        *)
(* (wal.rs).                                                               *)
THEOREM FramesStayOnce == Spec => []FrameOnce
<1>1. Init => RisingInv
  <2> SUFFICES ASSUME Init PROVE RisingInv
    OBVIOUS
  <2>1. WInit /\ step = "starting" /\ TypeInv /\ Shape
    BY TypeInitially, CheckpointInitially DEF Init
  <2>2. Ordered
    BY <2>1, OrderedInitially DEF TypeInv
  <2>3. Numbered
    BY <2>1 DEF WInit, Numbered
  <2>4. QED
    BY <2>1, <2>2, <2>3 DEF RisingInv
<1>2. RisingInv /\ [Next]_vars => RisingInv'
  BY TypeStep, ShapeStep, OrderedStep, NumberedStep DEF RisingInv
<1>3. RisingInv => FrameOnce
  BY OrderedGives DEF RisingInv
<1>4. QED
  BY <1>1, <1>2, <1>3, PTL DEF Spec

-----------------------------------------------------------------------------
(* The disk store keeps what it answered Ok for                            *)

(* A reopening reads the frames up to k, and so the state s.               *)
Upto(data, k)  == \A j \in 1..k : ReadableAt(data, j)
Shown(data, s) == \E k \in 1..Len(data) : data[k].rec = s /\ Upto(data, k)

(* What a reopening reads of a, it reads of b.                             *)
Leads(a, b) == \A k \in 1..Len(a) : Upto(a, k) => k <= Len(b) /\ b[k] = a[k]

(* A frame the reopening reads of a is one it reads of b, too.             *)
LEMMA LeadsFurther ==
  ASSUME NEW S, NEW a \in Seq(S), NEW b \in Seq(S), Leads(a, b),
         NEW k \in 1..Len(a), Upto(a, k)
  PROVE  k \in 1..Len(b) /\ b[k] = a[k] /\ Upto(b, k)
<1>1. \A j \in 1..k : j \in 1..Len(a) /\ Upto(a, j)
  BY DEF Upto
<1>2. \A j \in 1..k : j <= Len(b) /\ b[j] = a[j]
  BY <1>1 DEF Leads
<1>3. QED
  BY <1>2 DEF Upto, ReadableAt

(* So is every state it shows.                                             *)
LEMMA LeadsShown ==
  ASSUME NEW S, NEW a \in Seq(S), NEW b \in Seq(S), Leads(a, b), NEW s, Shown(a, s)
  PROVE  Shown(b, s)
<1>1. PICK k \in 1..Len(a) : a[k].rec = s /\ Upto(a, k)
  BY DEF Shown
<1>2. QED
  BY <1>1, LeadsFurther DEF Shown

(* Leads is transitive: the file grows in several steps.                   *)
LEMMA LeadsOn ==
  ASSUME NEW S, NEW a \in Seq(S), NEW b \in Seq(S), NEW c \in Seq(S),
         Leads(a, b), Leads(b, c)
  PROVE  Leads(a, c)
<1>1. ASSUME NEW k \in 1..Len(a), Upto(a, k)
      PROVE  k <= Len(c) /\ c[k] = a[k]
  <2>1. k \in 1..Len(b) /\ b[k] = a[k] /\ Upto(b, k)
    BY <1>1, LeadsFurther
  <2>2. QED
    BY <2>1 DEF Leads
<1>2. QED
  BY <1>1 DEF Leads

(* It is reflexive: a file that does not change.                           *)
LEMMA LeadsSelf == \A S : \A a \in Seq(S) : Leads(a, a)
  BY DEF Leads

(* The readable prefix is all there is to read.                            *)
LEMMA GoodLeads ==
  ASSUME NEW data \in Seq(Whole(Value))
  PROVE  Leads(data, DGood(data))
<1>1. PICK n \in 0..Len(data) :
        /\ Len(DGood(data)) = n /\ \A k \in 1..n : DGood(data)[k] = data[k]
        /\ n < Len(data) => ~ReadableAt(data, n + 1)
  BY ReplayIs DEF Prefix
<1>2. ASSUME NEW k \in 1..Len(data), Upto(data, k)
      PROVE  k <= n
  <2>1. ASSUME ~(k <= n)
        PROVE  n + 1 \in 1..k /\ n < Len(data)
    BY <2>1
  <2>2. QED
    BY <1>1, <1>2, <2>1 DEF Upto
<1>3. QED
  BY <1>1, <1>2 DEF Leads

(* Absorbing states (last write wins) leaves a version where it was, or    *)
(* takes that of a state.                                                  *)
LEMMA AbsorbedFrom ==
  ASSUME NEW table \in [Ids -> Nat], NEW states \in Seq(Value), NEW i \in Ids
  PROVE  \/ Absorbed(table, states)[i] = table[i]
         \/ \E k \in 1..Len(states) :
              states[k].id = i /\ states[k].ver = Absorbed(table, states)[i]
<1>1. PICK l \in Nat : l = Len(states)
  OBVIOUS
<1>2. \A k \in 1..l : states[k] \in Value /\ states[k].ver \in Nat
  <2>1. \A v \in Value : v.ver \in Nat
    BY DEF Value
  <2>2. \A k \in 1..l : states[k] \in Value
    BY <1>1
  <2>3. QED
    BY <2>1, <2>2
<1>3. Range(states) = {states[k] : k \in 1..l}
  BY <1>1, RangeEquality
<1> DEFINE versions == {table[i]} \union {s.ver : s \in {t \in Range(states) : t.id = i}}
           f == [k \in 1..l |-> states[k].ver]
<1>4. f \in [1..l -> Nat] /\ table[i] \in Nat
  BY <1>2
<1>5. \A x \in versions :
        x = table[i] \/ \E k \in 1..l : states[k].id = i /\ x = states[k].ver
  BY <1>3
<1>6. \E b \in Nat : \A x \in versions : x <= b
  <2>1. PICK b \in Nat : \A k \in 1..l : f[k] <= b
    BY <1>4, BoundExists
  <2>2. PICK c \in Nat : b <= c /\ table[i] <= c
    <3>1. b + table[i] \in Nat /\ b <= b + table[i] /\ table[i] <= b + table[i]
      BY <1>4
    <3>2. QED
      BY <3>1
  <2>3. ASSUME NEW x \in versions
        PROVE  x <= c
    <3>1. CASE x = table[i]
      BY <2>2, <3>1
    <3>2. ASSUME NEW k \in 1..l, x = states[k].ver
          PROVE  x <= c
      <4>1. states[k].ver <= b
        BY <2>1
      <4>2. QED
        BY <1>2, <2>2, <3>2, <4>1
    <3>3. QED
      BY <1>5, <3>1, <3>2
  <2>4. QED
    BY <2>3
<1>7. versions \in SUBSET Nat /\ versions # {}
  BY <1>2, <1>4, <1>5
<1>8. Absorbed(table, states)[i] = Max(versions)
  BY DEF Absorbed
<1> HIDE DEF versions
<1>9. Max(versions) \in versions
  BY <1>6, <1>7, MaxIs
<1>10. QED
  BY <1>1, <1>5, <1>8, <1>9

(* rebuild_index reads exactly the readable frames of a file.              *)
LEMMA StatesOf ==
  ASSUME NEW data \in Seq(Whole(Value))
  PROVE  /\ Len(DStates(data)) \in 0..Len(data)
         /\ \A k \in 1..Len(DStates(data)) :
              DStates(data)[k] = data[k].rec /\ Upto(data, k)
         /\ \A k \in 1..Len(data) : Upto(data, k) => k \in 1..Len(DStates(data))
<1>1. PICK n \in 0..Len(data) :
        /\ Len(DGood(data)) = n
        /\ \A k \in 1..n : DGood(data)[k] = data[k] /\ ReadableAt(data, k)
        /\ n < Len(data) => ~ReadableAt(data, n + 1)
  BY ReplayIs DEF Prefix
<1>2. DStates(data) = [k \in 1..n |-> data[k].rec]
  <2>1. DOMAIN DGood(data) = 1..n
    BY <1>1, ReplayIs
  <2>2. QED
    BY <2>1 DEF DStates
<1>3. DStates(data) \in Seq(Value)
  BY ReplayIs
<1>4. Len(DStates(data)) = n
  BY <1>1, <1>2, <1>3
<1>5. \A k \in 1..n : Upto(data, k)
  BY <1>1 DEF Upto
<1>6. ASSUME NEW k \in 1..Len(data), Upto(data, k)
      PROVE  k <= n
  <2>1. ASSUME ~(k <= n)
        PROVE  n + 1 \in 1..k /\ n < Len(data)
    BY <2>1
  <2>2. QED
    BY <1>1, <1>6, <2>1 DEF Upto
<1>7. QED
  BY <1>2, <1>4, <1>5, <1>6

(* What a file shows, rebuild_index indexes at that version or above.      *)
LEMMA ShownReplayed ==
  ASSUME NEW data \in Seq(Whole(Value)), NEW s, Shown(data, s)
  PROVE  s \in Value /\ s.ver <= Replay(data)[s.id]
<1>1. PICK k \in 1..Len(data) : data[k].rec = s /\ Upto(data, k)
  BY DEF Shown
<1>2. k \in 1..Len(DStates(data)) /\ DStates(data)[k] = s
  BY <1>1, StatesOf
<1>3. DStates(data) \in Seq(Value) /\ NoVersions \in [Ids -> Nat]
  BY ReplayIs, DNothing
<1>4. s \in Value
  BY <1>2, <1>3
<1>5. QED
  BY <1>2, <1>3, <1>4, AbsorbedIs DEF Replay

(* What rebuild_index indexes, the file shows.                             *)
LEMMA ReplayedShown ==
  ASSUME NEW data \in Seq(Whole(Value)), NEW i \in Ids
  PROVE  \/ Replay(data)[i] = 0
         \/ \E s \in Value : s.id = i /\ s.ver = Replay(data)[i] /\ Shown(data, s)
<1>1. DStates(data) \in Seq(Value) /\ NoVersions \in [Ids -> Nat] /\ NoVersions[i] = 0
  BY ReplayIs, DNothing DEF NoVersions
<1>2. \/ Replay(data)[i] = 0
      \/ \E k \in 1..Len(DStates(data)) :
           DStates(data)[k].id = i /\ DStates(data)[k].ver = Replay(data)[i]
  BY <1>1, AbsorbedFrom DEF Replay
<1>3. ASSUME NEW k \in 1..Len(DStates(data))
      PROVE  DStates(data)[k] \in Value /\ Shown(data, DStates(data)[k])
  BY <1>1, StatesOf DEF Shown
<1>4. QED
  BY <1>2, <1>3

(* The rest of a frame is of the frame the file ends with.                 *)
Rest(ps) == ps # <<>> /\ ps[1].from > 0
SameFrame(data, ps) == Rest(ps) => data[Len(data)].len = ps[1].len

(* Every piece completes its frame.                                        *)
Ended(ps) == \A k \in 1..Len(ps) : ps[k].to = ps[k].len

(* No frame is cut short, but the last one, to be completed by ps.         *)
Sewn(data, ps) ==
  \A k \in 1..Len(data) : IsWhole(data[k]) \/ (k = Len(data) /\ Rest(ps))

(* Appending (BufWriter) never takes back what a reopening reads.          *)
LEMMA ExtendedLeads ==
  ASSUME NEW R, NEW data \in Seq(Whole(R)), NEW ps \in Seq(Pieces(R)),
         Joins(data, ps), SameFrame(data, ps)
  PROVE  Leads(data, Extended(data, ps))
<1> DEFINE e == Extended(data, ps)
<1>1. /\ Off(data, ps) \in 0..Len(data) /\ Len(e) = Off(data, ps) + Len(ps)
      /\ \A j \in 1..Off(data, ps) : e[j] = data[j]
  BY ExtendedIs
<1>2. Len(ps) \in Nat
  OBVIOUS
<1>3. ASSUME NEW k \in 1..Len(data), Upto(data, k)
      PROVE  k <= Off(data, ps)
  <2>1. CASE ~Rest(ps)
    BY <2>1 DEF Off, Rest
  <2>2. CASE Rest(ps)
    <3>1. Off(data, ps) = Len(data) - 1
      BY <2>2 DEF Off, Rest
    <3>2. ps[1] \in Pieces(R)
      BY <2>2 DEF Rest
    <3>3. ps[1].from < ps[1].to /\ ps[1].to <= ps[1].len
          /\ {ps[1].from, ps[1].to, ps[1].len} \subseteq Nat
      BY <3>2, PieceIs
    <3>4. data[Len(data)].to = ps[1].from /\ data[Len(data)].len = ps[1].len
      BY <2>2 DEF Joins, SameFrame, Rest
    <3>5. ~IsWhole(data[Len(data)])
      BY <3>3, <3>4 DEF IsWhole
    <3>6. k # Len(data)
      BY <1>3, <3>5 DEF Upto, ReadableAt
    <3>7. QED
      BY <3>1, <3>6
  <2>3. QED
    BY <2>1, <2>2
<1> HIDE DEF e
<1>4. QED
  BY <1>1, <1>2, <1>3 DEF Leads, e

(* A complete write leaves whole frames.                                   *)
LEMMA ExtendedSewn ==
  ASSUME NEW R, NEW data \in Seq(Whole(R)), NEW ps \in Seq(Pieces(R)),
         Joins(data, ps), Sewn(data, ps), Ended(ps)
  PROVE  \A qs : Sewn(Extended(data, ps), qs)
<1> DEFINE e == Extended(data, ps)
<1>1. /\ Off(data, ps) \in 0..Len(data) /\ Len(e) = Off(data, ps) + Len(ps)
      /\ \A j \in 1..Off(data, ps) : e[j] = data[j]
      /\ \A k \in 1..Len(ps) : e[Off(data, ps) + k] = [ps[k] EXCEPT !.from = 0]
  BY ExtendedIs
<1>2. PICK o \in 0..Len(data), l \in Nat : o = Off(data, ps) /\ l = Len(ps)
  BY <1>1
<1>3. ASSUME NEW k \in 1..Len(e)
      PROVE  IsWhole(e[k])
  <2>1. CASE k <= o
    <3>1. k \in 1..Len(data) /\ e[k] = data[k]
      BY <1>1, <1>2, <2>1
    <3>2. ~(k = Len(data) /\ Rest(ps))
      BY <1>2, <2>1 DEF Off, Rest
    <3>3. QED
      BY <3>1, <3>2 DEF Sewn
  <2>2. CASE ~(k <= o)
    <3>1. PICK j \in 1..l : k = o + j
      <4>1. k - o \in 1..l /\ k = o + (k - o)
        BY <1>1, <1>2, <2>2
      <4>2. QED
        BY <4>1
    <3>2. e[k] = [ps[j] EXCEPT !.from = 0] /\ ps[j] \in Pieces(R) /\ ps[j].to = ps[j].len
      BY <1>1, <1>2, <3>1 DEF Ended
    <3>3. QED
      BY <3>2 DEF IsWhole, Pieces
  <2>3. QED
    BY <2>1, <2>2
<1>4. QED
  BY <1>3 DEF Sewn

(* A write that stops leaves a file that the rest completes.               *)
LEMMA SplitSewn ==
  ASSUME NEW R, NEW data \in Seq(Whole(R)), NEW ps \in Seq(Pieces(R)),
         Joins(data, ps), NEW s \in Splits(ps), Cuts \subseteq Nat
  PROVE  /\ SameFrame(data, ps) => /\ SameFrame(data, s.done)
                                   /\ SameFrame(Extended(data, s.done), s.rest)
         /\ Ended(ps) => Ended(s.rest)
         /\ Ended(ps) /\ Sewn(data, ps) => Sewn(Extended(data, s.done), s.rest)
<1>1. s.done \in Seq(Pieces(R)) /\ s.rest \in Seq(Pieces(R))
  BY SplitIs
<1>2. PICK n \in 0..Len(ps), m \in 0..Len(ps) : SplitAt(ps, s, n, m)
  BY SplitIs
<1>3. PICK l \in Nat : l = Len(ps)
  OBVIOUS
<1>4. /\ Len(s.done) = n /\ Len(s.rest) = l - m
      /\ \A k \in 1..n : s.done[k].len = ps[k].len /\ s.done[k].from = ps[k].from
      /\ \A k \in 1..m : k <= n => s.done[k] = ps[k]
      /\ \A k \in 1..(l - m) : s.rest[k].len = ps[m + k].len /\ s.rest[k].to = ps[m + k].to
  BY <1>2, <1>3 DEF SplitAt
<1>5. \/ m = n /\ (m < l => s.rest[1] = ps[m + 1])
      \/ n = m + 1 /\ s.done[n].to = s.rest[1].from /\ s.rest[1].from > 0
  BY <1>2, <1>3 DEF SplitAt
<1>6. Joins(data, s.done) /\ \A k \in 2..l : ps[k].from = 0
  BY <1>3, SplitJoins DEF Joins
<1> DEFINE e == Extended(data, s.done)
<1>7. /\ Off(data, s.done) \in 0..Len(data) /\ Len(e) = Off(data, s.done) + n
      /\ \A j \in 1..Off(data, s.done) : e[j] = data[j]
      /\ \A k \in 1..n : e[Off(data, s.done) + k] = [s.done[k] EXCEPT !.from = 0]
  <2>1. /\ Off(data, s.done) \in 0..Len(data)
        /\ Len(e) = Off(data, s.done) + Len(s.done)
        /\ \A j \in 1..Off(data, s.done) : e[j] = data[j]
        /\ \A k \in 1..Len(s.done) :
             e[Off(data, s.done) + k] = [s.done[k] EXCEPT !.from = 0]
    <3>1. PICK d \in Seq(Pieces(R)) : d = s.done
      BY <1>1
    <3>2. Joins(data, d)
      BY <1>6, <3>1
    <3>3. /\ Off(data, d) \in 0..Len(data)
          /\ Len(Extended(data, d)) = Off(data, d) + Len(d)
          /\ \A j \in 1..Off(data, d) : Extended(data, d)[j] = data[j]
          /\ \A k \in 1..Len(d) :
               Extended(data, d)[Off(data, d) + k] = [d[k] EXCEPT !.from = 0]
      BY <3>2, ExtendedIs
    <3>4. QED
      BY <3>1, <3>3
  <2>2. QED
    BY <1>4, <2>1
<1>8. PICK o \in 0..Len(data) : o = Off(data, s.done)
  BY <1>7
<1>9. n > 0 => (Rest(s.done) <=> Rest(ps))
  BY <1>1, <1>3, <1>4, EmptySeq DEF Rest
<1>10. n = 0 => s.done = <<>> /\ o = Len(data) /\ ~Rest(s.done)
  <2>1. ASSUME n = 0
        PROVE  s.done = <<>>
    BY <1>1, <1>4, <2>1, EmptySeq
  <2>2. QED
    BY <1>8, <2>1 DEF Rest, Off
<1>11. ASSUME SameFrame(data, ps)
       PROVE  SameFrame(data, s.done)
  BY <1>3, <1>4, <1>9, <1>10, <1>11 DEF SameFrame
<1>12. Rest(s.rest) => (m = n /\ n = 0 /\ Rest(ps)) \/ n = m + 1
  <2>1. ASSUME Rest(s.rest), m = n, n > 0
        PROVE  FALSE
    <3>1. s.rest # <<>> /\ s.rest[1].from > 0 /\ Len(s.rest) > 0
      BY <1>1, <2>1, EmptySeq DEF Rest
    <3>2. m < l /\ m + 1 \in 2..l
      BY <1>4, <2>1, <3>1
    <3>3. QED
      BY <1>5, <1>6, <2>1, <3>1, <3>2
  <2>2. ASSUME Rest(s.rest), m = n, n = 0
        PROVE  Rest(ps)
    <3>1. s.rest # <<>> /\ s.rest[1].from > 0 /\ Len(s.rest) > 0
      BY <1>1, <2>2, EmptySeq DEF Rest
    <3>2. l > 0 /\ s.rest[1] = ps[1]
      BY <1>4, <1>5, <2>2, <3>1
    <3>3. QED
      BY <1>3, <3>1, <3>2, EmptySeq DEF Rest
  <2>3. QED
    BY <1>5, <2>1, <2>2
<1>13. ASSUME SameFrame(data, ps)
       PROVE  SameFrame(e, s.rest)
  <2> SUFFICES ASSUME Rest(s.rest)
               PROVE  e[Len(e)].len = s.rest[1].len
    BY DEF SameFrame
  <2>0. Len(s.rest) > 0
    BY <1>1, EmptySeq DEF Rest
  <2>1. CASE m = n /\ n = 0 /\ Rest(ps)
    <3>1. Len(e) = Len(data) /\ data # <<>>
      BY <1>7, <1>8, <1>10, <2>1 DEF Joins, Rest
    <3>2. Len(data) \in 1..o
      BY <1>8, <1>10, <2>1, <3>1, EmptySeq
    <3>3. e[Len(e)] = data[Len(data)]
      BY <1>7, <1>8, <3>1, <3>2
    <3>4. s.rest[1].len = ps[1].len
      BY <1>4, <2>0, <2>1
    <3>5. QED
      BY <1>13, <2>1, <3>3, <3>4 DEF SameFrame
  <2>2. CASE n = m + 1
    <3>1. e[Len(e)] = [s.done[n] EXCEPT !.from = 0] /\ n \in 1..n
      BY <1>7, <2>2
    <3>2. s.done[n] \in Pieces(R)
      BY <1>1, <1>4, <3>1
    <3>3. e[Len(e)].len = s.done[n].len
      BY <3>1, <3>2 DEF Pieces
    <3>4. s.done[n].len = ps[n].len
      BY <1>4, <3>1
    <3>5. s.rest[1].len = ps[m + 1].len
      BY <1>4, <2>0
    <3>6. QED
      BY <2>2, <3>3, <3>4, <3>5
  <2>3. QED
    BY <1>12, <2>1, <2>2
<1>14. ASSUME Ended(ps)
       PROVE  Ended(s.rest)
  <2>1. ASSUME NEW k \in 1..Len(s.rest)
        PROVE  s.rest[k].to = s.rest[k].len
    <3>1. k \in 1..(l - m) /\ m + k \in 1..l
      BY <1>4
    <3>2. QED
      BY <1>3, <1>4, <1>14, <3>1 DEF Ended
  <2>2. QED
    BY <2>1 DEF Ended
<1>15. ASSUME Ended(ps), Sewn(data, ps)
       PROVE  Sewn(e, s.rest)
  <2>1. ASSUME NEW k \in 1..Len(e)
        PROVE  IsWhole(e[k]) \/ (k = Len(e) /\ Rest(s.rest))
    <3>1. CASE k <= o
      <4>1. k \in 1..Len(data) /\ e[k] = data[k]
        BY <1>7, <1>8, <3>1
      <4>2. CASE k = Len(data) /\ Rest(ps)
        <5>1. n = 0 /\ k = Len(e)
          BY <1>7, <1>8, <1>9, <3>1, <4>2 DEF Off, Rest
        <5>2. CASE m = n
          <6>1. l > 0
            BY <1>3, <4>2, EmptySeq DEF Rest
          <6>2. s.rest[1] = ps[1] /\ Len(s.rest) > 0
            BY <1>4, <1>5, <5>1, <5>2, <6>1
          <6>3. QED
            BY <1>1, <4>2, <5>1, <6>2, EmptySeq DEF Rest
        <5>3. QED
          BY <1>5, <5>1, <5>2
      <4>3. CASE ~(k = Len(data) /\ Rest(ps))
        BY <1>15, <4>1, <4>3 DEF Sewn
      <4>4. QED
        BY <4>2, <4>3
    <3>2. CASE ~(k <= o)
      <4>1. PICK j \in 1..n : k = o + j
        <5>1. k - o \in 1..n /\ k = o + (k - o)
          BY <1>7, <1>8, <3>2
        <5>2. QED
          BY <5>1
      <4>2. e[k] = [s.done[j] EXCEPT !.from = 0] /\ s.done[j] \in Pieces(R)
        <5>1. e[o + j] = [s.done[j] EXCEPT !.from = 0]
          BY <1>7, <1>8
        <5>2. s.done[j] \in Pieces(R)
          BY <1>1, <1>4
        <5>3. QED
          BY <4>1, <5>1, <5>2
      <4>3. e[k].from = 0 /\ e[k].to = s.done[j].to /\ e[k].len = s.done[j].len
        BY <4>2 DEF Pieces
      <4>4. CASE j <= m
        <5>1. s.done[j] = ps[j] /\ j \in 1..l
          BY <1>3, <1>4, <4>1, <4>4
        <5>2. ps[j].to = ps[j].len
          BY <1>3, <1>15, <5>1 DEF Ended
        <5>3. QED
          BY <4>3, <5>1, <5>2 DEF IsWhole
      <4>5. CASE ~(j <= m)
        <5>1. j = n /\ n = m + 1 /\ k = Len(e)
          BY <1>5, <1>7, <1>8, <4>1, <4>5
        <5>2. Len(s.rest) > 0 /\ s.rest[1].from > 0
          BY <1>3, <1>4, <1>5, <5>1
        <5>3. QED
          BY <1>1, <5>1, <5>2, EmptySeq DEF Rest
      <4>6. QED
        BY <4>4, <4>5
    <3>3. QED
      BY <3>1, <3>2
  <2>2. QED
    BY <2>1 DEF Sewn
<1>16. QED
  BY <1>11, <1>13, <1>14, <1>15

(* Nothing written is lost: the records of the file and those written are  *)
(* in the file then.                                                       *)
Holds(ps, r) == \E k \in 1..Len(ps) : ps[k].rec = r

(* A write (BufWriter) keeps the records of the file and of what it        *)
(* writes.                                                                 *)
LEMMA ExtendedHolds ==
  ASSUME NEW R, NEW data \in Seq(Whole(R)), NEW ps \in Seq(Pieces(R)), Joins(data, ps),
         NEW r, Holds(data, r) \/ Holds(ps, r)
  PROVE  Holds(Extended(data, ps), r)
<1> DEFINE e == Extended(data, ps)
<1>1. /\ Off(data, ps) \in 0..Len(data) /\ Len(e) = Off(data, ps) + Len(ps)
      /\ \A j \in 1..Off(data, ps) : e[j] = data[j]
      /\ \A k \in 1..Len(ps) : e[Off(data, ps) + k] = [ps[k] EXCEPT !.from = 0]
  BY ExtendedIs
<1>2. PICK o \in 0..Len(data), l \in Nat : o = Off(data, ps) /\ l = Len(ps)
  BY <1>1
<1>3. ASSUME NEW k \in 1..l
      PROVE  o + k \in 1..Len(e) /\ e[o + k].rec = ps[k].rec
  <2>1. ps[k] \in Pieces(R)
    BY <1>2
  <2>2. e[o + k] = [ps[k] EXCEPT !.from = 0] /\ o + k \in 1..Len(e)
    BY <1>1, <1>2
  <2>3. QED
    BY <2>1, <2>2 DEF Pieces
<1>4. CASE Holds(ps, r)
  <2>1. PICK k \in 1..l : ps[k].rec = r
    BY <1>2, <1>4 DEF Holds
  <2>2. QED
    BY <1>3, <2>1 DEF Holds
<1>5. CASE Holds(data, r)
  <2>1. PICK k \in 1..Len(data) : data[k].rec = r
    BY <1>5 DEF Holds
  <2>2. CASE k <= o
    <3>1. k \in 1..Len(e) /\ e[k] = data[k]
      BY <1>1, <1>2, <2>2
    <3>2. QED
      BY <2>1, <3>1 DEF Holds
  <2>3. CASE ~(k <= o)
    <3>1. Rest(ps) /\ k = Len(data)
      BY <1>2, <2>3 DEF Off, Rest
    <3>2. ps[1].rec = r /\ l > 0
      BY <1>2, <2>1, <3>1, EmptySeq DEF Joins, Rest
    <3>3. 1 \in 1..l
      BY <3>2
    <3>4. QED
      BY <1>3, <3>2, <3>3 DEF Holds
  <2>4. QED
    BY <2>2, <2>3
<1>6. QED
  BY <1>4, <1>5

(* A piece is its fields.                                                  *)
LEMMA SamePiece ==
  ASSUME NEW R, NEW p \in Pieces(R), NEW q \in Pieces(R),
         p.rec = q.rec, p.len = q.len, p.from = q.from, p.to = q.to
  PROVE  p = q
  BY DEF Pieces

(* What a power loss leaves of a file begins with what was synced.         *)
LEMMA ImageLeads ==
  ASSUME NEW R, NEW f, f.hard \in Seq(Whole(R)), f.data \in Seq(Whole(R)),
         Leads(f.hard, f.data), NEW d \in Images(f), Cuts \subseteq Nat
  PROVE  d \in Seq(Whole(R)) /\ Leads(f.hard, d)
<1>1. f.hard \in Seq(Whole(R)) /\ f.data \in Seq(Whole(R))
  OBVIOUS
<1>2. d \in Seq(Whole(R))
  BY <1>1, ImagesAre, CutIs
<1>3. \/ d = f.hard \/ d = f.data
      \/ CellPrefix(f.hard, d) /\ \E s \in Splits(f.data) : d = s.done
  BY DEF Images
<1>4. ASSUME CellPrefix(f.hard, d), NEW s \in Splits(f.data), d = s.done
      PROVE  Leads(f.hard, d)
  <2>1. PICK a \in Seq(Whole(R)), b \in Seq(Whole(R)) : a = f.hard /\ b = f.data
    BY <1>1
  <2>2. b \in Seq(Pieces(R))
    BY DEF Whole
  <2>3. PICK n \in 0..Len(b), m \in 0..Len(b) : SplitAt(b, s, n, m)
    BY <1>4, <2>1, <2>2, SplitIs
  <2>4. /\ Len(d) = n
        /\ \A k \in 1..n : /\ d[k].rec = b[k].rec /\ d[k].len = b[k].len
                           /\ d[k].from = b[k].from /\ d[k].to <= b[k].to
    BY <1>4, <2>3 DEF SplitAt
  <2>5. ASSUME NEW k \in 1..Len(a), Upto(a, k)
        PROVE  k <= Len(d) /\ d[k] = a[k]
    <3>1. k \in 1..Len(b) /\ b[k] = a[k]
      BY <2>1, <2>5, LeadsFurther
    <3>2. a # <<>> /\ a = f.hard
      BY <2>1, EmptySeq
    <3>3. /\ Len(a) <= Len(d) /\ SubSeq(d, 1, Len(a) - 1) = Front(a)
          /\ d[Len(a)].rec = a[Len(a)].rec /\ a[Len(a)].to <= d[Len(a)].to
      BY <1>4, <3>2 DEF CellPrefix
    <3>4. Len(d) \in Nat /\ Len(a) \in Nat \ {0}
      BY <1>2, <3>2, Ends
    <3>5. CASE k < Len(a)
      <4>1. k \in 1..(Len(a) - 1) /\ Front(a)[k] = a[k]
        <5>1. \A j \in 1..(Len(a) - 1) : Front(a)[j] = a[j]
          BY <3>2, Ends
        <5>2. k \in 1..(Len(a) - 1)
          BY <3>4, <3>5
        <5>3. QED
          BY <5>1, <5>2
      <4>2. SubSeq(d, 1, Len(a) - 1)[k] = d[k]
        <5>1. \A j \in 1..(Len(a) - 1) : d[j] \in Whole(R)
          BY <1>2, <3>3, <3>4
        <5>2. 1 \in Int /\ Len(a) - 1 \in Int
          BY <3>4
        <5>3. \A j \in 1..(Len(a) - 1 - 1 + 1) :
                SubSeq(d, 1, Len(a) - 1)[j] = d[1 + j - 1]
          BY <5>1, <5>2, SubSeqProperties
        <5>4. k \in 1..(Len(a) - 1 - 1 + 1) /\ 1 + k - 1 = k
          BY <3>4, <4>1
        <5>5. QED
          BY <5>3, <5>4
      <4>3. QED
        BY <3>3, <3>4, <3>5, <4>1, <4>2
    <3>6. CASE k = Len(a)
      <4>1. k \in 1..n
        BY <2>4, <3>3, <3>4, <3>6
      <4>2. d[k] \in Pieces(R) /\ a[k] \in Pieces(R) /\ b[k] \in Pieces(R)
        BY <1>2, <2>2, <2>4, <3>1, <4>1 DEF Whole
      <4>3. /\ d[k].rec = a[k].rec /\ d[k].len = a[k].len /\ d[k].from = a[k].from
            /\ d[k].to <= a[k].to /\ a[k].to <= d[k].to
        BY <2>4, <3>1, <3>3, <3>6, <4>1
      <4>4. d[k].to = a[k].to
        BY <4>2, <4>3, PieceIs
      <4>5. d[k] = a[k]
        BY <4>2, <4>3, <4>4, SamePiece
      <4>6. QED
        BY <2>4, <4>1, <4>5
    <3>7. QED
      BY <3>4, <3>5, <3>6
  <2>6. QED
    BY <2>1, <2>5 DEF Leads
<1>5. QED
  BY <1>1, <1>2, <1>3, <1>4, LeadsSelf

(* What the index claims comes from a frame a reopening reads, or from a   *)
(* write it will not see.                                                  *)
Indexed ==
  \A i \in Ids :
    \/ index[i] = 0
    \/ \E s \in Value : /\ s.id = i /\ index[i] <= s.ver
                        /\ s \in hollow \/ Shown(dfile.data, s)

(* What is synced begins with what every write since left in place, and    *)
(* shows all that was answered on a sound file.                            *)
Answered ==
  /\ Leads(dfile.hard, dfile.data)
  /\ \A s \in solid : Shown(dfile.hard, s)
  /\ dopen => Indexed

(* The buffer completes what the file ends with; without a scar, the file  *)
(* is whole but for that.                                                  *)
Completed ==
  /\ Ended(dbuf) /\ SameFrame(dfile.data, dbuf)
  /\ dpc # "closed" /\ ~dscarred => Sewn(dfile.data, dbuf)

(* The batch under way is in the file, in the buffer or still to write.    *)
Underway ==
  /\ dpc \notin {"write", "flush", "sync"} => dgiven = <<>>
  /\ dpc \in {"flush", "sync"} => dtodo = <<>>
  /\ dpc = "sync" => dbuf = <<>>
  /\ \A k \in 1..Len(dgiven) :
       \/ Holds(dfile.data, dgiven[k]) \/ Holds(dbuf, dgiven[k])
       \/ \E j \in 1..Len(dtodo) : dtodo[j] = dgiven[k]

(* The three parts together are the inductive invariant of SolidKept.      *)
KeepsInv == Answered /\ Completed /\ Underway

(* A step that writes to the file, and answers nothing.                    *)
LEMMA AnsweredGrows ==
  ASSUME DiskInv, Answered, NEW d \in Seq(Whole(Value)), DWrite(d),
         Leads(dfile.data, d), UNCHANGED <<index, solid, hollow>>,
         dopen' => dopen
  PROVE  Answered'
<1>1. /\ dfile'.data = d /\ dfile'.hard = dfile.hard
      /\ dfile.data \in Seq(Whole(Value)) /\ dfile.hard \in Seq(Whole(Value))
  BY DWriteIs, DFileIs DEF DiskInv
<1>2. Leads(dfile'.hard, dfile'.data)
  BY <1>1, LeadsOn DEF Answered
<1>3. \A s \in solid' : Shown(dfile'.hard, s)
  BY <1>1 DEF Answered
<1>4. ASSUME dopen'
      PROVE  Indexed'
  <2>1. \A s \in Value : Shown(dfile.data, s) => Shown(d, s)
    BY <1>1, LeadsShown
  <2>2. QED
    BY <1>1, <1>4, <2>1 DEF Answered, Indexed
<1>5. QED
  BY <1>2, <1>3, <1>4 DEF Answered

(* A step that leaves the file alone.                                      *)
LEMMA AnsweredStays ==
  ASSUME Answered, UNCHANGED <<dfile, index, solid, hollow>>, dopen' => dopen
  PROVE  Answered'
  BY DEF Answered, Indexed

(* A sync (sync_data) of a file whose index is left alone.                 *)
LEMMA AnsweredSyncs ==
  ASSUME DiskInv, Answered, DSync, UNCHANGED <<index, solid, hollow, dopen>>
  PROVE  Answered'
<1>1. /\ dfile'.data = dfile.data /\ dfile'.hard = dfile.data
      /\ dfile.data \in Seq(Whole(Value)) /\ dfile.hard \in Seq(Whole(Value))
  BY DSyncIs, DFileIs DEF DiskInv
<1>2. \A s \in solid : Shown(dfile.data, s)
  BY <1>1, LeadsShown DEF Answered
<1>3. QED
  BY <1>1, <1>2, LeadsSelf DEF Answered, Indexed

(* The buffer's place after the end of the file, as every lemma needs it.  *)
LEMMA BufferPlace ==
  ASSUME DiskInv
  PROVE  /\ dfile.data \in Seq(Whole(Value)) /\ dfile.hard \in Seq(Whole(Value))
         /\ dbuf \in Seq(Pieces(Value)) /\ Joins(dfile.data, dbuf)
         /\ dtodo \in Seq(Value) /\ dgiven \in Seq(Value) /\ Cuts \subseteq Nat
  BY DFileIs, DNothing DEF DiskInv, DiskTypes, DBuffered

(* Neither a buffer nor a batch.                                           *)
LEMMA NothingLeft ==
  /\ Ended(<<>>) /\ \A data : SameFrame(data, <<>>)
  /\ \A r : ~Holds(<<>>, r)
  BY DEF Ended, SameFrame, Rest, Holds

(* Between calls no batch is under way.                                    *)
LEMMA NoBatch ==
  ASSUME dgiven' = <<>>, dpc' \notin {"write", "flush", "sync"}
  PROVE  Underway'
<1>1. \A k \in 1..Len(<<>>) : FALSE
  OBVIOUS
<1>2. QED
  BY <1>1 DEF Underway

(* A file read to its end is sewn.                                         *)
LEMMA GoodSewn ==
  ASSUME NEW data \in Seq(Whole(Value))
  PROVE  \A ps : Sewn(DGood(data), ps)
<1>1. PICK n \in 0..Len(data) :
        /\ Len(DGood(data)) = n
        /\ \A k \in 1..n : DGood(data)[k] = data[k] /\ ReadableAt(data, k)
  BY ReplayIs DEF Prefix
<1>2. QED
  BY <1>1 DEF Sewn, ReadableAt

-----------------------------------------------------------------------------
(* DiskKvStore::open: the index is rebuilt from the file, whose torn tail  *)
(* is no part of what a reopening reads.                                   *)
LEMMA DOpenKeeps ==
  ASSUME DiskInv, KeepsInv, DOpen
  PROVE  KeepsInv' /\ Leads(dfile.data, dfile'.data)
<1>1. dpc = "closed" /\ index' = Replay(dfile.data) /\ dopen' = TRUE
      /\ UNCHANGED <<dbuf, dtodo, dgiven, solid, hollow, dscarred>>
  BY DEF DOpen, dHistory
<1>2. dbuf = <<>>
  BY <1>1 DEF DiskInv, DiskShape
<1>3. DGood(dfile.data) \in Seq(Whole(Value))
  BY BufferPlace, ReplayIs
<1>4. \/ DGood(dfile.data) = dfile.data /\ dfile' = dfile /\ dpc' = "ready"
      \/ DWrite(DGood(dfile.data)) /\ dpc' = "cut"
  BY DEF DOpen
<1>5. dfile'.data = DGood(dfile.data) /\ dfile'.hard = dfile.hard
  BY <1>3, <1>4, DWriteIs DEF DiskInv
<1>6. Leads(dfile.data, DGood(dfile.data))
  BY BufferPlace, GoodLeads
<1>7. Answered'
  <2>1. Leads(dfile'.hard, dfile'.data)
    BY <1>3, <1>5, <1>6, BufferPlace, LeadsOn DEF KeepsInv, Answered
  <2>2. \A s \in solid' : Shown(dfile'.hard, s)
    BY <1>1, <1>5 DEF KeepsInv, Answered
  <2>3. ASSUME NEW i \in Ids
        PROVE  \/ index'[i] = 0
               \/ \E s \in Value : /\ s.id = i /\ index'[i] <= s.ver
                                   /\ s \in hollow' \/ Shown(dfile'.data, s)
    <3>1. CASE Replay(dfile.data)[i] = 0
      BY <1>1, <3>1
    <3>2. CASE \E s \in Value : /\ s.id = i /\ s.ver = Replay(dfile.data)[i]
                                /\ Shown(dfile.data, s)
      <4>1. PICK s \in Value : /\ s.id = i /\ s.ver = Replay(dfile.data)[i]
                               /\ Shown(dfile.data, s)
        BY <3>2
      <4>2. Shown(dfile'.data, s)
        BY <1>3, <1>5, <1>6, <4>1, BufferPlace, LeadsShown
      <4>3. s.ver \in Nat
        BY DEF Value
      <4>4. QED
        BY <1>1, <4>1, <4>2, <4>3
    <3>3. QED
      BY <3>1, <3>2, BufferPlace, ReplayedShown
  <2>4. QED
    BY <2>1, <2>2, <2>3 DEF Answered, Indexed
<1>8. Completed'
  <2>1. Sewn(dfile'.data, dbuf')
    BY <1>5, BufferPlace, GoodSewn
  <2>2. QED
    BY <1>1, <1>2, <2>1, NothingLeft DEF Completed
<1>9. Underway'
  BY <1>1, <1>4, NoBatch DEF KeepsInv, Underway
<1>10. QED
  BY <1>5, <1>6, <1>7, <1>8, <1>9 DEF KeepsInv

(* The sync after the cut makes the shortened file stable.                 *)
LEMMA DSyncCutKeeps ==
  ASSUME DiskInv, KeepsInv, DSyncCut
  PROVE  KeepsInv'
<1>1. /\ dpc = "cut" /\ dpc' = "ready" /\ DSync
      /\ UNCHANGED <<dopen, dbuf, index, dtodo, dgiven, solid, hollow, dscarred>>
  BY DEF DSyncCut, DGoto, dHistory
<1>2. Answered'
  BY <1>1, AnsweredSyncs DEF KeepsInv
<1>3. Completed'
  <2>1. dfile'.data = dfile.data
    BY <1>1, DSyncIs DEF DiskInv
  <2>2. QED
    BY <1>1, <2>1 DEF KeepsInv, Completed, Sewn, SameFrame, Ended
<1>4. QED
  BY <1>1, <1>2, <1>3, NoBatch DEF KeepsInv, Underway

(* persist_batch starts with the whole batch still to write.               *)
LEMMA PersistBatchKeeps ==
  ASSUME DiskInv, KeepsInv, NEW states \in Seq(Value), PersistBatch(states)
  PROVE  KeepsInv'
<1>1. /\ dpc = "ready" /\ UNCHANGED <<dfile, dopen, dbuf, index, solid, hollow, dscarred>>
  BY DEF PersistBatch, dHistory
<1>2. Answered'
  BY <1>1, AnsweredStays DEF KeepsInv
<1>3. Completed'
  BY <1>1 DEF KeepsInv, Completed, Sewn, SameFrame, Ended
<1>4. Underway'
  <2>1. CASE states = <<>>
    BY <2>1, NoBatch DEF PersistBatch, DAnswer
  <2>2. CASE states # <<>>
    <3>1. dpc' = "write" /\ dtodo' = dgiven'
      BY <2>2 DEF PersistBatch, DGoto
    <3>2. QED
      BY <3>1 DEF Underway
  <2>3. QED
    BY <2>1, <2>2
<1>5. QED
  BY <1>2, <1>3, <1>4 DEF KeepsInv

(* A copy into the buffer: the next state leaves the list, and its frame   *)
(* comes last.                                                             *)
LEMMA DCopyKeeps ==
  ASSUME DiskInv, KeepsInv, DCopy
  PROVE  KeepsInv'
<1>1. /\ dpc = "write" /\ dbuf' = Append(dbuf, DFrame(Head(dtodo)))
      /\ dtodo' = Tail(dtodo) /\ dpc' = IF dtodo' = <<>> THEN "flush" ELSE "write"
      /\ UNCHANGED <<dfile, dopen, index, dgiven, solid, hollow, dscarred>>
  BY DEF DCopy, DGoto, dHistory
<1>2. Head(dtodo) \in Value
  BY <1>1, DTodoIs
<1>3. /\ DFrame(Head(dtodo)) \in Pieces(Value) /\ DFrame(Head(dtodo)).from = 0
      /\ DFrame(Head(dtodo)).to = DFrame(Head(dtodo)).len
      /\ DFrame(Head(dtodo)).rec = Head(dtodo)
  BY <1>2, DFrameIs DEF DFrame, WholePiece
<1>4. PICK p \in Pieces(Value) :
        p = DFrame(Head(dtodo)) /\ p.from = 0 /\ p.to = p.len /\ p.rec = Head(dtodo)
  BY <1>3
<1>5. PICK l \in Nat : l = Len(dbuf)
  BY BufferPlace
<1>6. /\ Len(dbuf') = l + 1 /\ dbuf'[l + 1] = p /\ \A k \in 1..l : dbuf'[k] = dbuf[k]
      /\ dbuf' # <<>>
  BY <1>1, <1>4, <1>5, BufferPlace, AppendProperties
<1>7. Answered'
  BY <1>1, AnsweredStays DEF KeepsInv
<1>8. Rest(dbuf') <=> Rest(dbuf)
  <2>1. CASE l = 0
    <3>1. dbuf = <<>>
      BY <1>5, <2>1, BufferPlace, EmptySeq
    <3>2. ~(dbuf'[1].from > 0)
      BY <1>4, <1>6, <2>1
    <3>3. QED
      BY <3>1, <3>2 DEF Rest
  <2>2. CASE l > 0
    <3>1. 1 \in 1..l
      BY <2>2
    <3>2. QED
      BY <1>5, <1>6, <2>2, <3>1, BufferPlace, EmptySeq DEF Rest
  <2>3. QED
    BY <2>1, <2>2
<1>9. Rest(dbuf) => dbuf'[1] = dbuf[1]
  <2>1. Rest(dbuf) => 1 \in 1..l
    BY <1>5, BufferPlace, EmptySeq DEF Rest
  <2>2. QED
    BY <1>6, <2>1
<1>10. Ended(dbuf')
  <2>1. ASSUME NEW k \in 1..(l + 1)
        PROVE  dbuf'[k].to = dbuf'[k].len
    <3>1. k \in 1..l \/ k = l + 1
      OBVIOUS
    <3>2. QED
      BY <1>4, <1>5, <1>6, <3>1 DEF KeepsInv, Completed, Ended
  <2>2. QED
    BY <1>6, <2>1 DEF Ended
<1>11. Completed'
  BY <1>1, <1>8, <1>9, <1>10 DEF KeepsInv, Completed, SameFrame, Sewn
<1>12. Underway'
  <2>1. ASSUME NEW r, Holds(dbuf, r)
        PROVE  Holds(dbuf', r)
    <3>1. PICK k \in 1..l : dbuf[k].rec = r
      BY <1>5, <2>1 DEF Holds
    <3>2. k \in 1..(l + 1) /\ dbuf'[k].rec = r
      BY <1>6, <3>1
    <3>3. QED
      BY <1>6, <3>2 DEF Holds
  <2>2. ASSUME NEW j \in 1..Len(dtodo)
        PROVE  Holds(dbuf', dtodo[j]) \/ \E i \in 1..Len(dtodo') : dtodo'[i] = dtodo[j]
    <3>1. dtodo # <<>> /\ Len(dtodo) \in Nat
      BY <2>2, BufferPlace, EmptySeq
    <3>2. /\ Head(dtodo) = dtodo[1] /\ Len(Tail(dtodo)) = Len(dtodo) - 1
          /\ \A i \in 1..(Len(dtodo) - 1) : Tail(dtodo)[i] = dtodo[i + 1]
      BY <3>1, BufferPlace, HeadTailProperties
    <3>3. CASE j = 1
      <4>1. l + 1 \in 1..(l + 1) /\ dbuf'[l + 1].rec = dtodo[j]
        BY <1>4, <1>6, <3>2, <3>3
      <4>2. QED
        BY <1>6, <4>1 DEF Holds
    <3>4. CASE j # 1
      <4>1. j - 1 \in 1..(Len(dtodo) - 1) /\ (j - 1) + 1 = j
        BY <3>1, <3>4
      <4>2. QED
        BY <1>1, <3>2, <4>1
    <3>5. QED
      BY <3>3, <3>4
  <2>3. \A k \in 1..Len(dgiven) :
          \/ Holds(dfile.data, dgiven[k]) \/ Holds(dbuf', dgiven[k])
          \/ \E i \in 1..Len(dtodo') : dtodo'[i] = dgiven[k]
    BY <2>1, <2>2 DEF KeepsInv, Underway
  <2>4. QED
    BY <1>1, <2>3 DEF Underway
<1>13. QED
  BY <1>7, <1>11, <1>12 DEF KeepsInv

(* The buffer is written out, all of it.                                   *)
LEMMA BufferOut ==
  ASSUME DiskInv, KeepsInv, DWrite(Extended(dfile.data, dbuf)), dbuf' = <<>>,
         UNCHANGED <<dopen, index, solid, hollow, dscarred, dgiven, dtodo>>,
         dpc \in {"write", "flush"}, dpc' \in {"write", "flush", "sync"},
         dpc' # "write" => dtodo = <<>>
  PROVE  KeepsInv' /\ Leads(dfile.data, dfile'.data)
<1> DEFINE e == Extended(dfile.data, dbuf)
<1>1. e \in Seq(Whole(Value))
  BY DBufferWritten
<1>2. dfile'.data = e /\ dfile'.hard = dfile.hard
  BY <1>1, DWriteIs DEF DiskInv
<1>3. Leads(dfile.data, e)
  BY BufferPlace, ExtendedLeads DEF KeepsInv, Completed
<1>4. Answered'
  BY <1>1, <1>3, AnsweredGrows DEF KeepsInv
<1>5. ~dscarred => \A qs : Sewn(e, qs)
  BY BufferPlace, ExtendedSewn DEF KeepsInv, Completed
<1>6. Completed'
  BY <1>2, <1>5, NothingLeft DEF Completed
<1>7. Underway'
  <2>1. \A r : Holds(dfile.data, r) \/ Holds(dbuf, r) => Holds(e, r)
    BY BufferPlace, ExtendedHolds
  <2> HIDE DEF e
  <2>2. QED
    BY <1>2, <2>1 DEF KeepsInv, Underway
<1>8. QED
  BY <1>2, <1>3, <1>4, <1>6, <1>7 DEF KeepsInv

(* BufWriter making room.                                                  *)
LEMMA DSpillKeeps ==
  ASSUME DiskInv, KeepsInv, DSpill
  PROVE  KeepsInv' /\ Leads(dfile.data, dfile'.data)
  BY BufferOut DEF DSpill, dHistory

(* BufWriter::flush.                                                       *)
LEMMA DFlushBufferKeeps ==
  ASSUME DiskInv, KeepsInv, DFlushBuffer
  PROVE  KeepsInv' /\ Leads(dfile.data, dfile'.data)
  BY BufferOut DEF DFlushBuffer, DGoto, dHistory, KeepsInv, Underway

(* It is written out in part: the rest stays in the buffer.                *)
LEMMA DBufferWriteFailsKeeps ==
  ASSUME DiskInv, KeepsInv, DBufferWriteFails
  PROVE  KeepsInv' /\ Leads(dfile.data, dfile'.data)
<1>1. PICK s \in Stopped(dbuf) : DWrite(Extended(dfile.data, s.done)) /\ dbuf' = s.rest
  BY DEF DBufferWriteFails
<1>2. s \in Splits(dbuf)
  BY DEF Stopped
<1>3. /\ dpc \in {"write", "flush"} /\ dpc' = "ready" /\ dtodo' = <<>> /\ dgiven' = <<>>
      /\ UNCHANGED <<dopen, index, solid, hollow, dscarred>>
  BY DEF DBufferWriteFails, DFails, DAnswer, dHistory
<1> DEFINE e == Extended(dfile.data, s.done)
<1>4. e \in Seq(Whole(Value))
  BY <1>2, DBufferWritten
<1>5. dfile'.data = e /\ dfile'.hard = dfile.hard
  BY <1>1, <1>4, DWriteIs DEF DiskInv
<1>6. /\ SameFrame(dfile.data, s.done) /\ SameFrame(e, s.rest) /\ Ended(s.rest)
      /\ ~dscarred => Sewn(e, s.rest)
  BY <1>2, <1>3, BufferPlace, SplitSewn DEF KeepsInv, Completed
<1>7. Leads(dfile.data, e)
  <2>1. s.done \in Seq(Pieces(Value)) /\ Joins(dfile.data, s.done)
    BY <1>2, BufferPlace, SplitIs, SplitJoins
  <2>2. QED
    BY <1>6, <2>1, BufferPlace, ExtendedLeads
<1>8. Answered'
  BY <1>1, <1>3, <1>4, <1>7, AnsweredGrows DEF KeepsInv
<1>9. Completed'
  BY <1>1, <1>3, <1>5, <1>6 DEF Completed
<1>10. QED
  BY <1>3, <1>5, <1>7, <1>8, <1>9, NoBatch DEF KeepsInv

(* A frame of the capacity or more is written directly, the buffer empty.  *)
LEMMA DWriteThroughKeeps ==
  ASSUME DiskInv, KeepsInv, DWriteThrough
  PROVE  KeepsInv' /\ Leads(dfile.data, dfile'.data)
<1>1. /\ dpc = "write" /\ dbuf = <<>> /\ DWrite(Append(dfile.data, DFrame(Head(dtodo))))
      /\ dtodo' = Tail(dtodo) /\ dpc' = IF dtodo' = <<>> THEN "flush" ELSE "write"
      /\ UNCHANGED <<dbuf, dopen, index, dgiven, solid, hollow, dscarred>>
  BY DEF DWriteThrough, DGoto, Bypasses, dHistory
<1>2. Head(dtodo) \in Value
  BY <1>1, DTodoIs
<1>3. PICK p \in Whole(Value) :
        p = DFrame(Head(dtodo)) /\ p.from = 0 /\ p.to = p.len /\ p.rec = Head(dtodo)
  BY <1>2, DFrameIs DEF DFrame, WholePiece
<1>4. PICK d \in Seq(Whole(Value)) : d = Append(dfile.data, p)
  BY <1>3, BufferPlace, AppendProperties
<1>5. PICK l \in Nat : l = Len(dfile.data)
  BY BufferPlace
<1>6. Len(d) = l + 1 /\ d[l + 1] = p /\ \A k \in 1..l : d[k] = dfile.data[k]
  BY <1>3, <1>4, <1>5, BufferPlace, AppendProperties
<1>7. dfile'.data = d /\ DWrite(d)
  BY <1>1, <1>3, <1>4, DWriteIs DEF DiskInv
<1>8. Leads(dfile.data, d)
  BY <1>5, <1>6 DEF Leads
<1>9. Answered'
  BY <1>1, <1>7, <1>8, AnsweredGrows DEF KeepsInv
<1>10. ~dscarred => Sewn(d, dbuf)
  <2>1. ASSUME ~dscarred, NEW k \in 1..(l + 1)
        PROVE  IsWhole(d[k])
    <3>1. k \in 1..l \/ k = l + 1
      OBVIOUS
    <3>2. CASE k = l + 1
      BY <1>3, <1>6, <3>2 DEF IsWhole
    <3>3. CASE k \in 1..l
      <4>1. IsWhole(dfile.data[k])
        BY <1>1, <1>5, <2>1, <3>3 DEF KeepsInv, Completed, Sewn, Rest
      <4>2. QED
        BY <1>6, <3>3, <4>1
    <3>4. QED
      BY <3>1, <3>2, <3>3
  <2>2. QED
    BY <1>6, <2>1 DEF Sewn
<1>11. Completed'
  BY <1>1, <1>7, <1>10, NothingLeft DEF Completed
<1>12. Underway'
  <2>1. ASSUME NEW r, Holds(dfile.data, r)
        PROVE  Holds(d, r)
    <3>1. PICK k \in 1..l : dfile.data[k].rec = r
      BY <1>5, <2>1 DEF Holds
    <3>2. k \in 1..(l + 1) /\ d[k].rec = r
      BY <1>6, <3>1
    <3>3. QED
      BY <1>6, <3>2 DEF Holds
  <2>2. ASSUME NEW j \in 1..Len(dtodo)
        PROVE  Holds(d, dtodo[j]) \/ \E i \in 1..Len(dtodo') : dtodo'[i] = dtodo[j]
    <3>1. dtodo # <<>> /\ Len(dtodo) \in Nat
      BY <2>2, BufferPlace, EmptySeq
    <3>2. /\ Head(dtodo) = dtodo[1] /\ Len(Tail(dtodo)) = Len(dtodo) - 1
          /\ \A i \in 1..(Len(dtodo) - 1) : Tail(dtodo)[i] = dtodo[i + 1]
      BY <3>1, BufferPlace, HeadTailProperties
    <3>3. CASE j = 1
      <4>1. l + 1 \in 1..(l + 1) /\ d[l + 1].rec = dtodo[j]
        BY <1>3, <1>6, <3>2, <3>3
      <4>2. QED
        BY <1>6, <4>1 DEF Holds
    <3>4. CASE j # 1
      <4>1. j - 1 \in 1..(Len(dtodo) - 1) /\ (j - 1) + 1 = j
        BY <3>1, <3>4
      <4>2. QED
        BY <1>1, <3>2, <4>1
    <3>5. QED
      BY <3>3, <3>4
  <2>3. \A k \in 1..Len(dgiven) :
          \/ Holds(d, dgiven[k])
          \/ \E i \in 1..Len(dtodo') : dtodo'[i] = dgiven[k]
    BY <1>1, <2>1, <2>2, NothingLeft DEF KeepsInv, Underway
  <2>4. QED
    BY <1>1, <1>7, <2>3 DEF Underway
<1>13. QED
  BY <1>7, <1>8, <1>9, <1>11, <1>12 DEF KeepsInv

(* One frame written directly stops somewhere: the file grows, or not.     *)
LEMMA DWriteThroughFailsKeeps ==
  ASSUME DiskInv, KeepsInv, DWriteThroughFails
  PROVE  KeepsInv' /\ Leads(dfile.data, dfile'.data)
<1>1. /\ dpc = "write" /\ dbuf = <<>> /\ dpc' = "ready" /\ dgiven' = <<>>
      /\ UNCHANGED <<dbuf, dopen, index, solid, hollow>>
  BY DEF DWriteThroughFails, DFails, DAnswer, Bypasses
<1>2. Head(dtodo) \in Value
  BY <1>1, DTodoIs
<1>3. PICK s \in Splits(<<DFrame(Head(dtodo))>>) :
        DWrite(dfile.data \o s.done) /\ dscarred' = (dscarred \/ s.done # <<>>)
  BY DEF DWriteThroughFails, Stopped
<1>4. PICK ps \in Seq(Pieces(Value)) : ps = <<DFrame(Head(dtodo))>>
  BY <1>2, BufferPlace, DFrameWritten
<1>5. PICK done \in Seq(Pieces(Value)) : done = s.done
  BY <1>3, <1>4, BufferPlace, SplitIs
<1>6. PICK d \in Seq(Whole(Value)) : d = dfile.data \o done
  BY <1>2, <1>3, <1>5, BufferPlace, DFrameWritten
<1>7. dfile'.data = d /\ DWrite(d)
  BY <1>3, <1>5, <1>6, DWriteIs DEF DiskInv
<1>8. dfile.data \in Seq(Pieces(Value))
  BY BufferPlace, DFileIs DEF Whole
<1>9. /\ Len(d) = Len(dfile.data) + Len(done)
      /\ \A k \in 1..Len(dfile.data) : d[k] = dfile.data[k]
  <2>1. /\ Len(dfile.data \o done) = Len(dfile.data) + Len(done)
        /\ \A k \in 1..(Len(dfile.data) + Len(done)) :
             (dfile.data \o done)[k] = IF k <= Len(dfile.data) THEN dfile.data[k]
                                       ELSE done[k - Len(dfile.data)]
    BY <1>5, <1>8, ConcatProperties
  <2>2. Len(dfile.data) \in Nat /\ Len(done) \in Nat
    BY <1>5, <1>8
  <2>3. \A l, m \in Nat : \A k \in 1..l : k \in 1..(l + m) /\ k <= l
    OBVIOUS
  <2>4. QED
    BY <1>6, <2>1, <2>2, <2>3
<1>10. Leads(dfile.data, d)
  <2>1. Len(dfile.data) \in Nat /\ Len(done) \in Nat
    BY <1>5, <1>8
  <2>2. QED
    BY <1>9, <2>1 DEF Leads
<1>11. Answered'
  BY <1>1, <1>7, <1>10, AnsweredGrows DEF KeepsInv
<1>12. ~dscarred' => Sewn(d, dbuf')
  <2>1. CASE done = <<>>
    <3>1. d = dfile.data
      BY <1>6, <1>8, <2>1, ConcatEmptySeq
    <3>2. QED
      BY <1>1, <1>3, <3>1 DEF KeepsInv, Completed
  <2>2. CASE done # <<>>
    BY <1>3, <1>5, <2>2
  <2>3. QED
    BY <2>1, <2>2
<1>13. Completed'
  BY <1>1, <1>7, <1>12, NothingLeft DEF Completed
<1>14. QED
  BY <1>1, <1>7, <1>10, <1>11, <1>13, NoBatch DEF KeepsInv

(* On a sound file with nothing left to write, every frame is read.        *)
LEMMA SoundShows ==
  ASSUME DiskInv, KeepsInv, dpc = "sync", DSound, NEW k \in 1..Len(dgiven)
  PROVE  Shown(dfile.data, dgiven[k])
<1>1. dbuf = <<>> /\ dtodo = <<>>
  BY DEF KeepsInv, Underway
<1>2. Len(dtodo) = 0
  BY <1>1
<1>3. Holds(dfile.data, dgiven[k])
  <2>1. ~ \E j \in 1..Len(dtodo) : dtodo[j] = dgiven[k]
    BY <1>2
  <2>2. QED
    BY <1>1, <2>1, NothingLeft DEF KeepsInv, Underway
<1>4. PICK j \in 1..Len(dfile.data) : dfile.data[j].rec = dgiven[k]
  BY <1>3 DEF Holds
<1>5. ~dscarred /\ \A i \in 1..Len(dfile.data) : dfile.data[i].len < U32
  BY BufferPlace DEF DSound
<1>6. \A i \in 1..Len(dfile.data) : IsWhole(dfile.data[i])
  BY <1>1, <1>5 DEF KeepsInv, Completed, Sewn, Rest
<1>7. Upto(dfile.data, j)
  BY <1>4, <1>5, <1>6 DEF Upto, ReadableAt
<1>8. QED
  BY <1>4, <1>7 DEF Shown

(* The sync and the index (persist_batch): what is answered Ok is on       *)
(* stable storage, and what the index claims in the file.                  *)
LEMMA IndexKeeps ==
  ASSUME DiskInv, KeepsInv, Index
  PROVE  KeepsInv'
<1>1. /\ dpc = "sync" /\ DSync /\ dpc' = "ready" /\ dgiven' = <<>>
      /\ index' = Absorbed(index, dgiven)
      /\ UNCHANGED <<dopen, dbuf, dscarred>>
  BY DEF Index, DAnswer
<1>2. /\ dfile'.data = dfile.data /\ dfile'.hard = dfile.data
  BY <1>1, DSyncIs DEF DiskInv
<1>3. PICK l \in Nat : l = Len(dgiven) /\ Range(dgiven) = {dgiven[k] : k \in 1..l}
  <2>1. PICK l \in Nat : l = Len(dgiven)
    BY BufferPlace
  <2>2. Range(dgiven) = {dgiven[k] : k \in 1..Len(dgiven)}
    BY BufferPlace, RangeEquality
  <2>3. QED
    BY <2>1, <2>2
<1>4. \A k \in 1..l : dgiven[k] \in Value
  BY <1>3, BufferPlace
<1>5. \A s \in solid : Shown(dfile.data, s)
  BY BufferPlace, LeadsShown DEF KeepsInv, Answered
<1>6. /\ DSound => solid' = solid \union Range(dgiven) /\ hollow' = hollow
      /\ ~DSound => solid' = solid /\ hollow' = hollow \union Range(dgiven)
  BY DEF Index
<1>7. DSound => \A k \in 1..l : Shown(dfile.data, dgiven[k])
  BY <1>1, <1>3, SoundShows
<1>8. \A s \in solid' : Shown(dfile'.hard, s)
  BY <1>2, <1>3, <1>5, <1>6, <1>7
<1>9. \A k \in 1..l : dgiven[k] \in hollow' \/ Shown(dfile'.data, dgiven[k])
  BY <1>2, <1>3, <1>6, <1>7
<1>10. ASSUME dopen', NEW i \in Ids
       PROVE  \/ index'[i] = 0
              \/ \E s \in Value : /\ s.id = i /\ index'[i] <= s.ver
                                  /\ s \in hollow' \/ Shown(dfile'.data, s)
  <2>1. CASE index'[i] = index[i]
    <3>1. \/ index[i] = 0
          \/ \E s \in Value : /\ s.id = i /\ index[i] <= s.ver
                              /\ s \in hollow \/ Shown(dfile.data, s)
      BY <1>1, <1>10 DEF KeepsInv, Answered, Indexed
    <3>2. \A s : s \in hollow => s \in hollow'
      BY <1>6
    <3>3. QED
      BY <1>2, <2>1, <3>1, <3>2
  <2>2. CASE \E k \in 1..l : dgiven[k].id = i /\ dgiven[k].ver = index'[i]
    <3>1. PICK k \in 1..l : dgiven[k].id = i /\ dgiven[k].ver = index'[i]
      BY <2>2
    <3>2. PICK s \in Value : s = dgiven[k]
      BY <1>4
    <3>3. s.ver \in Nat
      BY DEF Value
    <3>4. index'[i] <= s.ver
      BY <3>1, <3>2, <3>3
    <3>5. QED
      BY <1>9, <3>1, <3>2, <3>4
  <2>3. index \in [Ids -> Nat]
    BY DEF DiskInv, DiskTypes
  <2>4. dgiven \in Seq(Value)
    BY BufferPlace
  <2>5. \/ Absorbed(index, dgiven)[i] = index[i]
        \/ \E k \in 1..Len(dgiven) :
             dgiven[k].id = i /\ dgiven[k].ver = Absorbed(index, dgiven)[i]
    BY <2>3, <2>4, AbsorbedFrom
  <2>6. CASE index'[i] # index[i]
    <3>1. \E k \in 1..l : dgiven[k].id = i /\ dgiven[k].ver = index'[i]
      BY <1>1, <1>3, <2>5, <2>6
    <3>2. QED
      BY <2>2, <3>1
  <2>7. QED
    BY <2>1, <2>6
<1>11. Answered'
  BY <1>2, <1>8, <1>10, BufferPlace, LeadsSelf DEF Answered, Indexed
<1>12. Completed'
  BY <1>1, <1>2 DEF KeepsInv, Completed, Sewn, SameFrame, Ended
<1>13. QED
  BY <1>1, <1>11, <1>12, NoBatch DEF KeepsInv

(* A failed sync answers nothing and changes nothing in the file.          *)
LEMMA DSyncFailsKeeps ==
  ASSUME DiskInv, KeepsInv, DSyncFails
  PROVE  KeepsInv'
<1>1. /\ dpc = "sync" /\ dpc' = "ready" /\ dgiven' = <<>>
      /\ UNCHANGED <<dfile, dopen, dbuf, index, solid, hollow, dscarred>>
  BY DEF DSyncFails, DFails, DAnswer, dHistory
<1>2. Answered'
  BY <1>1, AnsweredStays DEF KeepsInv
<1>3. Completed'
  BY <1>1 DEF KeepsInv, Completed, Sewn, SameFrame, Ended
<1>4. QED
  BY <1>1, <1>2, <1>3, NoBatch DEF KeepsInv

(* Losing the store's memory leaves only what is said of the file.         *)
LEMMA DClosedKeeps ==
  ASSUME DClosed, Leads(dfile'.hard, dfile'.data), \A s \in solid' : Shown(dfile'.hard, s)
  PROVE  KeepsInv'
<1>1. ~dopen' /\ dbuf' = <<>> /\ dgiven' = <<>> /\ dpc' = "closed"
  BY DEF DClosed
<1>2. Answered'
  BY <1>1 DEF Answered
<1>3. Completed'
  BY <1>1, NothingLeft DEF Completed
<1>4. QED
  BY <1>1, <1>2, <1>3, NoBatch DEF KeepsInv

(* A kill in the middle of a write leaves some of it in the file.          *)
LEMMA DKillKeeps ==
  ASSUME DiskInv, KeepsInv, DKill
  PROVE  KeepsInv' /\ Leads(dfile.data, dfile'.data)
<1>1. PICK s \in Splits(DWriting) : DWrite(Extended(dfile.data, s.done))
  BY DEF DKill
<1>2. DClosed /\ solid' = solid
  BY DEF DKill
<1>3. /\ DWriting \in Seq(Pieces(Value)) /\ Joins(dfile.data, DWriting)
      /\ SameFrame(dfile.data, DWriting)
  <2>1. CASE DWriting = dbuf
    BY <2>1, BufferPlace DEF KeepsInv, Completed
  <2>2. CASE DWriting = <<DFrame(Head(dtodo))>> /\ dpc = "write"
    <3>1. Head(dtodo) \in Value
      BY <2>2, DTodoIs
    <3>2. DWriting \in Seq(Pieces(Value)) /\ Joins(dfile.data, DWriting)
      BY <2>2, <3>1, BufferPlace, DFrameWritten
    <3>3. DFrame(Head(dtodo)).from = 0
      BY <3>1, DFrameIs
    <3>4. ~Rest(DWriting)
      BY <2>2, <3>3 DEF Rest
    <3>5. QED
      BY <3>2, <3>4 DEF SameFrame
  <2>3. CASE DWriting = <<>>
    BY <2>3, JoinsNone, DNothing, NothingLeft
  <2>4. QED
    BY <2>1, <2>2, <2>3 DEF DWriting
<1>4. PICK done \in Seq(Pieces(Value)) : done = s.done
  BY <1>1, <1>3, BufferPlace, SplitIs
<1>5. Joins(dfile.data, done) /\ SameFrame(dfile.data, done)
  BY <1>1, <1>3, <1>4, BufferPlace, SplitJoins, SplitSewn
<1>6. PICK d \in Seq(Whole(Value)) : d = Extended(dfile.data, done)
  BY <1>5, BufferPlace, ExtendedIs
<1>7. Leads(dfile.data, d)
  BY <1>5, <1>6, BufferPlace, ExtendedLeads
<1>8. dfile'.data = d /\ dfile'.hard = dfile.hard
  BY <1>1, <1>4, <1>6, DWriteIs DEF DiskInv
<1>9. Leads(dfile.hard, d)
  BY <1>7, BufferPlace, LeadsOn DEF KeepsInv, Answered
<1>10. \A t \in solid : Shown(dfile.hard, t)
  BY DEF KeepsInv, Answered
<1>11. QED
  BY <1>2, <1>7, <1>8, <1>9, <1>10, DClosedKeeps

(* A power loss leaves what was synced, whatever else is gone.             *)
LEMMA DPowerLossKeeps ==
  ASSUME DiskInv, KeepsInv, DPowerLoss
  PROVE  KeepsInv'
<1>1. DClosed
  BY DEF DPowerLoss
<1>2. CASE /\ \E d \in Images(dfile) : dfile' = [data |-> d, hard |-> d]
           /\ solid' = solid
  <2>1. PICK d \in Images(dfile) : dfile' = [data |-> d, hard |-> d]
    BY <1>2
  <2>2. Leads(dfile.hard, dfile.data)
    BY DEF KeepsInv, Answered
  <2>3. d \in Seq(Whole(Value)) /\ Leads(dfile.hard, d)
    BY <2>2, BufferPlace, ImageLeads
  <2>4. \A s \in solid : Shown(d, s)
    BY <2>3, BufferPlace, LeadsShown DEF KeepsInv, Answered
  <2>5. dfile'.data = d /\ dfile'.hard = d /\ Leads(d, d)
    BY <2>1, <2>3, LeadsSelf
  <2>6. QED
    BY <1>1, <1>2, <2>4, <2>5, DClosedKeeps
<1>3. CASE dfile' = Empty /\ solid' = {}
  <2>1. dfile'.data = <<>> /\ dfile'.hard = <<>>
    BY <1>3 DEF Empty
  <2>2. Leads(<<>>, <<>>)
    BY DNothing, LeadsSelf
  <2>3. QED
    BY <1>1, <1>3, <2>1, <2>2, DClosedKeeps
<1>4. QED
  BY <1>2, <1>3 DEF DPowerLoss

(* The invariant holds as long as no variable of the store changes.        *)
LEMMA KeepsSame == ASSUME KeepsInv, UNCHANGED diskVars PROVE KeepsInv'
<1>1. Answered'
  BY AnsweredStays DEF KeepsInv, diskVars, dHistory
<1>2. Completed'
  BY DEF KeepsInv, Completed, Sewn, SameFrame, Ended, diskVars, dHistory
<1>3. Underway'
  BY DEF KeepsInv, Underway, Holds, diskVars
<1>4. QED
  BY <1>1, <1>2, <1>3 DEF KeepsInv

(* It holds before the first open.                                         *)
LEMMA KeepsInitially == ASSUME DInit PROVE KeepsInv
<1>1. /\ dfile.data = <<>> /\ dfile.hard = <<>> /\ dbuf = <<>> /\ dgiven = <<>>
      /\ ~dopen /\ solid = {} /\ dpc = "closed"
  BY DEF DInit, Empty
<1>2. Answered
  <2>1. Leads(<<>>, <<>>)
    BY DNothing, LeadsSelf
  <2>2. QED
    BY <1>1, <2>1 DEF Answered
<1>3. Completed
  BY <1>1, NothingLeft DEF Completed
<1>4. Underway
  <2>1. \A k \in 1..Len(<<>>) : FALSE
    OBVIOUS
  <2>2. QED
    BY <1>1, <2>1 DEF Underway
<1>5. QED
  BY <1>2, <1>3, <1>4 DEF KeepsInv

(* Every step of persist_batch keeps what the store answered Ok for.       *)
LEMMA DPersistingKeeps == ASSUME DiskInv, KeepsInv, DPersisting PROVE KeepsInv'
  BY DCopyKeeps, DSpillKeeps, DWriteThroughKeeps, DFlushBufferKeeps, IndexKeeps,
     DBufferWriteFailsKeeps, DWriteThroughFailsKeeps, DSyncFailsKeeps
     DEF DPersisting

(* So does every step of the system: it either leaves the store alone, or  *)
(* is one of the store's.                                                  *)
LEMMA KeepsStep == ASSUME TypeInv, KeepsInv, [Next]_vars PROVE KeepsInv'
<1>1. DiskInv /\ EngineTypes
  BY DEF TypeInv
<1>2. CASE StartStore
  BY <1>1, <1>2, DOpenKeeps, DSyncCutKeeps DEF StartStore, DStarting
<1>3. CASE Logged \/ Retry
  BY <1>1, <1>3, BatchStates, PersistBatchKeeps DEF Logged, Retry
<1>4. CASE StoreWorks
  BY <1>1, <1>4, DPersistingKeeps DEF StoreWorks
<1>5. CASE Kill
  BY <1>1, <1>5, DKillKeeps DEF Kill
<1>6. CASE PowerLoss
  BY <1>1, <1>6, DPowerLossKeeps DEF PowerLoss
<1>7. CASE Flush \/ \E w \in Plain \union Durable : SubmitDurable(w)
  BY <1>7, KeepsSame DEF Flush, SubmitDurable, LogBatch
<1>8. CASE \E w \in Plain \union Durable : Accept(w)
  BY <1>8, KeepsSame DEF Accept
<1>9. CASE StartLog \/ Started \/ Requeue \/ Persisted \/ Trimmed \/ DurableAnswered
           \/ FlushLog \/ LogWorks
  BY <1>9, KeepsSame
     DEF StartLog, Started, Requeue, Persisted, Trimmed, DurableAnswered, FlushLog, LogWorks
<1>10. CASE UNCHANGED vars
  BY <1>10, KeepsSame DEF vars
<1>11. QED
  BY <1>2, <1>3, <1>4, <1>5, <1>6, <1>7, <1>8, <1>9, <1>10 DEF Next

(* It is stronger than the property: every image of the file begins with   *)
(* what was synced, and Replay reads what the image shows.                 *)
LEMMA KeepsGives == TypeInv /\ KeepsInv => SolidKept
<1> SUFFICES ASSUME TypeInv, KeepsInv PROVE SolidKept
  OBVIOUS
<1>1. DiskInv /\ Leads(dfile.hard, dfile.data)
  BY DEF TypeInv, KeepsInv, Answered
<1>2. index \in [Ids -> Nat]
  BY <1>1 DEF DiskInv, DiskTypes
<1>3. ASSUME NEW d \in Images(dfile), NEW s \in solid
      PROVE  Replay(d)[s.id] >= s.ver
  <2>1. d \in Seq(Whole(Value)) /\ Leads(dfile.hard, d)
    BY <1>1, BufferPlace, ImageLeads
  <2>2. Shown(dfile.hard, s)
    BY DEF KeepsInv, Answered
  <2>3. Shown(d, s)
    BY <1>1, <2>1, <2>2, BufferPlace, LeadsShown
  <2>4. s \in Value /\ s.ver <= Replay(d)[s.id] /\ Replay(d) \in [Ids -> Nat]
    BY <2>1, <2>3, ShownReplayed, ReplayIs
  <2>5. s.ver \in Nat /\ s.id \in Ids
    BY <2>4 DEF Value
  <2>6. QED
    BY <2>4, <2>5
<1>4. ASSUME dopen, NEW i \in Ids
      PROVE  \/ Replay(dfile.data)[i] >= index[i]
             \/ \E s \in hollow : s.id = i /\ s.ver >= index[i]
  <2>1. Replay(dfile.data) \in [Ids -> Nat]
    BY <1>1, BufferPlace, ReplayIs
  <2>2. CASE index[i] = 0
    <3>1. Replay(dfile.data)[i] \in Nat
      BY <2>1
    <3>2. QED
      BY <2>2, <3>1
  <2>3. CASE \E s \in Value : /\ s.id = i /\ index[i] <= s.ver
                              /\ s \in hollow \/ Shown(dfile.data, s)
    <3>1. PICK s \in Value : /\ s.id = i /\ index[i] <= s.ver
                             /\ s \in hollow \/ Shown(dfile.data, s)
      BY <2>3
    <3>2. s.ver \in Nat /\ index[i] \in Nat /\ Replay(dfile.data)[i] \in Nat
      BY <1>2, <2>1 DEF Value
    <3>3. CASE s \in hollow
      BY <3>1, <3>2, <3>3
    <3>4. CASE Shown(dfile.data, s)
      <4>1. s.ver <= Replay(dfile.data)[i]
        BY <1>1, <3>1, <3>4, BufferPlace, ShownReplayed
      <4>2. QED
        BY <3>1, <3>2, <4>1
    <3>5. QED
      BY <3>1, <3>3, <3>4
  <2>4. QED
    BY <1>4, <2>2, <2>3 DEF KeepsInv, Answered, Indexed
<1>5. QED
  BY <1>3, <1>4 DEF SolidKept

(* What the disk store answered Ok for (disk_kv_store.rs persist_batch) it *)
(* rebuilds from its file after any number of kills, power losses, failed  *)
(* and partial writes, but for what it wrote behind an abandoned or        *)
(* overlong frame; and its index never claims more than the file.          *)
THEOREM SolidStaysKept == Spec => []SolidKept
<1>1. Init => TypeInv /\ KeepsInv
  BY TypeInitially, KeepsInitially DEF Init
<1>2. TypeInv /\ KeepsInv /\ [Next]_vars => TypeInv' /\ KeepsInv'
  BY TypeStep, KeepsStep
<1>3. QED
  BY <1>1, <1>2, KeepsGives, PTL DEF Spec
=============================================================================
