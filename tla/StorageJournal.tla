--------------------------- MODULE StorageJournal --------------------------
(***************************************************************************)
(* Proofs of what the files of the log, and the log with the disk store,   *)
(* promise:                                                                *)
(*                                                                         *)
(*   JournalKept      the file operations of Wal implement Journal         *)
(*   KeptUntilPassed  what the engine owes is in the log or in the store   *)
(*                                                                         *)
(* Journal sees of the files what recover would read of them: after a kill *)
(* (OnDisk), and after any crash (Firm, what every image of every segment  *)
(* that may carry the name has). A step that writes, syncs or cuts a file  *)
(* is a Write of Journal or changes nothing of it (Grows); Commit is an    *)
(* Answer, Rename a Trim, a kill a Write, a power loss a PowerLoss, and    *)
(* Started a Restart. JournalInv has what this rests on: what is stable of *)
(* a file leads what is in it (Leading), frames are as long as they say    *)
(* (Measures), a frame that is open is completed by the buffer, unless a   *)
(* write failed (Tidy), the batch under way is in the file, the buffer or  *)
(* the list (Batched), and a checkpoint copies all that is above its       *)
(* watermark, whole and stable before the rename (Copying).                *)
(*                                                                         *)
(* KeptUntilPassed then follows from the theorem about Journal that what   *)
(* was answered for is in the log above the watermark, and from OwedKept:  *)
(* what is owed was answered for, above the watermark, or can be read of   *)
(* the store. A checkpoint leaves owed what the log keeps above its        *)
(* watermark or the store has on stable storage (DroppedStored).           *)
(***************************************************************************)
EXTENDS StorageSafety

-----------------------------------------------------------------------------
(* What recover reads of a segment                                         *)

(* decode_segment: the records of a segment are those of the readable      *)
(* frames behind its header.                                               *)
LEMMA RecsAre ==
  ASSUME NEW d \in Segments
  PROVE  \A r : r \in Recs(d) <=>
                  Headed(d) /\ \E k \in 2..Len(d) : d[k].rec = r /\ Upto(d, k)
<1>1. d \in Seq(Whole(Contents)) /\ HEADER_LEN < U32
  BY SegmentIs, FilesAssumption
<1>2. CASE ~Headed(d)
  <2>1. Log(d) = <<>>
    BY <1>2 DEF Log, Headed
  <2>2. Recs(d) = {}
    BY <2>1 DEF Recs, Range
  <2>3. QED
    BY <1>2, <2>2
<1>3. CASE Headed(d)
  <2>1. Len(Good(d)) \in 0..Len(d) /\ Len(Good(d)) > 0 /\ Prefix(d, Good(d))
    BY <1>1, <1>3, GoodIs DEF Headed
  <2>2. PICK n \in 0..Len(d) :
          /\ Len(Good(d)) = n
          /\ \A k \in 1..n : ReadableAt(d, k)
          /\ n < Len(d) => ~ReadableAt(d, n + 1)
    BY <2>1 DEF Prefix
  <2>3. PICK l \in Nat : l = Len(d)
    BY <1>1
  <2>4. n \in 1..l /\ n - 1 \in Nat
    BY <2>1, <2>2, <2>3
  <2>5. Log(d) = [k \in 1..(n - 1) |-> d[k + 1].rec]
    BY <1>3, <2>2 DEF Log, Headed
  <2>6. \A r : r \in Recs(d) <=> \E k \in 1..(n - 1) : d[k + 1].rec = r
    BY <2>5 DEF Recs, Range
  <2>7. \A k \in 1..l : Upto(d, k) <=> k <= n
    <3>1. ASSUME NEW k \in 1..l, k <= n
          PROVE  Upto(d, k)
      <4>1. \A j \in 1..k : j \in 1..n
        BY <2>4, <3>1
      <4>2. QED
        BY <2>2, <4>1 DEF Upto
    <3>2. ASSUME NEW k \in 1..l, Upto(d, k), ~(k <= n)
          PROVE  FALSE
      <4>1. n + 1 \in 1..k /\ n < l
        BY <2>4, <3>2
      <4>2. QED
        BY <2>2, <2>3, <3>2, <4>1 DEF Upto
    <3>3. QED
      BY <3>1, <3>2
  <2>8. ASSUME NEW r, r \in Recs(d)
        PROVE  \E k \in 2..Len(d) : d[k].rec = r /\ Upto(d, k)
    <3>1. PICK j \in 1..(n - 1) : d[j + 1].rec = r
      BY <2>6, <2>8
    <3>2. j + 1 \in 2..l /\ j + 1 \in 1..l /\ j + 1 <= n
      BY <2>4
    <3>3. QED
      BY <2>3, <2>7, <3>1, <3>2
  <2>9. ASSUME NEW r, NEW k \in 2..Len(d), d[k].rec = r, Upto(d, k)
        PROVE  r \in Recs(d)
    <3>1. k \in 1..l /\ k <= n
      BY <2>3, <2>7, <2>9
    <3>2. k - 1 \in 1..(n - 1) /\ (k - 1) + 1 = k
      BY <2>3, <2>4, <3>1
    <3>3. QED
      BY <2>6, <2>9, <3>2
  <2>10. QED
    BY <1>3, <2>8, <2>9
<1>4. QED
  BY <1>2, <1>3

(* No segment holds anything but log records.                              *)
LEMMA RecsTyped ==
  ASSUME NEW d \in Segments
  PROVE  Recs(d) \subseteq LogRecords
<1>1. Log(d) \in Seq(LogRecords)
  BY SegmentLog, FilesAssumption
<1>2. QED
  BY <1>1, RangeIs DEF Recs

(* The header is a readable frame.                                         *)
LEMMA HeaderRead ==
  ASSUME NEW d \in Segments, Headed(d)
  PROVE  Len(d) \in Nat \ {0} /\ Upto(d, 1)
<1>1. Len(d) \in Nat \ {0}
  BY SegmentIs, EmptySeq DEF Headed
<1>2. HEADER_LEN = 2 /\ Header.len = 2 /\ Header.from = 0 /\ Header.to = 2
  BY HeaderIs
<1>3. ReadableAt(d, 1)
  BY <1>2, FilesAssumption DEF Headed, ReadableAt, IsWhole
<1>4. QED
  BY <1>1, <1>3 DEF Upto

(* What recover reads of a segment it reads of every segment that it       *)
(* leads.                                                                  *)
LEMMA LeadsRecs ==
  ASSUME NEW a \in Segments, NEW b \in Segments, Leads(a, b)
  PROVE  /\ Recs(a) \subseteq Recs(b)
         /\ Headed(a) => Headed(b)
<1>1. a \in Seq(Whole(Contents)) /\ b \in Seq(Whole(Contents))
  BY SegmentIs
<1>2. ASSUME Headed(a)
      PROVE  Headed(b)
  <2>1. Len(a) \in Nat \ {0} /\ Upto(a, 1)
    BY <1>2, HeaderRead
  <2>2. 1 <= Len(b) /\ b[1] = a[1]
    BY <2>1 DEF Leads
  <2>3. QED
    BY <1>1, <1>2, <2>2 DEF Headed
<1>3. ASSUME NEW r \in Recs(a)
      PROVE  r \in Recs(b)
  <2>1. Headed(a)
    BY <1>3, RecsAre
  <2>2. PICK k \in 2..Len(a) : a[k].rec = r /\ Upto(a, k)
    BY <1>3, RecsAre
  <2>3. k \in 1..Len(a)
    BY <1>1, <2>2
  <2>4. k \in 1..Len(b) /\ b[k] = a[k] /\ Upto(b, k)
    BY <1>1, <2>2, <2>3, LeadsFurther
  <2>5. k \in 2..Len(b) /\ b[k].rec = r
    BY <1>1, <2>2, <2>4
  <2>6. QED
    BY <1>2, <2>1, <2>4, <2>5, RecsAre
<1>4. QED
  BY <1>2, <1>3

(* A file that does not start with the header has nothing to read, and so  *)
(* leads any other.                                                        *)
LEMMA UnheadedLeads ==
  ASSUME NEW d \in Segments, Segment(d), ~Headed(d), NEW e
  PROVE  Leads(d, e)
<1>1. SUFFICES ASSUME NEW k \in 1..Len(d), Upto(d, k) PROVE FALSE
  BY DEF Leads
<1>2. d \in Seq(Whole(Contents)) /\ HEADER_LEN = 2
  BY SegmentIs, HeaderIs
<1>3. 1 \in 1..k /\ 1 \in 1..Len(d) /\ d # <<>>
  BY <1>1, <1>2
<1>4. PICK p \in Whole(Contents) : p = d[1]
  BY <1>2, <1>3
<1>5. p.from = 0 /\ p.to = p.len
  BY <1>1, <1>3, <1>4 DEF Upto, ReadableAt, IsWhole
<1>6. p.rec = Header.rec /\ p.len = 2
  BY <1>1, <1>2, <1>3, <1>4 DEF Segment
<1>7. p = [rec |-> p.rec, len |-> p.len, from |-> p.from, to |-> p.to]
  BY DEF Whole, Pieces
<1>8. p = Header
  BY <1>5, <1>6, <1>7, HeaderIs
<1>9. QED
  BY <1>1, <1>3, <1>4, <1>8 DEF Headed

(* A file shorter than the header (Wal::open) does not start with it.      *)
LEMMA NotHeaded ==
  ASSUME NEW d \in Segments, CellsIn(d) < HEADER_LEN
  PROVE  ~Headed(d)
<1>1. SUFFICES ASSUME Headed(d) PROVE FALSE
  OBVIOUS
<1>2. d \in Seq(Pieces(Contents))
  BY SegmentIs
<1>3. PICK u : Counts(u, d) /\ CellsIn(d) = u[Len(d)]
  BY <1>2, CellsCount
<1>4. PICK n \in Nat \ {0} : n = Len(d)
  BY <1>1, HeaderRead
<1>5. /\ u \in [0..n -> Nat] /\ u[0] = 0
      /\ \A k \in 1..n : u[k] = u[k - 1] + Size(d[k])
  BY <1>3, <1>4 DEF Counts
<1>6. \A k \in 1..n : Size(d[k]) \in Nat
  BY <1>2, <1>4, SizeIs
<1>7. u[1] = 2
  <2>1. Size(d[1]) = 2
    BY <1>1, HeaderIs DEF Headed, Size
  <2>2. 1 \in 1..n /\ 1 - 1 = 0
    BY <1>4
  <2>3. u[1] = u[1 - 1] + Size(d[1])
    BY <1>5, <2>2
  <2>4. QED
    BY <1>5, <2>1, <2>2, <2>3
<1> DEFINE w == [k \in 0..(n - 1) |-> 0 - u[k + 1]]
<1>8. w \in [0..(n - 1) -> Int]
  <2>1. \A k \in 0..(n - 1) : k + 1 \in 0..n
    BY <1>4
  <2>2. \A k \in 0..(n - 1) : u[k + 1] \in Nat
    BY <1>5, <2>1
  <2>3. QED
    BY <2>2
<1>9. \A k \in 1..(n - 1) : w[k] <= w[k - 1]
  <2>1. ASSUME NEW k \in 1..(n - 1)
        PROVE  w[k] <= w[k - 1]
    <3>1. k \in 0..(n - 1) /\ k - 1 \in 0..(n - 1) /\ k + 1 \in 1..n /\ (k - 1) + 1 = k
          /\ (k + 1) - 1 = k /\ k \in 0..n /\ k + 1 \in 0..n
      BY <1>4
    <3>2. u[k + 1] = u[(k + 1) - 1] + Size(d[k + 1]) /\ Size(d[k + 1]) \in Nat
      BY <1>5, <1>6, <3>1
    <3>3. u[k] \in Nat /\ u[k + 1] \in Nat
      BY <1>5, <3>1
    <3>4. w[k] = 0 - u[k + 1] /\ w[k - 1] = 0 - u[k]
      BY <3>1
    <3> HIDE DEF w
    <3>5. QED
      BY <3>1, <3>2, <3>3, <3>4
  <2>2. QED
    BY <2>1
<1>10. w[0] = 0 - u[1] /\ w[n - 1] = 0 - u[n]
  BY <1>4
<1>11. n - 1 \in Nat
  BY <1>4
<1> HIDE DEF w
<1>12. w[n - 1] <= w[0]
  BY <1>8, <1>9, <1>11, Falling
<1>13. u[n] \in Nat
  BY <1>4, <1>5
<1>14. QED
  BY <1>1, <1>3, <1>4, <1>7, <1>10, <1>12, <1>13, HeaderIs

(* Cutting off what does not decode takes nothing from what can be read,   *)
(* and leaves whole frames only (recover).                                 *)
LEMMA WholeGood ==
  ASSUME NEW d \in Segments
  PROVE  /\ Leads(d, Good(d))
         /\ Headed(d) => \A ps : Sewn(Good(d), ps)
<1>1. d \in Seq(Whole(Contents)) /\ HEADER_LEN < U32
  BY SegmentIs, FilesAssumption
<1>2. CASE ~Headed(d)
  <2>1. Good(d) = d
    BY <1>2 DEF Good, Headed
  <2>2. QED
    BY <1>1, <1>2, <2>1, LeadsSelf
<1>3. CASE Headed(d)
  <2>1. Prefix(d, Good(d))
    BY <1>1, <1>3, GoodIs DEF Headed
  <2>2. PICK n \in 0..Len(d) :
          /\ Len(Good(d)) = n
          /\ \A k \in 1..n : Good(d)[k] = d[k] /\ ReadableAt(d, k)
          /\ n < Len(d) => ~ReadableAt(d, n + 1)
    BY <2>1 DEF Prefix
  <2>3. ASSUME NEW k \in 1..Len(d), Upto(d, k)
        PROVE  k <= n
    <3>1. ASSUME ~(k <= n)
          PROVE  n + 1 \in 1..k /\ n < Len(d)
      BY <3>1
    <3>2. QED
      BY <2>2, <2>3, <3>1 DEF Upto
  <2>4. Leads(d, Good(d))
    BY <2>2, <2>3 DEF Leads
  <2>5. \A ps : Sewn(Good(d), ps)
    BY <2>2 DEF Sewn, ReadableAt
  <2>6. QED
    BY <2>4, <2>5
<1>4. QED
  BY <1>2, <1>3

-----------------------------------------------------------------------------
(* Frames and their lengths                                                *)

(* Every piece is of as many cells as lens says of its record.             *)
Sized(ps, lens) == \A k \in 1..Len(ps) : ps[k].len = lens[ps[k].rec]

(* A log record is as long as its frame, and the header as its magic.      *)
WalLen == [r \in Contents |-> IF r = Header.rec THEN HEADER_LEN ELSE WalCells(r)]
Measured(ps) == Sized(ps, WalLen)

(* How long each is.                                                       *)
LEMMA WalLenIs ==
  WalLen[Header.rec] = Header.len /\ \A r \in LogRecords : WalLen[r] = WalCells(r)
  BY HeaderIs, RecordIs DEF WalLen

(* No record is too long for the length field (encode).                    *)
Short(recs) == \A k \in 1..Len(recs) : WalCells(recs[k]) < U32

(* A record is in a list.                                                  *)
Among(recs, r) == \E k \in 1..Len(recs) : recs[k] = r

(* A write keeps the lengths of what the file holds and of what it writes. *)
LEMMA SizedExtended ==
  ASSUME NEW lens, NEW R, NEW data \in Seq(Whole(R)), NEW ps \in Seq(Pieces(R)), Joins(data, ps),
         Sized(data, lens), Sized(ps, lens)
  PROVE  Sized(Extended(data, ps), lens)
<1>1. PICK o \in Nat, l \in Nat : o = Off(data, ps) /\ l = Len(ps) /\ o <= Len(data)
  BY ExtendedIs
<1>2. PICK e : e = Extended(data, ps)
  OBVIOUS
<1>3. /\ Len(e) = o + l
      /\ \A j \in 1..o : e[j] = data[j]
      /\ \A k \in 1..l : e[o + k] = [ps[k] EXCEPT !.from = 0]
  <2>1. /\ Len(Extended(data, ps)) = Off(data, ps) + Len(ps)
        /\ \A j \in 1..Off(data, ps) : Extended(data, ps)[j] = data[j]
        /\ \A k \in 1..Len(ps) :
             Extended(data, ps)[Off(data, ps) + k] = [ps[k] EXCEPT !.from = 0]
    BY ExtendedIs
  <2>2. QED
    BY <1>1, <1>2, <2>1, Zenon
<1>4. ASSUME NEW j \in 1..(o + l)
      PROVE  e[j].len = lens[e[j].rec]
  <2>1. CASE j \in 1..o
    BY <1>1, <1>3, <1>4, <2>1 DEF Sized
  <2>2. CASE j \notin 1..o
    <3>1. PICK k \in 1..l : j = o + k
      <4>1. j - o \in 1..l /\ j = o + (j - o)
        BY <1>1, <2>2
      <4>2. QED
        BY <4>1
    <3>2. PICK p \in Pieces(R) : p = ps[k]
      BY <1>1
    <3>3. e[j] = [p EXCEPT !.from = 0]
      BY <1>3, <3>1, <3>2
    <3>4. e[j].rec = p.rec /\ e[j].len = p.len
      BY <3>3 DEF Pieces
    <3>5. QED
      BY <1>1, <1>4, <3>2, <3>4 DEF Sized
  <2>3. QED
    BY <2>1, <2>2
<1>5. QED
  BY <1>2, <1>3, <1>4 DEF Sized

(* So does a write that stops (write_all fails), in the file and in the    *)
(* buffer.                                                                 *)
LEMMA SizedSplit ==
  ASSUME NEW lens, NEW R, NEW ps \in Seq(Pieces(R)), NEW s \in Splits(ps), Cuts \subseteq Nat,
         Sized(ps, lens)
  PROVE  Sized(s.done, lens) /\ Sized(s.rest, lens)
<1>1. PICK n \in 0..Len(ps), m \in 0..Len(ps) : SplitAt(ps, s, n, m)
  BY SplitIs
<1>2. PICK l \in Nat : l = Len(ps)
  OBVIOUS
<1>3. \A k \in 1..n : k \in 1..l
  BY <1>2
<1>4. \A k \in 1..(l - m) : m + k \in 1..l
  BY <1>2
<1>5. Len(s.done) = n /\ Len(s.rest) = l - m
  BY <1>1, <1>2 DEF SplitAt
<1>6. \A k \in 1..n : s.done[k].rec = ps[k].rec /\ s.done[k].len = ps[k].len
  BY <1>1 DEF SplitAt
<1>7. \A k \in 1..(l - m) : s.rest[k].rec = ps[m + k].rec /\ s.rest[k].len = ps[m + k].len
  BY <1>1, <1>2 DEF SplitAt
<1>8. \A k \in 1..l : ps[k].len = lens[ps[k].rec]
  BY <1>2 DEF Sized
<1>9. Sized(s.done, lens)
  BY <1>3, <1>5, <1>6, <1>8 DEF Sized
<1>10. Sized(s.rest, lens)
  BY <1>4, <1>5, <1>7, <1>8 DEF Sized
<1>11. QED
  BY <1>9, <1>10

(* Of the log in particular.                                               *)
LEMMA MeasuredExtended ==
  ASSUME NEW R, NEW data \in Seq(Whole(R)), NEW ps \in Seq(Pieces(R)), Joins(data, ps),
         Measured(data), Measured(ps)
  PROVE  Measured(Extended(data, ps))
  BY SizedExtended DEF Measured

(* And of a write to it that stops.                                        *)
LEMMA MeasuredSplit ==
  ASSUME NEW R, NEW ps \in Seq(Pieces(R)), NEW s \in Splits(ps), Cuts \subseteq Nat,
         Measured(ps)
  PROVE  Measured(s.done) /\ Measured(s.rest)
  BY SizedSplit DEF Measured

(* And every image a power loss leaves.                                    *)
LEMMA MeasuredImage ==
  ASSUME NEW f \in File, Measured(f.data), Measured(f.hard), NEW d \in Images(f)
  PROVE  Measured(d)
<1>1. f.data \in Seq(Pieces(Contents)) /\ Cuts \subseteq Nat
  BY SegmentIs, FilesAssumption DEF File
<1>2. \A s \in Splits(f.data) : Measured(s.done)
  BY <1>1, MeasuredSplit
<1>3. QED
  BY <1>2, ImagesAre

(* And cutting off what does not decode.                                   *)
LEMMA MeasuredGood ==
  ASSUME NEW d \in Segments, Measured(d)
  PROVE  Measured(Good(d))
<1>1. /\ Len(Good(d)) \in 0..Len(d)
      /\ \A k \in 1..Len(Good(d)) : Good(d)[k] = d[k]
  BY SegmentIs, GoodIs, FilesAssumption
<1>2. \A k \in 1..Len(Good(d)) : k \in 1..Len(d)
  BY <1>1, SegmentIs
<1>3. QED
  BY <1>1, <1>2 DEF Measured, Sized

(* Frames of any number of records are measured and whole; they can be     *)
(* read if they are short enough.                                          *)
LEMMA FramesRead ==
  ASSUME NEW recs \in Seq(LogRecords)
  PROVE  LET d == <<Header>> \o Frames(recs)
         IN  /\ Measured(d)
             /\ \A ps : Sewn(d, ps)
             /\ Short(recs) => \A r : Among(recs, r) => r \in Recs(d)
<1>1. PICK d : d = <<Header>> \o Frames(recs)
  OBVIOUS
<1>2. PICK l \in Nat : l = Len(recs)
  OBVIOUS
<1>3. /\ d \in Segments /\ Len(d) = l + 1 /\ d[1] = Header
      /\ \A k \in 1..l : d[k + 1] = Frame(recs[k])
  BY <1>1, <1>2, TempOf DEF Segments
<1>4. \A k \in 1..l : /\ recs[k] \in LogRecords /\ d[k + 1].rec = recs[k]
                      /\ d[k + 1].len = WalCells(recs[k])
                      /\ d[k + 1].from = 0 /\ d[k + 1].to = d[k + 1].len
  <2>1. ASSUME NEW k \in 1..l
        PROVE  /\ recs[k] \in LogRecords /\ d[k + 1].rec = recs[k]
               /\ d[k + 1].len = WalCells(recs[k])
               /\ d[k + 1].from = 0 /\ d[k + 1].to = d[k + 1].len
    <3>1. recs[k] \in LogRecords
      BY <1>2
    <3>2. d[k + 1] = [rec |-> recs[k], len |-> WalCells(recs[k]), from |-> 0,
                      to |-> WalCells(recs[k])]
      BY <1>3 DEF Frame, WholePiece
    <3>3. QED
      BY <3>1, <3>2
  <2>2. QED
    BY <2>1
<1>5. \A j \in 1..(l + 1) : j = 1 \/ \E k \in 1..l : j = k + 1
  <2>1. \A j \in 1..(l + 1) : j = 1 \/ (j - 1 \in 1..l /\ j = (j - 1) + 1)
    OBVIOUS
  <2>2. QED
    BY <2>1
<1>6. Measured(d)
  <2>1. ASSUME NEW j \in 1..(l + 1)
        PROVE  d[j].len = WalLen[d[j].rec]
    <3>1. CASE j = 1
      BY <1>3, <3>1, WalLenIs
    <3>2. CASE j # 1
      <4>1. PICK k \in 1..l : j = k + 1
        BY <1>5, <3>2
      <4>2. QED
        BY <1>4, <4>1, WalLenIs
    <3>3. QED
      BY <3>1, <3>2
  <2>2. QED
    BY <1>3, <2>1 DEF Measured, Sized
<1>7. Header.to = Header.len /\ Header.from = 0 /\ Header.len < U32
  BY HeaderIs, FilesAssumption
<1>8. \A j \in 1..(l + 1) : IsWhole(d[j])
  BY <1>3, <1>4, <1>5, <1>7 DEF IsWhole
<1>9. \A ps : Sewn(d, ps)
  BY <1>3, <1>8 DEF Sewn
<1>10. ASSUME Short(recs), NEW r, Among(recs, r)
       PROVE  r \in Recs(d)
  <2>1. PICK k \in 1..l : recs[k] = r
    BY <1>2, <1>10 DEF Among
  <2>2. ASSUME NEW j \in 1..(l + 1)
        PROVE  d[j].len < U32
    <3>1. CASE j = 1
      BY <1>3, <1>7, <3>1
    <3>2. CASE j # 1
      <4>1. PICK i \in 1..l : j = i + 1
        BY <1>5, <3>2
      <4>2. WalCells(recs[i]) < U32
        BY <1>2, <1>10 DEF Short
      <4>3. QED
        BY <1>4, <4>1, <4>2
    <3>3. QED
      BY <3>1, <3>2
  <2>3. \A j \in 1..(l + 1) : ReadableAt(d, j)
    BY <1>8, <2>2 DEF ReadableAt
  <2>4. k + 1 \in 2..(l + 1) /\ \A j \in 1..(k + 1) : j \in 1..(l + 1)
    OBVIOUS
  <2>5. Upto(d, k + 1)
    BY <2>3, <2>4 DEF Upto
  <2>6. d # <<>>
    <3>1. Len(<<>>) = 0
      OBVIOUS
    <3>2. QED
      BY <1>3, <3>1
  <2>7. Headed(d)
    BY <1>3, <2>6 DEF Headed
  <2>8. d[k + 1].rec = r
    BY <1>4, <2>1
  <2>9. QED
    BY <1>3, <2>4, <2>5, <2>7, <2>8, RecsAre
<1>11. QED
  BY <1>1, <1>6, <1>9, <1>10

(* What recover reads is short enough for its length field.                *)
LEMMA ReadShort ==
  ASSUME NEW d \in Segments, Measured(d), NEW r \in Recs(d)
  PROVE  r \in LogRecords /\ WalCells(r) < U32
<1>1. PICK k \in 2..Len(d) : d[k].rec = r /\ Upto(d, k)
  BY RecsAre
<1>2. Len(d) \in Nat
  BY SegmentIs
<1>3. k \in 1..Len(d) /\ k \in 1..k
  BY <1>2
<1>4. r \in LogRecords
  BY RecsTyped
<1>5. r # Header.rec
  BY <1>4, RecordIs
<1>6. d[k].len < U32
  BY <1>1, <1>3 DEF Upto, ReadableAt
<1>7. QED
  BY <1>1, <1>3, <1>4, <1>6, WalLenIs DEF Measured, Sized

(* A checkpoint copies every record above its watermark (survivors), and   *)
(* no other.                                                               *)
LEMMA SurvivorsAll ==
  ASSUME NEW data \in Segments, NEW n
  PROVE  /\ \A r \in Recs(data) : r.lsn > n => Among(Survivors(data, n), r)
         /\ \A r : Among(Survivors(data, n), r) => r \in Recs(data)
<1>1. PICK log \in Seq(LogRecords) : log = Log(data)
  BY SegmentLog, FilesAssumption
<1>2. PICK l \in Nat : l = Len(log)
  OBVIOUS
<1>3. \A r : r \in Recs(data) <=> \E k \in 1..l : log[k] = r
  <2>1. Range(log) = {log[k] : k \in 1..Len(log)}
    BY RangeEquality
  <2>2. QED
    BY <1>1, <1>2, <2>1 DEF Recs
<1> DEFINE f == CHOOSE g : Kept(log, n, g)
<1>4. Survivors(data, n) = f[l]
  BY <1>1, <1>2 DEF Survivors, Kept
<1>5. Kept(log, n, f)
  BY KeptExists
<1> HIDE DEF f
<1>6. /\ f[0] = <<>>
      /\ \A k \in 1..l : /\ log[k] \in LogRecords
                         /\ f[k] = IF log[k].lsn > n THEN Append(f[k - 1], log[k])
                                   ELSE f[k - 1]
  <2>1. \A k \in 1..l : k \in 0..l /\ k # 0
    OBVIOUS
  <2>2. 0 \in 0..l
    OBVIOUS
  <2>3. \A k \in 1..l : log[k] \in LogRecords
    BY <1>1, <1>2
  <2>4. f = [k \in 0..l |->
               IF k = 0 THEN <<>>
               ELSE IF log[k].lsn > n THEN Append(f[k - 1], log[k]) ELSE f[k - 1]]
    BY <1>2, <1>5 DEF Kept
  <2>5. f[0] = <<>>
    BY <2>2, <2>4
  <2>6. \A k \in 1..l :
          f[k] = IF log[k].lsn > n THEN Append(f[k - 1], log[k]) ELSE f[k - 1]
    BY <2>1, <2>4
  <2>7. QED
    BY <2>3, <2>5, <2>6
<1> DEFINE Ok(m) == /\ f[m] \in Seq(LogRecords)
                    /\ \A j \in 1..m : log[j].lsn > n => Among(f[m], log[j])
           Failing == {m \in 0..l : ~Ok(m)}
<1>7. Failing \in SUBSET Nat
  OBVIOUS
<1>8. ASSUME Failing # {} PROVE FALSE
  <2>1. PICK m \in Failing : \A j \in Failing : m <= j
    <3> HIDE DEF Failing
    <3>1. QED
      BY <1>7, <1>8, Least
  <2>2. m # 0
    <3>1. Ok(0)
      BY <1>6, EmptySeq
    <3> HIDE DEF Ok
    <3>2. QED
      BY <3>1
  <2>3. m \in 1..l /\ m - 1 \in 0..l /\ m - 1 < m
    BY <2>2
  <2>4. m - 1 \notin Failing
    <3> HIDE DEF Failing
    <3>1. QED
      BY <1>7, <2>1, <2>3
  <2>5. Ok(m - 1)
    BY <2>3, <2>4
  <2>6. \A j \in 1..m : j = m \/ j \in 1..(m - 1)
    BY <2>3
  <2>7. CASE ~(log[m].lsn > n)
    <3>1. f[m] = f[m - 1]
      BY <1>6, <2>3, <2>7
    <3>2. Ok(m)
      BY <2>5, <2>6, <2>7, <3>1
    <3>3. QED
      BY <2>1, <3>2
  <2>8. CASE log[m].lsn > n
    <3>1. PICK g \in Seq(LogRecords) : g = f[m - 1]
      BY <2>5
    <3>2. PICK o \in Nat : o = Len(g)
      OBVIOUS
    <3>3. log[m] \in LogRecords /\ f[m] = Append(g, log[m])
      BY <1>6, <2>3, <2>8, <3>1
    <3>4. /\ f[m] \in Seq(LogRecords) /\ Len(f[m]) = o + 1 /\ f[m][o + 1] = log[m]
          /\ \A k \in 1..o : f[m][k] = g[k]
      BY <3>2, <3>3, AppendProperties
    <3>5. o + 1 \in 1..(o + 1) /\ \A k \in 1..o : k \in 1..(o + 1)
      OBVIOUS
    <3>6. \A j \in 1..(m - 1) : log[j].lsn > n => Among(g, log[j])
      BY <2>5, <3>1
    <3>7. ASSUME NEW r, Among(g, r) PROVE Among(f[m], r)
      <4>1. PICK k \in 1..o : g[k] = r
        BY <3>2, <3>7 DEF Among
      <4>2. QED
        BY <3>4, <3>5, <4>1 DEF Among
    <3>8. Among(f[m], log[m])
      BY <3>4, <3>5 DEF Among
    <3>9. \A j \in 1..m : log[j].lsn > n => Among(f[m], log[j])
      BY <2>6, <3>6, <3>7, <3>8
    <3>10. Ok(m)
      BY <3>4, <3>9
    <3>11. QED
      BY <2>1, <3>10
  <2>9. QED
    BY <2>7, <2>8
<1>9. l \in 0..l /\ l \notin Failing
  BY <1>8
<1>10. Ok(l)
  BY <1>9
<1>11. \A r \in Recs(data) : r.lsn > n => Among(Survivors(data, n), r)
  BY <1>3, <1>4, <1>10
<1>12. ASSUME NEW r, Among(Survivors(data, n), r)
       PROVE  r \in Recs(data)
  <2>1. PICK k \in 1..Len(Survivors(data, n)) : Survivors(data, n)[k] = r
    BY <1>12 DEF Among
  <2>2. data \in Seq(Whole(Contents)) /\ HEADER_LEN < U32 /\ \A c \in Contents : c.lsn \in Nat
    BY SegmentIs, FilesAssumption, RecordIs
  <2>3. PICK j \in 1..Len(Log(data)) : Survivors(data, n)[k] = Log(data)[j]
    BY <2>1, <2>2, SurvivorsAre
  <2>4. QED
    BY <1>1, <1>2, <1>3, <2>1, <2>3
<1>13. QED
  BY <1>11, <1>12

-----------------------------------------------------------------------------
(* The invariant of the log's steps                                        *)

(* What is stable of a file is the beginning of what is in it.             *)
Leading == \A i \in Inodes : Leads(file[i].hard, file[i].data)

(* Log records have the length of their frames, in the files and in the    *)
(* buffer.                                                                 *)
Measures ==
  /\ \A i \in Inodes : Measured(file[i].data) /\ Measured(file[i].hard)
  /\ Measured(wbuf)

(* recover has cut off what does not decode.                               *)
Scanned == wpc \notin {"closed", "header", "hsync", "recover"}

(* The buffer completes what the writer's file ends with; without a scar   *)
(* that file is whole but for that, and is the segment, except between the *)
(* rename and the reopening of a checkpoint.                               *)
Tidy ==
  /\ Ended(wbuf) /\ SameFrame(DataOf(handle), wbuf)
  /\ wpc = "header" => ~Headed(DataOf(handle))
  /\ Scanned /\ ~scarred => Sewn(DataOf(handle), wbuf)
  /\ wpc \notin {"closed", "ckdir", "ckreopen"} /\ ~scarred => handle = active

(* The batch under way is in the file, in the buffer or still to write.    *)
Batched ==
  /\ wpc \notin {"write", "flush", "sync"} => given = <<>>
  /\ wpc = "sync" => wbuf = <<>>
  /\ \A k \in 1..Len(given) :
       \/ Holds(DataOf(handle), given[k]) \/ Holds(wbuf, given[k])
       \/ \E j \in 1..Len(todo) : todo[j] = given[k]

(* The records a checkpoint keeps are all above its watermark, each short  *)
(* enough to be read, and the temp segment holds nothing else.             *)
Copying ==
  /\ wpc \in {"ckwrite", "cksync", "ckrename"} =>
       /\ Short(live)
       /\ \A r \in OnDisk : r.lsn > upTo => Among(live, r)
  /\ wpc \in {"cksync", "ckrename"} => file[temp].data = <<Header>> \o Frames(live)
  /\ wpc = "ckrename" => file[temp].hard = file[temp].data
  /\ wpc \in {"ckdir", "ckreopen"} => file[active].data = <<Header>> \o Frames(live)

(* What a step of the log relies on besides.                               *)
JournalInv == Leading /\ Measures /\ Tidy /\ Batched /\ Copying

(* A write of ps to the end of data, complete or not, takes back nothing   *)
(* that could be read, and leaves no frame open that the buffer does not   *)
(* complete (BufWriter).                                                   *)
LEMMA WrittenKeeps ==
  ASSUME NEW data \in Segments, NEW ps \in Seq(LogPiece), Joins(data, ps),
         SameFrame(data, ps), Ended(ps), Measured(data), Measured(ps)
  PROVE  /\ Extended(data, ps) \in Segments
         /\ Leads(data, Extended(data, ps)) /\ Measured(Extended(data, ps))
         /\ \A r : Holds(data, r) \/ Holds(ps, r) => Holds(Extended(data, ps), r)
         /\ Sewn(data, ps) => \A qs : Sewn(Extended(data, ps), qs)
         /\ \A s \in Splits(ps) :
              /\ Extended(data, s.done) \in Segments
              /\ Leads(data, Extended(data, s.done)) /\ Measured(Extended(data, s.done))
              /\ Measured(s.rest) /\ Ended(s.rest)
              /\ SameFrame(Extended(data, s.done), s.rest)
              /\ Sewn(data, ps) => Sewn(Extended(data, s.done), s.rest)
<1>1. data \in Seq(Whole(Contents)) /\ Cuts \subseteq Nat
  BY SegmentIs, FilesAssumption
<1>2. ps \in Seq(Pieces(Contents))
  BY LogPieces
<1>3. Extended(data, ps) \in Segments
  BY SegmentExtended
<1>4. Leads(data, Extended(data, ps))
  BY <1>1, <1>2, ExtendedLeads
<1>5. Measured(Extended(data, ps))
  BY <1>1, <1>2, MeasuredExtended
<1>6. \A r : Holds(data, r) \/ Holds(ps, r) => Holds(Extended(data, ps), r)
  BY <1>1, <1>2, ExtendedHolds
<1>7. Sewn(data, ps) => \A qs : Sewn(Extended(data, ps), qs)
  BY <1>1, <1>2, ExtendedSewn
<1>8. ASSUME NEW s \in Splits(ps)
      PROVE  /\ Extended(data, s.done) \in Segments
             /\ Leads(data, Extended(data, s.done)) /\ Measured(Extended(data, s.done))
             /\ Measured(s.rest) /\ Ended(s.rest)
             /\ SameFrame(Extended(data, s.done), s.rest)
             /\ Sewn(data, ps) => Sewn(Extended(data, s.done), s.rest)
  <2>1. s.done \in Seq(Pieces(LogRecords))
    BY <1>1, SplitIs DEF LogPiece
  <2>2. PICK done \in Seq(LogPiece) : done = s.done
    BY <2>1 DEF LogPiece
  <2>3. Joins(data, done)
    BY <1>1, <1>2, <2>2, SplitJoins
  <2>4. SameFrame(data, done) /\ SameFrame(Extended(data, done), s.rest) /\ Ended(s.rest)
        /\ (Sewn(data, ps) => Sewn(Extended(data, done), s.rest))
    BY <1>1, <1>2, <2>2, SplitSewn
  <2>5. Measured(done) /\ Measured(s.rest)
    BY <1>1, <1>2, <2>2, MeasuredSplit
  <2>6. done \in Seq(Pieces(Contents))
    BY LogPieces
  <2>7. Extended(data, done) \in Segments
    BY <2>3, SegmentExtended
  <2>8. Leads(data, Extended(data, done))
    BY <1>1, <2>3, <2>4, <2>6, ExtendedLeads
  <2>9. Measured(Extended(data, done))
    BY <1>1, <2>3, <2>5, <2>6, MeasuredExtended
  <2>10. QED
    BY <2>2, <2>4, <2>5, <2>7, <2>8, <2>9
<1>9. QED
  BY <1>3, <1>4, <1>5, <1>6, <1>7, <1>8

(* One frame is a buffer of its own.                                       *)
LEMMA FrameKeeps ==
  ASSUME NEW data \in Segments, NEW r \in LogRecords
  PROVE  LET ps == <<Frame(r)>>
         IN  /\ ps \in Seq(LogPiece) /\ Joins(data, ps) /\ SameFrame(data, ps)
             /\ Ended(ps) /\ Measured(ps) /\ Holds(ps, r)
             /\ Append(data, Frame(r)) = Extended(data, ps)
             /\ Sewn(data, <<>>) => Sewn(data, ps)
             /\ \A s \in Splits(ps) : data \o s.done = Extended(data, s.done)
<1>1. PICK ps : ps = <<Frame(r)>>
  OBVIOUS
<1>2. /\ ps \in Seq(LogPiece) /\ Joins(data, ps) /\ Append(data, Frame(r)) = Extended(data, ps)
      /\ \A s \in Splits(ps) : data \o s.done = Extended(data, s.done)
  BY <1>1, FrameWritten
<1>3. Frame(r) = [rec |-> r, len |-> WalCells(r), from |-> 0, to |-> WalCells(r)]
  BY DEF Frame, WholePiece
<1>4. Len(ps) = 1 /\ ps[1] = Frame(r) /\ ps # <<>>
  BY <1>1
<1>5. ps[1].rec = r /\ ps[1].len = WalCells(r) /\ ps[1].from = 0 /\ ps[1].to = WalCells(r)
  BY <1>3, <1>4
<1>6. ~Rest(ps) /\ ~Rest(<<>>)
  BY <1>5 DEF Rest
<1>7. SameFrame(data, ps) /\ (Sewn(data, <<>>) => Sewn(data, ps))
  BY <1>6 DEF SameFrame, Sewn
<1>8. \A k \in 1..Len(ps) : k = 1
  BY <1>4
<1>9. Ended(ps) /\ Measured(ps)
  BY <1>5, <1>8, WalLenIs DEF Ended, Measured, Sized
<1>10. Holds(ps, r)
  BY <1>4, <1>5 DEF Holds
<1>11. QED
  BY <1>1, <1>2, <1>7, <1>9, <1>10

(* The writer's file and buffer, as every lemma below needs them.          *)
LEMMA WriterIs ==
  ASSUME WalInv, JournalInv, wpc # "closed"
  PROVE  /\ handle \in Inodes /\ active \in Inodes
         /\ DataOf(handle) = file[handle].data /\ DataOf(active) = file[active].data
         /\ DataOf(handle) \in Segments /\ DataOf(active) \in Segments
         /\ wbuf \in Seq(LogPiece) /\ Joins(DataOf(handle), wbuf)
         /\ SameFrame(DataOf(handle), wbuf) /\ Ended(wbuf)
         /\ Measured(DataOf(handle)) /\ Measured(DataOf(active)) /\ Measured(wbuf)
<1>1. /\ handle \in Inodes /\ active \in Inodes
      /\ DataOf(handle) = file[handle].data /\ DataOf(active) = file[active].data
      /\ DataOf(handle) \in Segments /\ DataOf(active) \in Segments
  BY HandleIs
<1>2. wbuf \in Seq(LogPiece) /\ Joins(DataOf(handle), wbuf)
  BY DEF WalInv, WalTypes, WBuffered
<1>3. SameFrame(DataOf(handle), wbuf) /\ Ended(wbuf)
  BY DEF JournalInv, Tidy
<1>4. Measured(DataOf(handle)) /\ Measured(DataOf(active)) /\ Measured(wbuf)
  BY <1>1 DEF JournalInv, Measures
<1>5. QED
  BY <1>1, <1>2, <1>3, <1>4

-----------------------------------------------------------------------------
(* What a step does to the files                                           *)

(* A step that takes nothing from the files: each stays, is written to, or *)
(* is synced.                                                              *)
Growing ==
  \A i \in Inodes :
    \/ file'[i] = file[i]
    \/ file'[i].hard = file[i].hard /\ Leads(file[i].data, file'[i].data)
    \/ file'[i].data = file[i].data /\ file'[i].hard = file[i].data

(* A write that takes back nothing.                                        *)
LEMMA LeadingWrites ==
  ASSUME WalInv, Leading, NEW i \in Inodes, NEW d \in Segments, Write(i, d),
         Leads(file[i].data, d)
  PROVE  Leading'
<1>1. /\ file'[i].data = d /\ file'[i].hard = file[i].hard
      /\ \A j \in Inodes : j # i => file'[j] = file[j]
  BY WriteIs DEF WalInv
<1>2. file[i].hard \in Seq(Whole(Contents)) /\ file[i].data \in Seq(Whole(Contents))
  BY SegmentIs DEF WalInv, WalTypes, File
<1>3. Leads(file[i].hard, file[i].data)
  BY DEF Leading
<1>4. Leads(file[i].hard, d)
  BY <1>2, <1>3, SegmentIs, LeadsOn
<1>5. QED
  BY <1>1, <1>4 DEF Leading

(* A sync of any file.                                                     *)
LEMMA LeadingSyncs ==
  ASSUME WalInv, Leading, NEW i \in Inodes, Sync(i)
  PROVE  Leading'
<1>1. /\ file'[i].data = file[i].data /\ file'[i].hard = file[i].data
      /\ \A j \in Inodes : j # i => file'[j] = file[j]
  BY SyncIs DEF WalInv
<1>2. file[i].data \in Seq(Whole(Contents))
  BY SegmentIs DEF WalInv, WalTypes, File
<1>3. Leads(file[i].data, file[i].data)
  BY <1>2, LeadsSelf
<1>4. QED
  BY <1>1, <1>3 DEF Leading

(* Nothing is measured of nothing.                                         *)
LEMMA NoneKept ==
  /\ Leads(<<>>, <<>>) /\ Measured(<<>>) /\ \A d : Leads(<<>>, d)
  /\ \A r : ~Among(<<>>, r)
  BY DEF Leads, Measured, Sized, Among

(* Inodes given back are empty.                                            *)
LEMMA FilesReclaimed ==
  ASSUME NEW f \in [Inodes -> File], NEW inUse, file' = Reclaimed(f, inUse),
         \A i \in Inodes : Leads(f[i].hard, f[i].data) /\ Measured(f[i].data)
                           /\ Measured(f[i].hard),
         wbuf' = <<>> \/ (Measured(wbuf) /\ wbuf' = wbuf)
  PROVE  Leading' /\ Measures'
<1>1. \A j \in Inodes : file'[j] = f[j] \/ file'[j] = Empty
  BY ReclaimedIs
<1>2. QED
  BY <1>1, EmptyFile, NoneKept DEF Leading, Measures

(* A write to a file of the writer's.                                      *)
LEMMA FileWritten ==
  ASSUME WalInv, JournalInv, NEW i \in Inodes, NEW d \in Segments, Write(i, d),
         Leads(file[i].data, d), Measured(d), Measured(wbuf')
  PROVE  Leading' /\ Measures' /\ Growing
<1>1. /\ file'[i].data = d /\ file'[i].hard = file[i].hard
      /\ \A j \in Inodes : j # i => file'[j] = file[j]
  BY WriteIs DEF WalInv
<1>2. Measures'
  BY <1>1 DEF JournalInv, Measures
<1>3. Growing
  BY <1>1 DEF Growing
<1>4. QED
  BY <1>2, <1>3, LeadingWrites DEF JournalInv

(* A sync of any file (sync_data).                                         *)
LEMMA FileSynced ==
  ASSUME WalInv, JournalInv, NEW i \in Inodes, Sync(i), wbuf' = wbuf
  PROVE  /\ Leading' /\ Measures' /\ Growing
         /\ \A j \in Inodes \union {0} : DataOf(j)' = DataOf(j)
<1>1. /\ file'[i].data = file[i].data /\ file'[i].hard = file[i].data
      /\ \A j \in Inodes : j # i => file'[j] = file[j]
  BY SyncIs DEF WalInv
<1>2. Measures'
  BY <1>1 DEF JournalInv, Measures
<1>3. \A j \in Inodes : file'[j].data = file[j].data
  BY <1>1
<1>4. \A j \in Inodes \union {0} : DataOf(j)' = DataOf(j)
  BY <1>3 DEF DataOf
<1>5. Growing
  BY <1>1 DEF Growing
<1>6. QED
  BY <1>2, <1>4, <1>5, LeadingSyncs DEF JournalInv

-----------------------------------------------------------------------------
(* What most steps leave alone                                             *)

(* Between calls no batch is under way.                                    *)
LEMMA NoneGiven ==
  ASSUME given' = <<>>, wpc' = "sync" => wbuf' = <<>>
  PROVE  Batched'
<1>1. \A k \in 1..Len(<<>>) : FALSE
  OBVIOUS
<1>2. QED
  BY <1>1 DEF Batched

(* No checkpoint is past its first step.                                   *)
LEMMA NotCopying ==
  ASSUME wpc' \notin {"ckwrite", "cksync", "ckrename", "ckdir", "ckreopen"}
  PROVE  Copying'
  BY DEF Copying

(* The writer, its buffer and its file stay.                               *)
LEMMA TidySame ==
  ASSUME Tidy, UNCHANGED <<wbuf, handle, active>>, scarred => scarred',
         DataOf(handle)' = DataOf(handle), Scanned' => Scanned, wpc' # "header",
         wpc \notin {"closed", "ckdir", "ckreopen"}
  PROVE  Tidy'
  BY DEF Tidy

(* The files and the buffer stay.                                          *)
LEMMA FilesStay ==
  ASSUME JournalInv, UNCHANGED <<file, wbuf>> PROVE Leading' /\ Measures' /\ Growing
  BY DEF JournalInv, Leading, Measures, Growing

(* The buffer is empty.                                                    *)
LEMMA TidyNone ==
  ASSUME wbuf' = <<>>, wpc' # "header",
         Scanned' /\ ~scarred' => Sewn(DataOf(handle)', <<>>),
         wpc' \notin {"closed", "ckdir", "ckreopen"} /\ ~scarred' => handle' = active'
  PROVE  Tidy'
  BY NothingLeft DEF Tidy

-----------------------------------------------------------------------------
(* Wal::open and recover                                                   *)

(* open: a file without a full header does not start with one.             *)
LEMMA OpenKeeps ==
  ASSUME WalInv, WalInv', JournalInv, Open PROVE JournalInv'
<1>1. /\ wpc = "closed" /\ UNCHANGED <<file, given>> /\ wbuf' = <<>>
      /\ wpc' \in {"header", "recover"} /\ wpc' # "closed"
  BY DEF Open, WGoto, callVars
<1>2. Leading' /\ Measures'
  BY <1>1, NoneKept DEF JournalInv, Leading, Measures
<1>3. given' = <<>>
  BY <1>1 DEF JournalInv, Batched
<1>4. Batched' /\ Copying'
  BY <1>1, <1>3, NoneGiven, NotCopying
<1>5. handle' = active' /\ ~Scanned'
  BY <1>1 DEF Open, Scanned
<1>6. wpc' = "header" => ~Headed(DataOf(handle)')
  <2>1. CASE active = 0
    <3>1. Fresh \in Inodes /\ handle' = Fresh
      BY <2>1, FreshIs DEF Open
    <3>2. file'[Fresh] = Empty
      BY <1>1, <2>1, <3>1 DEF WalInv, Names
    <3>3. Fresh # 0
      BY <3>1, NoCall
    <3>4. DataOf(handle)' = <<>>
      BY <3>1, <3>2, <3>3, EmptyFile DEF DataOf
    <3>5. QED
      BY <3>4 DEF Headed
  <2>2. CASE active # 0
    <3>1. handle' = active /\ (wpc' = "header" => CellsIn(DataOf(active)) < HEADER_LEN)
      BY <2>2 DEF Open, WGoto
    <3>2. active \in Inodes /\ DataOf(active) = file[active].data
      BY <2>2 DEF WalInv, WalTypes, DataOf
    <3>3. DataOf(active) \in Segments
      BY <3>2 DEF WalInv, WalTypes, File
    <3>4. DataOf(handle)' = DataOf(active)
      BY <1>1, <3>1 DEF DataOf
    <3>5. QED
      BY <3>1, <3>3, <3>4, NotHeaded
  <2>3. QED
    BY <2>1, <2>2
<1>7. Tidy'
  BY <1>1, <1>5, <1>6, NothingLeft DEF Tidy
<1>8. QED
  BY <1>2, <1>4, <1>7 DEF JournalInv

(* open: the header takes the place of what could not be read.             *)
LEMMA WriteHeaderKeeps ==
  ASSUME WalInv, FilesOrdered, JournalInv, WriteHeader PROVE JournalInv' /\ Growing
<1>1. /\ wpc = "header" /\ Write(handle, <<Header>>) /\ wpc' = "hsync"
      /\ UNCHANGED <<handle, active, wbuf, given>>
  BY DEF WriteHeader, WGoto, writer, names, callVars
<1>2. wbuf = <<>> /\ handle = active
  BY <1>1 DEF WalInv, Names, AtStart
<1>3. /\ handle \in Inodes /\ DataOf(handle) = file[handle].data /\ DataOf(handle) \in Segments
  BY <1>1, HandleIs
<1>4. Segment(DataOf(handle)) /\ ~Headed(DataOf(handle))
  BY <1>1, <1>3 DEF FilesOrdered, JournalInv, Tidy
<1>5. <<Header>> \in Segments /\ Measured(<<Header>>)
  <2>1. \A k \in 1..Len(<<Header>>) : k = 1
    OBVIOUS
  <2>2. QED
    BY <2>1, SegmentOne, WalLenIs DEF Measured, Sized
<1>6. Leads(file[handle].data, <<Header>>)
  BY <1>3, <1>4, UnheadedLeads
<1>7. Leading' /\ Measures' /\ Growing
  BY <1>1, <1>2, <1>3, <1>5, <1>6, NoneKept, FileWritten
<1>8. Tidy'
  BY <1>1, <1>2, TidyNone DEF Scanned
<1>9. Batched' /\ Copying'
  BY <1>1, NoneGiven, NotCopying DEF JournalInv, Batched
<1>10. QED
  BY <1>7, <1>8, <1>9 DEF JournalInv

(* open: the header is synced.                                             *)
LEMMA SyncHeaderKeeps ==
  ASSUME WalInv, JournalInv, SyncHeader PROVE JournalInv' /\ Growing
<1>1. /\ wpc = "hsync" /\ Sync(handle) /\ wpc' = "recover"
      /\ UNCHANGED <<handle, active, wbuf, given, scarred>>
  BY DEF SyncHeader, WGoto, writer, names, callVars, wHistory
<1>2. handle \in Inodes
  BY <1>1, HandleIs
<1>3. Leading' /\ Measures' /\ Growing /\ DataOf(handle)' = DataOf(handle)
  BY <1>1, <1>2, FileSynced DEF DataOf
<1>4. Tidy'
  BY <1>1, <1>3, TidySame DEF Scanned, JournalInv
<1>5. Batched' /\ Copying'
  BY <1>1, NoneGiven, NotCopying DEF JournalInv, Batched
<1>6. QED
  BY <1>3, <1>4, <1>5 DEF JournalInv

(* recover: what is left of the segment is whole frames.                   *)
LEMMA RecoverKeeps ==
  ASSUME WalInv, FilesOrdered, JournalInv, Recover PROVE JournalInv' /\ Growing
<1>1. /\ wpc = "recover" /\ UNCHANGED <<handle, active, wbuf, given, scarred>>
      /\ wpc' \in {"ready", "rsync"}
  BY DEF Recover, WGoto, WAnswer, writer, names, callVars, wHistory
<1>2. wbuf = <<>> /\ handle = active
  BY <1>1 DEF WalInv, Names, AtStart
<1>3. /\ active \in Inodes /\ DataOf(active) = file[active].data /\ DataOf(active) \in Segments
  BY <1>1, HandleIs
<1>4. Headed(DataOf(active))
  BY <1>1 DEF FilesOrdered, Opened
<1> DEFINE good == Good(DataOf(active))
<1>5. /\ good \in Segments /\ Leads(DataOf(active), good) /\ Sewn(good, <<>>)
      /\ Measured(good)
  <2>1. Measured(DataOf(active))
    BY <1>3 DEF JournalInv, Measures
  <2>2. QED
    BY <1>3, <1>4, <2>1, WholeGood, MeasuredGood, SegmentGood, FilesAssumption
<1>6. Leading' /\ Measures' /\ Growing /\ DataOf(active)' = good
  <2>1. CASE good = DataOf(active)
    <3>1. file' = file
      BY <2>1 DEF Recover
    <3>2. QED
      BY <1>1, <2>1, <3>1, FilesStay DEF DataOf
  <2>2. CASE good # DataOf(active)
    <3>1. Write(active, good)
      BY <2>2 DEF Recover
    <3>2. Leads(file[active].data, good)
      BY <1>3, <1>5
    <3>3. Leading' /\ Measures' /\ Growing
      BY <1>1, <1>2, <1>3, <1>5, <3>1, <3>2, NoneKept, FileWritten
    <3>4. DataOf(active)' = good
      BY <1>1, <1>3, <1>5, <3>1, WriteIs, NoCall DEF WalInv, DataOf
    <3>5. QED
      BY <3>3, <3>4
  <2>3. QED
    BY <2>1, <2>2
<1>7. DataOf(handle)' = good
  BY <1>1, <1>2, <1>6 DEF DataOf
<1>8. Tidy'
  BY <1>1, <1>2, <1>5, <1>7, TidyNone
<1>9. Batched' /\ Copying'
  BY <1>1, NoneGiven, NotCopying DEF JournalInv, Batched
<1>10. QED
  BY <1>6, <1>8, <1>9 DEF JournalInv

(* recover: the cut is synced, and then the directory.                     *)
LEMMA SyncCutKeeps ==
  ASSUME WalInv, JournalInv, SyncCut \/ SyncCutName PROVE JournalInv' /\ Growing
<1>1. /\ wpc \in {"rsync", "rdir"}
      /\ Sync(active) \/ file' = file
      /\ wpc' \in {"rdir", "ready"}
      /\ UNCHANGED <<handle, active, wbuf, given, scarred>>
  BY DEF SyncCut, SyncCutName, WGoto, WAnswer, writer, names, callVars, wHistory
<1>2. handle \in Inodes /\ active \in Inodes
  BY <1>1, HandleIs
<1>3. Leading' /\ Measures' /\ Growing /\ DataOf(handle)' = DataOf(handle)
  <2>1. CASE file' = file
    BY <1>1, <2>1, FilesStay DEF DataOf
  <2>2. CASE Sync(active)
    BY <1>1, <1>2, <2>2, FileSynced DEF DataOf
  <2>3. QED
    BY <1>1, <2>1, <2>2
<1>4. Tidy'
  BY <1>1, <1>3, TidySame DEF Scanned, JournalInv
<1>5. Batched' /\ Copying'
  BY <1>1, NoneGiven, NotCopying DEF JournalInv, Batched
<1>6. QED
  BY <1>3, <1>4, <1>5 DEF JournalInv

-----------------------------------------------------------------------------
(* Calls                                                                   *)

(* append_batch starts with the whole batch still to write.                *)
LEMMA AppendBatchKeeps ==
  ASSUME JournalInv, NEW recs \in Seq(LogRecords), AppendBatch(recs) PROVE JournalInv'
<1>1. /\ wpc = "ready" /\ UNCHANGED <<file, handle, active, wbuf, scarred>>
      /\ todo' = recs /\ given' = recs
      /\ IF recs = <<>> THEN wpc' = "ready" ELSE wpc' = "write"
  BY DEF AppendBatch, WGoto, WAnswer, writer, names, wHistory
<1>2. Leading' /\ Measures'
  BY <1>1, FilesStay
<1>3. DataOf(handle)' = DataOf(handle)
  BY <1>1 DEF DataOf
<1>4. Tidy'
  BY <1>1, <1>3, TidySame DEF Scanned, JournalInv
<1>5. Batched'
  BY <1>1 DEF Batched
<1>6. QED
  BY <1>1, <1>2, <1>4, <1>5, NotCopying DEF JournalInv

(* flush and checkpoint start with no batch.                               *)
LEMMA OtherCallKeeps ==
  ASSUME JournalInv, FlushCall \/ \E n : CheckpointCall(n) PROVE JournalInv'
<1>1. /\ wpc = "ready" /\ UNCHANGED <<file, handle, active, wbuf, scarred, given>>
      /\ wpc' \in {"flush", "ckflush"}
  BY DEF FlushCall, CheckpointCall, WGoto, writer, names, callVars, wHistory
<1>2. Leading' /\ Measures'
  BY <1>1, FilesStay
<1>3. DataOf(handle)' = DataOf(handle)
  BY <1>1 DEF DataOf
<1>4. Tidy'
  BY <1>1, <1>3, TidySame DEF Scanned, JournalInv
<1>5. Batched' /\ Copying'
  BY <1>1, NoneGiven, NotCopying DEF JournalInv, Batched
<1>6. QED
  BY <1>2, <1>4, <1>5 DEF JournalInv

-----------------------------------------------------------------------------
(* append_batch                                                            *)

(* Every record of the list but the first is on the rest of it.            *)
LEMMA TodoNext ==
  ASSUME WalTypes, todo # <<>>, NEW j \in 1..Len(todo)
  PROVE  \/ todo[j] = Head(todo)
         \/ \E i \in 1..Len(Tail(todo)) : Tail(todo)[i] = todo[j]
<1>1. PICK l \in Nat \ {0} : l = Len(todo)
  BY TodoIs
<1>2. /\ Head(todo) = todo[1] /\ Len(Tail(todo)) = l - 1
      /\ \A i \in 1..(l - 1) : Tail(todo)[i] = todo[i + 1]
  BY <1>1, TodoIs
<1>3. CASE j = 1
  BY <1>2, <1>3
<1>4. CASE j # 1
  <2>1. j - 1 \in 1..(l - 1) /\ (j - 1) + 1 = j
    BY <1>1, <1>4
  <2>2. QED
    BY <1>2, <2>1
<1>5. QED
  BY <1>3, <1>4

(* A copy into the buffer: the next record leaves the list, and its frame  *)
(* comes last.                                                             *)
LEMMA CopyKeeps ==
  ASSUME WalInv, JournalInv, Copy PROVE JournalInv' /\ Growing
<1>1. /\ wpc = "write" /\ todo # <<>> /\ wbuf' = Append(wbuf, Frame(Head(todo)))
      /\ todo' = Tail(todo) /\ wpc' \in {"flush", "write"}
      /\ UNCHANGED <<file, handle, active, given, scarred>>
  BY DEF Copy, WGoto, names, wHistory
<1>2. PICK r \in LogRecords : r = Head(todo)
  BY <1>1, TodoIs DEF WalInv
<1>3. PICK p \in LogPiece :
        p = Frame(r) /\ p.from = 0 /\ p.to = p.len /\ p.rec = r /\ p.len = WalCells(r)
  BY <1>2, FrameIs DEF Frame, WholePiece
<1>4. PICK l \in Nat : l = Len(wbuf)
  BY DEF WalInv, WalTypes
<1>5. /\ Len(wbuf') = l + 1 /\ wbuf'[l + 1] = p /\ \A k \in 1..l : wbuf'[k] = wbuf[k]
      /\ wbuf' # <<>>
  BY <1>1, <1>2, <1>3, <1>4, AppendProperties DEF WalInv, WalTypes
<1>6. l + 1 \in 1..(l + 1) /\ \A k \in 1..(l + 1) : k \in 1..l \/ k = l + 1
  OBVIOUS
<1>7. Rest(wbuf') <=> Rest(wbuf)
  <2>1. CASE l = 0
    <3>1. wbuf = <<>>
      BY <1>4, <2>1, EmptySeq DEF WalInv, WalTypes
    <3>2. ~(wbuf'[1].from > 0)
      BY <1>3, <1>5, <2>1
    <3>3. QED
      BY <3>1, <3>2 DEF Rest
  <2>2. CASE l > 0
    <3>1. 1 \in 1..l
      BY <2>2
    <3>2. wbuf # <<>>
      BY <1>4, <2>2
    <3>3. QED
      BY <1>5, <3>1, <3>2 DEF Rest
  <2>3. QED
    BY <2>1, <2>2
<1>8. Rest(wbuf) => wbuf'[1] = wbuf[1]
  <2>1. ASSUME Rest(wbuf)
        PROVE  1 \in 1..l
    <3>1. wbuf # <<>> /\ wbuf \in Seq(LogPiece)
      BY <2>1 DEF Rest, WalInv, WalTypes
    <3>2. l # 0
      BY <1>4, <3>1, EmptySeq
    <3>3. QED
      BY <3>2
  <2>2. QED
    BY <1>5, <2>1
<1>9. Ended(wbuf') /\ Measured(wbuf')
  <2>1. ASSUME NEW k \in 1..(l + 1)
        PROVE  /\ wbuf'[k].to = wbuf'[k].len
               /\ wbuf'[k].len = WalLen[wbuf'[k].rec]
    <3>1. CASE k \in 1..l
      BY <1>4, <1>5, <3>1 DEF JournalInv, Tidy, Measures, Ended, Measured, Sized
    <3>2. CASE k = l + 1
      BY <1>3, <1>5, <3>2, WalLenIs
    <3>3. QED
      BY <1>6, <3>1, <3>2
  <2>2. QED
    BY <1>5, <2>1 DEF Ended, Measured, Sized
<1>10. Leading' /\ Measures' /\ Growing
  BY <1>1, <1>9 DEF JournalInv, Leading, Measures, Growing
<1>11. DataOf(handle)' = DataOf(handle)
  BY <1>1 DEF DataOf
<1>12. Tidy'
  <2>1. SameFrame(DataOf(handle)', wbuf')
    BY <1>7, <1>8, <1>11 DEF JournalInv, Tidy, SameFrame
  <2>2. ~scarred' => Sewn(DataOf(handle)', wbuf')
    BY <1>1, <1>7, <1>11 DEF JournalInv, Tidy, Sewn, Scanned
  <2>3. QED
    BY <1>1, <1>9, <2>1, <2>2 DEF JournalInv, Tidy
<1>13. ASSUME NEW q, Holds(wbuf, q)
       PROVE  Holds(wbuf', q)
  <2>1. PICK k \in 1..l : wbuf[k].rec = q
    BY <1>4, <1>13 DEF Holds
  <2>2. k \in 1..(l + 1) /\ wbuf'[k].rec = q
    BY <1>5, <2>1
  <2>3. QED
    BY <1>5, <2>2 DEF Holds
<1>14. Holds(wbuf', r)
  BY <1>3, <1>5, <1>6 DEF Holds
<1>15. Batched'
  <2>1. \A k \in 1..Len(given) :
          \/ Holds(DataOf(handle), given[k]) \/ Holds(wbuf', given[k])
          \/ \E i \in 1..Len(todo') : todo'[i] = given[k]
    BY <1>1, <1>2, <1>13, <1>14, TodoNext DEF JournalInv, Batched, WalInv
  <2>2. QED
    BY <1>1, <1>11, <2>1 DEF Batched
<1>16. QED
  BY <1>1, <1>10, <1>12, <1>15, NotCopying DEF JournalInv

(* A write to the writer's file that takes back nothing and that the       *)
(* buffer goes on from.                                                    *)
LEMMA HandleWritten ==
  ASSUME WalInv, JournalInv, Scanned, wpc \notin {"ckdir", "ckreopen"},
         NEW d \in Segments, Write(handle, d), Leads(DataOf(handle), d), Measured(d),
         Measured(wbuf'), Ended(wbuf'), SameFrame(d, wbuf'),
         ~scarred' => Sewn(d, wbuf'), UNCHANGED <<handle, active>>, scarred => scarred',
         wpc' # "header"
  PROVE  Leading' /\ Measures' /\ Growing /\ Tidy' /\ DataOf(handle)' = d
<1>1. wpc # "closed"
  BY DEF Scanned
<1>2. handle \in Inodes /\ DataOf(handle) = file[handle].data
  BY <1>1, HandleIs
<1>3. Leading' /\ Measures' /\ Growing
  BY <1>2, FileWritten
<1>4. DataOf(handle)' = d
  BY <1>2, WriteIs, NoCall DEF WalInv, DataOf
<1>5. ~scarred => handle = active
  BY <1>1 DEF JournalInv, Tidy
<1>6. Tidy'
  BY <1>4, <1>5 DEF Tidy
<1>7. QED
  BY <1>3, <1>4, <1>6

(* The buffer is written out, all of it.                                   *)
LEMMA BufferOutKeeps ==
  ASSUME WalInv, JournalInv, Scanned, wpc \notin {"ckdir", "ckreopen"},
         Write(handle, Stream), wbuf' = <<>>, UNCHANGED <<handle, active, scarred>>,
         wpc' # "header"
  PROVE  /\ Leading' /\ Measures' /\ Growing /\ Tidy' /\ DataOf(handle)' = Stream
         /\ Stream \in Segments /\ Leads(DataOf(handle), Stream) /\ Measured(Stream)
         /\ \A r : Holds(DataOf(handle), r) \/ Holds(wbuf, r) => Holds(Stream, r)
<1>1. wpc # "closed"
  BY DEF Scanned
<1>2. PICK data \in Segments, ps \in Seq(LogPiece) :
        /\ data = DataOf(handle) /\ ps = wbuf /\ Joins(data, ps) /\ SameFrame(data, ps)
        /\ Ended(ps) /\ Measured(data) /\ Measured(ps)
  BY <1>1, WriterIs
<1>3. PICK e : e = Extended(data, ps)
  OBVIOUS
<1>4. e = Stream
  BY <1>2, <1>3 DEF Stream
<1>5. /\ e \in Segments /\ Leads(data, e) /\ Measured(e)
      /\ \A r : Holds(data, r) \/ Holds(ps, r) => Holds(e, r)
      /\ Sewn(data, ps) => \A qs : Sewn(e, qs)
  BY <1>2, <1>3, WrittenKeeps
<1>6. ~scarred => Sewn(data, ps)
  BY <1>2 DEF JournalInv, Tidy
<1>7. Measured(wbuf') /\ Ended(wbuf') /\ SameFrame(e, wbuf')
  BY NoneKept, NothingLeft
<1>8. Leading' /\ Measures' /\ Growing /\ Tidy' /\ DataOf(handle)' = e
  BY <1>2, <1>4, <1>5, <1>6, <1>7, HandleWritten
<1>9. QED
  BY <1>2, <1>4, <1>5, <1>8

(* BufWriter making room, or flushing.                                     *)
LEMMA SpillKeeps ==
  ASSUME WalInv, JournalInv, Spill \/ FlushBuffer PROVE JournalInv' /\ Growing
<1>1. /\ wpc \in {"write", "flush"} /\ wpc' \in {"write", "sync"}
      /\ Write(handle, Stream) /\ wbuf' = <<>>
      /\ UNCHANGED <<handle, active, scarred, todo, given>>
  BY DEF Spill, FlushBuffer, WGoto, Stream, names, callVars, wHistory
<1>2. /\ Leading' /\ Measures' /\ Growing /\ Tidy' /\ DataOf(handle)' = Stream
      /\ \A r : Holds(DataOf(handle), r) \/ Holds(wbuf, r) => Holds(Stream, r)
  BY <1>1, BufferOutKeeps DEF Scanned
<1>3. Batched'
  <2>1. \A k \in 1..Len(given) :
          Holds(Stream, given[k]) \/ \E i \in 1..Len(todo) : todo[i] = given[k]
    BY <1>2 DEF JournalInv, Batched
  <2>2. wpc \in {"write", "flush", "sync"} /\ wpc' \in {"write", "flush", "sync"}
    BY <1>1
  <2>3. QED
    BY <1>1, <1>2, <2>1, <2>2 DEF Batched
<1>4. QED
  BY <1>1, <1>2, <1>3, NotCopying DEF JournalInv

(* A write of the buffer that stops leaves the rest of a frame in the      *)
(* buffer exactly if it left its beginning in the file.                    *)
LEMMA BufferWriteFailsKeeps ==
  ASSUME WalInv, JournalInv, BufferWriteFails PROVE JournalInv' /\ Growing
<1>1. /\ wpc \in {"write", "flush", "ckflush"} /\ wpc' = "ready" /\ given' = <<>>
      /\ UNCHANGED <<handle, active, scarred>>
  BY DEF BufferWriteFails, WFails, WAnswer, WCallEnds, names, wHistory
<1>2. PICK s \in Splits(wbuf) :
        Write(handle, Extended(DataOf(handle), s.done)) /\ wbuf' = s.rest
  BY DEF BufferWriteFails, Stopped
<1>3. PICK data \in Segments, ps \in Seq(LogPiece) :
        /\ data = DataOf(handle) /\ ps = wbuf /\ Joins(data, ps) /\ SameFrame(data, ps)
        /\ Ended(ps) /\ Measured(data) /\ Measured(ps)
  BY <1>1, WriterIs
<1>4. PICK e : e = Extended(data, s.done)
  OBVIOUS
<1>5. s \in Splits(ps)
  BY <1>2, <1>3
<1>6. /\ e \in Segments /\ Leads(data, e) /\ Measured(e)
      /\ Measured(s.rest) /\ Ended(s.rest) /\ SameFrame(e, s.rest)
      /\ Sewn(data, ps) => Sewn(e, s.rest)
  BY <1>3, <1>4, <1>5, WrittenKeeps
<1>7. Scanned /\ wpc # "closed"
  BY <1>1 DEF Scanned
<1>8. ~scarred => Sewn(data, ps)
  BY <1>3, <1>7 DEF JournalInv, Tidy
<1>9. Leading' /\ Measures' /\ Growing /\ Tidy'
  BY <1>1, <1>2, <1>3, <1>4, <1>6, <1>7, <1>8, HandleWritten
<1>10. QED
  BY <1>1, <1>9, NoneGiven, NotCopying DEF JournalInv

(* A frame of the capacity or more is written directly, the buffer empty.  *)
LEMMA WriteThroughKeeps ==
  ASSUME WalInv, JournalInv, WriteThrough PROVE JournalInv' /\ Growing
<1>1. /\ wpc = "write" /\ todo # <<>> /\ wbuf = <<>> /\ wbuf' = wbuf
      /\ Write(handle, Append(DataOf(handle), Frame(Head(todo))))
      /\ todo' = Tail(todo) /\ wpc' \in {"flush", "write"}
      /\ UNCHANGED <<handle, active, given, scarred>>
  BY DEF WriteThrough, WGoto, Bypasses, names, writer, wHistory
<1>2. PICK r \in LogRecords : r = Head(todo)
  BY <1>1, TodoIs DEF WalInv
<1>3. PICK data \in Segments : data = DataOf(handle) /\ Measured(data)
  BY <1>1, WriterIs
<1>4. PICK ps : ps = <<Frame(r)>>
  OBVIOUS
<1>5. /\ ps \in Seq(LogPiece) /\ Joins(data, ps) /\ SameFrame(data, ps)
      /\ Ended(ps) /\ Measured(ps) /\ Holds(ps, r)
      /\ Append(data, Frame(r)) = Extended(data, ps)
      /\ Sewn(data, <<>>) => Sewn(data, ps)
  BY <1>4, FrameKeeps
<1>6. PICK e : e = Extended(data, ps)
  OBVIOUS
<1>7. /\ e \in Segments /\ Leads(data, e) /\ Measured(e)
      /\ \A q : Holds(data, q) \/ Holds(ps, q) => Holds(e, q)
      /\ Sewn(data, ps) => \A qs : Sewn(e, qs)
  BY <1>3, <1>5, <1>6, WrittenKeeps
<1>8. Scanned /\ Write(handle, e)
  BY <1>1, <1>2, <1>3, <1>5, <1>6 DEF Scanned
<1>9. ~scarred => Sewn(data, <<>>)
  BY <1>1, <1>3, <1>8 DEF JournalInv, Tidy
<1>10. Measured(wbuf') /\ Ended(wbuf') /\ SameFrame(e, wbuf')
  BY <1>1, NoneKept, NothingLeft
<1>11. Leading' /\ Measures' /\ Growing /\ Tidy' /\ DataOf(handle)' = e
  BY <1>1, <1>3, <1>5, <1>7, <1>8, <1>9, <1>10, HandleWritten
<1>12. Batched'
  <2>1. \A k \in 1..Len(given) :
          \/ Holds(e, given[k])
          \/ \E i \in 1..Len(todo') : todo'[i] = given[k]
    BY <1>1, <1>2, <1>3, <1>5, <1>7, NothingLeft, TodoNext DEF JournalInv, Batched, WalInv
  <2>2. QED
    BY <1>1, <1>11, <2>1 DEF Batched
<1>13. QED
  BY <1>1, <1>11, <1>12, NotCopying DEF JournalInv

(* A frame written directly that stops scars the file, unless nothing of   *)
(* it was written.                                                         *)
LEMMA WriteThroughFailsKeeps ==
  ASSUME WalInv, JournalInv, WriteThroughFails PROVE JournalInv' /\ Growing
<1>1. /\ wpc = "write" /\ todo # <<>> /\ wbuf = <<>> /\ wbuf' = wbuf
      /\ wpc' = "ready" /\ given' = <<>> /\ UNCHANGED <<handle, active>>
  BY DEF WriteThroughFails, WFails, WAnswer, WCallEnds, Bypasses, names, writer
<1>2. PICK r \in LogRecords : r = Head(todo)
  BY <1>1, TodoIs DEF WalInv
<1>3. PICK data \in Segments : data = DataOf(handle) /\ Measured(data)
  BY <1>1, WriterIs
<1>4. PICK ps : ps = <<Frame(r)>>
  OBVIOUS
<1>5. PICK s \in Splits(ps) :
        Write(handle, data \o s.done) /\ scarred' = (scarred \/ s.done # <<>>)
  BY <1>2, <1>3, <1>4 DEF WriteThroughFails, Stopped
<1>6. /\ ps \in Seq(LogPiece) /\ Joins(data, ps) /\ SameFrame(data, ps)
      /\ Ended(ps) /\ Measured(ps)
      /\ \A t \in Splits(ps) : data \o t.done = Extended(data, t.done)
  BY <1>4, FrameKeeps
<1>7. PICK e : e = Extended(data, s.done)
  OBVIOUS
<1>8. e \in Segments /\ Leads(data, e) /\ Measured(e)
  BY <1>3, <1>6, <1>7, WrittenKeeps
<1>9. Scanned /\ Write(handle, e)
  BY <1>1, <1>5, <1>6, <1>7 DEF Scanned
<1>10. ~scarred' => Sewn(e, <<>>)
  <2>1. ASSUME ~scarred'
        PROVE  s.done = <<>> /\ ~scarred
    BY <1>5, <2>1
  <2>2. s.done = <<>> => e = data
    BY <1>3, <1>7, SegmentIs, ExtendedSelf
  <2>3. ~scarred => Sewn(data, <<>>)
    BY <1>1, <1>3, <1>9 DEF JournalInv, Tidy
  <2>4. QED
    BY <2>1, <2>2, <2>3
<1>11. Measured(wbuf') /\ Ended(wbuf') /\ SameFrame(e, wbuf')
  BY <1>1, NoneKept, NothingLeft
<1>12. Leading' /\ Measures' /\ Growing /\ Tidy'
  BY <1>1, <1>3, <1>5, <1>8, <1>9, <1>10, <1>11, HandleWritten
<1>13. QED
  BY <1>1, <1>12, NoneGiven, NotCopying DEF JournalInv

(* The answer of append_batch, or of flush.                                *)
LEMMA CommitKeeps ==
  ASSUME WalInv, JournalInv, Commit PROVE JournalInv' /\ Growing
<1>1. /\ wpc = "sync"
      /\ Sync(handle) \/ file' = file
      /\ wpc' = "ready" /\ given' = <<>> /\ UNCHANGED <<handle, active, wbuf, scarred>>
  BY DEF Commit, WAnswer, WCallEnds, names, writer
<1>2. handle \in Inodes
  BY <1>1, HandleIs
<1>3. Leading' /\ Measures' /\ Growing /\ DataOf(handle)' = DataOf(handle)
  <2>1. CASE file' = file
    BY <1>1, <2>1, FilesStay DEF DataOf
  <2>2. CASE Sync(handle)
    BY <1>1, <1>2, <2>2, FileSynced DEF DataOf
  <2>3. QED
    BY <1>1, <2>1, <2>2
<1>4. Tidy'
  BY <1>1, <1>3, TidySame DEF Scanned, JournalInv
<1>5. QED
  BY <1>1, <1>3, <1>4, NoneGiven, NotCopying DEF JournalInv

(* An error of a sync, or between the rename and the reopening of a        *)
(* checkpoint, which leaves the writer on the old segment.                 *)
LEMMA StepFailsKeeps ==
  ASSUME WalInv, JournalInv, StepFails PROVE JournalInv' /\ Growing
<1>1. /\ wpc \in {"sync", "ckwrite", "cksync", "ckrename", "ckdir", "ckreopen"}
      /\ wpc' = "ready" /\ given' = <<>> /\ UNCHANGED <<file, handle, active, wbuf>>
      /\ scarred' = (scarred \/ wpc \in {"ckdir", "ckreopen"})
  BY DEF StepFails, WFails, WAnswer, WCallEnds, names, writer
<1>2. Leading' /\ Measures' /\ Growing
  BY <1>1, FilesStay
<1>3. DataOf(handle)' = DataOf(handle)
  BY <1>1 DEF DataOf
<1>4. Tidy'
  BY <1>1, <1>3 DEF JournalInv, Tidy, Scanned
<1>5. QED
  BY <1>1, <1>2, <1>4, NoneGiven, NotCopying DEF JournalInv

-----------------------------------------------------------------------------
(* checkpoint                                                              *)

(* The survivors are collected from the segment as it then is.             *)
LEMMA CollectKeeps ==
  ASSUME WalInv, JournalInv, Collect PROVE JournalInv' /\ Growing
<1>1. /\ wpc = "ckflush" /\ wpc' = "ckwrite" /\ Write(handle, Stream) /\ wbuf' = <<>>
      /\ UNCHANGED <<handle, active, scarred, given, upTo>>
      /\ live' = Survivors(IF active = handle THEN Stream ELSE DataOf(active), upTo)
  BY DEF Collect, WGoto, Stream, names, wHistory
<1>2. /\ Leading' /\ Measures' /\ Growing /\ Tidy' /\ DataOf(handle)' = Stream
      /\ Stream \in Segments /\ Measured(Stream)
  BY <1>1, BufferOutKeeps DEF Scanned
<1>3. /\ handle \in Inodes /\ active \in Inodes /\ DataOf(active) \in Segments
      /\ Measured(DataOf(active))
  BY <1>1, WriterIs
<1>4. PICK d \in Segments : d = DataOf(active)' /\ Measured(d) /\ live' = Survivors(d, upTo)
  <2>1. CASE active = handle
    <3>1. DataOf(active)' = DataOf(handle)'
      BY <1>1, <2>1 DEF DataOf
    <3>2. QED
      BY <1>1, <1>2, <2>1, <3>1
  <2>2. CASE active # handle
    <3>1. file'[active] = file[active]
      BY <1>1, <1>2, <1>3, <2>2, WriteIs DEF WalInv
    <3>2. DataOf(active)' = DataOf(active)
      BY <1>1, <3>1 DEF DataOf
    <3>3. QED
      BY <1>1, <1>3, <2>2, <3>2
  <2>3. QED
    BY <2>1, <2>2
<1>5. Short(live')
  <2>1. ASSUME NEW k \in 1..Len(live')
        PROVE  WalCells(live'[k]) < U32
    <3>1. Among(live', live'[k])
      BY DEF Among
    <3>2. live'[k] \in Recs(d)
      BY <1>4, <3>1, SurvivorsAll
    <3>3. QED
      BY <1>4, <3>2, ReadShort
  <2>2. QED
    BY <2>1 DEF Short
<1>6. \A r \in OnDisk' : r.lsn > upTo' => Among(live', r)
  BY <1>1, <1>4, SurvivorsAll DEF OnDisk
<1>7. Copying'
  BY <1>1, <1>5, <1>6 DEF Copying
<1>8. Batched'
  BY <1>1, NoneGiven DEF JournalInv, Batched
<1>9. QED
  BY <1>2, <1>7, <1>8 DEF JournalInv

(* The temp segment is written from nothing.                               *)
LEMMA WriteTempKeeps ==
  ASSUME WalInv, JournalInv, WriteTemp PROVE JournalInv'
<1>1. /\ wpc = "ckwrite" /\ wpc' = "cksync"
      /\ UNCHANGED <<handle, active, wbuf, scarred, given, upTo, live>>
  BY DEF WriteTemp, WGoto, writer, callVars, wHistory
<1>2. /\ temp' \in Inodes /\ temp' # active /\ temp' # handle
      /\ file'[temp'] = [data |-> <<Header>> \o Frames(live), hard |-> <<>>]
      /\ \A j \in Inodes : j # temp' => file'[j] = file[j]
  BY TempStep
<1>3. live \in Seq(LogRecords)
  BY DEF WalInv, WalTypes
<1>4. Measured(<<Header>> \o Frames(live))
  BY <1>3, FramesRead
<1>5. Leading' /\ Measures'
  <2>1. /\ file'[temp'].data = <<Header>> \o Frames(live) /\ file'[temp'].hard = <<>>
    BY <1>2
  <2>2. QED
    BY <1>1, <1>2, <1>4, <2>1, NoneKept DEF JournalInv, Leading, Measures
<1>6. handle \in Inodes /\ active \in Inodes
  BY <1>1, WriterIs
<1>7. DataOf(handle)' = DataOf(handle) /\ DataOf(active)' = DataOf(active)
  BY <1>1, <1>2, <1>6 DEF DataOf
<1>8. Tidy'
  BY <1>1, <1>7, TidySame DEF Scanned, JournalInv
<1>9. OnDisk' = OnDisk
  BY <1>1, <1>7 DEF OnDisk
<1>10. Copying'
  BY <1>1, <1>2, <1>9 DEF JournalInv, Copying
<1>11. Batched'
  BY <1>1, NoneGiven DEF JournalInv, Batched
<1>12. QED
  BY <1>5, <1>8, <1>10, <1>11 DEF JournalInv

(* The temp segment is synced.                                             *)
LEMMA SyncTempKeeps ==
  ASSUME WalInv, JournalInv, SyncTemp PROVE JournalInv' /\ Growing
<1>1. /\ wpc = "cksync" /\ wpc' = "ckrename" /\ Sync(temp)
      /\ UNCHANGED <<handle, active, temp, wbuf, scarred, given, upTo, live>>
  BY DEF SyncTemp, WGoto, writer, names, callVars, wHistory
<1>2. temp \in Inodes
  BY <1>1 DEF WalInv, WalTypes, Names
<1>3. handle \in Inodes /\ active \in Inodes
  BY <1>1, WriterIs
<1>4. /\ Leading' /\ Measures' /\ Growing
      /\ DataOf(handle)' = DataOf(handle) /\ DataOf(active)' = DataOf(active)
  <2>1. \A j \in Inodes \union {0} : DataOf(j)' = DataOf(j)
    BY <1>1, <1>2, FileSynced
  <2>2. QED
    BY <1>1, <1>2, <1>3, <2>1, FileSynced DEF DataOf
<1>5. file'[temp].data = file[temp].data /\ file'[temp].hard = file[temp].data
  BY <1>1, <1>2, SyncIs DEF WalInv
<1>6. Tidy'
  BY <1>1, <1>4, TidySame DEF Scanned, JournalInv
<1>7. OnDisk' = OnDisk
  BY <1>1, <1>4 DEF OnDisk
<1>8. Copying'
  BY <1>1, <1>5, <1>7 DEF JournalInv, Copying
<1>9. Batched'
  BY <1>1, NoneGiven DEF JournalInv, Batched
<1>10. QED
  BY <1>4, <1>6, <1>8, <1>9 DEF JournalInv

(* The rename: the writer is on the old segment.                           *)
LEMMA RenameKeeps ==
  ASSUME WalInv, JournalInv, Rename PROVE JournalInv'
<1>1. /\ wpc = "ckrename" /\ wpc' = "ckdir" /\ active' = temp
      /\ UNCHANGED <<file, handle, wbuf, scarred, given, live>>
  BY DEF Rename, WGoto, writer, callVars
<1>2. Leading' /\ Measures'
  BY <1>1, FilesStay
<1>3. DataOf(handle)' = DataOf(handle)
  BY <1>1 DEF DataOf
<1>4. Tidy'
  BY <1>1, <1>3 DEF JournalInv, Tidy, Scanned
<1>5. Copying'
  BY <1>1 DEF JournalInv, Copying
<1>6. Batched'
  BY <1>1, NoneGiven DEF JournalInv, Batched
<1>7. QED
  BY <1>2, <1>4, <1>5, <1>6 DEF JournalInv

(* The sync of the directory gives the old segment's inode back once the   *)
(* writer has left it.                                                     *)
LEMMA SyncDirKeeps ==
  ASSUME WalInv, JournalInv, SyncDir PROVE JournalInv'
<1>1. /\ wpc = "ckdir" /\ wpc' = "ckreopen" /\ file' = Reclaimed(file, {active, handle})
      /\ UNCHANGED <<handle, active, wbuf, scarred, given, live>>
  BY DEF SyncDir, WGoto, writer, callVars, wHistory
<1>2. file \in [Inodes -> File]
  BY DEF WalInv, WalTypes
<1>3. Leading' /\ Measures'
  BY <1>1, <1>2, FilesReclaimed DEF JournalInv, Leading, Measures
<1>4. handle \in Inodes /\ active \in Inodes
  BY <1>1, WriterIs
<1>5. file'[handle] = file[handle] /\ file'[active] = file[active]
  BY <1>1, <1>2, <1>4, ReclaimedIs
<1>6. DataOf(handle)' = DataOf(handle)
  BY <1>1, <1>5 DEF DataOf
<1>7. Tidy'
  BY <1>1, <1>6 DEF JournalInv, Tidy, Scanned
<1>8. Copying'
  BY <1>1, <1>5 DEF JournalInv, Copying
<1>9. Batched'
  BY <1>1, NoneGiven DEF JournalInv, Batched
<1>10. QED
  BY <1>3, <1>7, <1>8, <1>9 DEF JournalInv

(* The reopening: the writer is on the new segment, all whole frames.      *)
LEMMA ReopenKeeps ==
  ASSUME WalInv, JournalInv, Reopen PROVE JournalInv'
<1>1. /\ wpc = "ckreopen" /\ wpc' = "ready" /\ given' = <<>> /\ wbuf' = <<>>
      /\ handle' = active /\ active' = active
      /\ file' = Reclaimed(file, {active} \union stale)
  BY DEF Reopen, WAnswer, WCallEnds, names
<1>2. file \in [Inodes -> File] /\ live \in Seq(LogRecords)
  BY DEF WalInv, WalTypes
<1>3. Leading' /\ Measures'
  BY <1>1, <1>2, FilesReclaimed DEF JournalInv, Leading, Measures
<1>4. active \in Inodes
  BY <1>1, WriterIs
<1>5. file'[active] = file[active]
  BY <1>1, <1>2, <1>4, ReclaimedIs
<1>6. file[active].data = <<Header>> \o Frames(live)
  BY <1>1 DEF JournalInv, Copying
<1>7. DataOf(handle)' = <<Header>> \o Frames(live)
  BY <1>1, <1>4, <1>5, <1>6, NoCall DEF DataOf
<1>8. Sewn(DataOf(handle)', <<>>)
  BY <1>2, <1>7, FramesRead
<1>9. Tidy'
  BY <1>1, <1>8, TidyNone
<1>10. QED
  BY <1>1, <1>3, <1>9, NoneGiven, NotCopying DEF JournalInv

-----------------------------------------------------------------------------
(* Crashes                                                                 *)

(* Without a process only what is said of the files is left to say.        *)
LEMMA GoneKeeps ==
  ASSUME WriterGone, Leading', Measures' PROVE JournalInv'
<1>1. wbuf' = <<>> /\ given' = <<>> /\ wpc' = "closed"
  BY WriterGoneTypes
<1>2. Tidy'
  BY <1>1, TidyNone DEF Scanned
<1>3. QED
  BY <1>1, <1>2, NoneGiven, NotCopying DEF JournalInv

(* What a kill leaves of the write under way takes back nothing.           *)
LEMMA KilledLeads ==
  ASSUME WalInv, FilesOrdered, JournalInv, handle # 0, NEW s \in Splits(Writing)
  PROVE  LET base == IF wpc = "header" THEN <<>> ELSE DataOf(handle)
             d    == Extended(base, s.done)
         IN  /\ handle \in Inodes /\ DataOf(handle) = file[handle].data
             /\ d \in Segments /\ Leads(file[handle].data, d) /\ Measured(d)
<1>1. wpc # "closed"
  BY DEF WalInv, Names
<1>2. /\ handle \in Inodes /\ DataOf(handle) = file[handle].data
      /\ DataOf(handle) \in Segments /\ Measured(DataOf(handle))
      /\ wbuf \in Seq(LogPiece) /\ Joins(DataOf(handle), wbuf)
      /\ SameFrame(DataOf(handle), wbuf) /\ Ended(wbuf) /\ Measured(wbuf)
  BY <1>1, WriterIs
<1>3. CASE wpc = "header"
  <2>1. PICK ps : ps = Writing
    OBVIOUS
  <2>2. ps = <<Header>>
    BY <1>3, <2>1 DEF Writing
  <2>3. PICK d \in Segments : d = Extended(<<>>, s.done)
    BY <1>3, WritingIs
  <2>4. ~Headed(DataOf(handle)) /\ Segment(DataOf(handle))
    BY <1>2, <1>3 DEF FilesOrdered, JournalInv, Tidy
  <2>5. Leads(file[handle].data, d)
    BY <1>2, <2>4, UnheadedLeads
  <2>6. ps \in Seq(Pieces(Contents)) /\ Joins(<<>>, ps) /\ Cuts \subseteq Nat
    BY <1>3, <2>1, WritingIs, FilesAssumption
  <2>7. PICK done \in Seq(Pieces(Contents)) : done = s.done
    BY <2>1, <2>6, SplitIs
  <2>8. \A k \in 1..Len(ps) : k = 1
    BY <2>2
  <2>9. Measured(ps)
    BY <2>2, <2>8, WalLenIs DEF Measured, Sized
  <2>10. Measured(done)
    BY <2>1, <2>6, <2>7, <2>9, MeasuredSplit
  <2>11. <<>> \in Seq(Whole(Contents)) /\ Measured(<<>>)
    BY NoneKept
  <2>12. Joins(<<>>, done)
    BY <2>1, <2>6, <2>7, <2>11, SplitJoins
  <2>13. Measured(d)
    BY <2>3, <2>7, <2>10, <2>11, <2>12, MeasuredExtended
  <2>14. QED
    BY <1>2, <1>3, <2>3, <2>5, <2>13
<1>4. CASE wpc # "header"
  <2>1. PICK ps \in Seq(LogPiece) :
          /\ ps = Writing /\ Joins(DataOf(handle), ps) /\ SameFrame(DataOf(handle), ps)
          /\ Ended(ps) /\ Measured(ps)
    <3>1. CASE Writing = wbuf
      BY <1>2, <3>1
    <3>2. CASE Writing = <<Frame(Head(todo))>> /\ wpc = "write"
      <4>1. PICK r \in LogRecords : r = Head(todo)
        BY <3>2, TodoIs DEF WalInv, Names
      <4>2. QED
        BY <1>2, <3>2, <4>1, FrameKeeps
    <3>3. CASE Writing = <<>>
      BY <3>3, JoinsNone, NothingLeft, NoneKept, EmptySeq
    <3>4. QED
      BY <1>4, <3>1, <3>2, <3>3 DEF Writing
  <2>2. s \in Splits(ps)
    BY <2>1
  <2>3. PICK data \in Segments : data = DataOf(handle)
    BY <1>2
  <2>4. PICK d : d = Extended(data, s.done)
    OBVIOUS
  <2>5. d \in Segments /\ Leads(data, d) /\ Measured(d)
    BY <1>2, <2>1, <2>2, <2>3, <2>4, WrittenKeeps
  <2>6. QED
    BY <1>2, <1>4, <2>3, <2>4, <2>5
<1>5. QED
  BY <1>3, <1>4

(* A kill: the file as it would be with some of the write under way.       *)
LEMMA KilledFiles ==
  ASSUME WalInv, FilesOrdered, JournalInv, WKill
  PROVE  \E f \in [Inodes -> File] :
           /\ file' = Reclaimed(f, {active, temp} \union stale)
           /\ \A i \in Inodes :
                \/ f[i] = file[i]
                \/ /\ f[i].hard = file[i].hard /\ Leads(file[i].data, f[i].data)
                   /\ Measured(f[i].data)
<1>1. PICK s \in Splits(Writing) :
        LET base == IF wpc = "header" THEN <<>> ELSE DataOf(handle)
            f    == IF handle = 0 \/ s.done = <<>> THEN file
                    ELSE [file EXCEPT ![handle] = [data |-> Extended(base, s.done),
                                                   hard |-> @.hard]]
        IN  file' = Reclaimed(f, {active, temp} \union stale)
  BY DEF WKill
<1>2. file \in [Inodes -> File]
  BY DEF WalInv, WalTypes
<1>3. CASE handle = 0 \/ s.done = <<>>
  <2>1. file' = Reclaimed(file, {active, temp} \union stale)
    BY <1>1, <1>3
  <2>2. QED
    BY <1>2, <2>1
<1>4. CASE ~(handle = 0 \/ s.done = <<>>)
  <2> DEFINE base == IF wpc = "header" THEN <<>> ELSE DataOf(handle)
             d    == Extended(base, s.done)
             f    == [file EXCEPT ![handle] = [data |-> d, hard |-> @.hard]]
  <2>1. file' = Reclaimed(f, {active, temp} \union stale)
    BY <1>1, <1>4
  <2>2. handle \in Inodes /\ d \in Segments /\ Leads(file[handle].data, d) /\ Measured(d)
    BY <1>4, KilledLeads
  <2> HIDE DEF d
  <2>3. f \in [Inodes -> File] /\ f[handle].data = d /\ f[handle].hard = file[handle].hard
        /\ \A i \in Inodes : i # handle => f[i] = file[i]
    BY <1>2, <2>2 DEF File
  <2> HIDE DEF f
  <2>4. \A i \in Inodes :
          \/ f[i] = file[i]
          \/ /\ f[i].hard = file[i].hard /\ Leads(file[i].data, f[i].data)
             /\ Measured(f[i].data)
    BY <2>2, <2>3
  <2>5. QED
    BY <2>1, <2>3, <2>4
<1>5. QED
  BY <1>3, <1>4

(* So a kill keeps what is said of the files.                              *)
LEMMA WKillKeeps ==
  ASSUME WalInv, FilesOrdered, JournalInv, WKill PROVE JournalInv'
<1>1. PICK f \in [Inodes -> File] :
        /\ file' = Reclaimed(f, {active, temp} \union stale)
        /\ \A i \in Inodes :
             \/ f[i] = file[i]
             \/ /\ f[i].hard = file[i].hard /\ Leads(file[i].data, f[i].data)
                /\ Measured(f[i].data)
  BY KilledFiles
<1>2. WriterGone
  BY DEF WKill
<1>3. ASSUME NEW i \in Inodes
      PROVE  /\ Leads(f[i].hard, f[i].data) /\ Measured(f[i].data) /\ Measured(f[i].hard)
  <2>1. Leads(file[i].hard, file[i].data) /\ Measured(file[i].data) /\ Measured(file[i].hard)
    BY DEF JournalInv, Leading, Measures
  <2>2. CASE f[i] = file[i]
    BY <2>1, <2>2
  <2>3. CASE /\ f[i].hard = file[i].hard /\ Leads(file[i].data, f[i].data)
             /\ Measured(f[i].data)
    <3>1. /\ file[i].hard \in Seq(Whole(Contents)) /\ file[i].data \in Seq(Whole(Contents))
          /\ f[i].data \in Seq(Whole(Contents))
      BY SegmentIs DEF WalInv, WalTypes, File
    <3>2. QED
      BY <2>1, <2>3, <3>1, LeadsOn
  <2>4. QED
    BY <1>1, <2>2, <2>3
<1>4. wbuf' = <<>>
  BY <1>2, WriterGoneTypes
<1>5. Leading' /\ Measures'
  BY <1>1, <1>3, <1>4, FilesReclaimed
<1>6. QED
  BY <1>2, <1>5, GoneKeeps

(* A power loss leaves one image of one file.                              *)
LEMMA WPowerLossKeeps ==
  ASSUME WalInv, JournalInv, WPowerLoss PROVE JournalInv'
<1>1. PICK i \in stale \union {active} :
        \E d \in (IF i = 0 THEN {<<>>} ELSE Images(file[i])) :
          /\ active' = i
          /\ file' = [j \in Inodes |-> IF j = i THEN [data |-> d, hard |-> d] ELSE Empty]
  BY DEF WPowerLoss
<1>2. PICK d \in (IF i = 0 THEN {<<>>} ELSE Images(file[i])) :
        file' = [j \in Inodes |-> IF j = i THEN [data |-> d, hard |-> d] ELSE Empty]
  BY <1>1
<1>3. WriterGone
  BY DEF WPowerLoss
<1>4. Leads(d, d) /\ Measured(d)
  <2>1. CASE i = 0
    BY <1>2, <2>1, NoneKept
  <2>2. CASE i # 0
    <3>1. i \in Inodes /\ d \in Images(file[i])
      BY <1>1, <1>2, <2>2 DEF WalInv, WalTypes
    <3>2. file[i] \in File /\ Measured(file[i].data) /\ Measured(file[i].hard)
      BY <3>1 DEF WalInv, WalTypes, JournalInv, Measures
    <3>3. d \in Segments
      BY <3>1, <3>2, ImageSegment, FilesAssumption
    <3>4. Leads(d, d)
      BY <3>3, SegmentIs, LeadsSelf
    <3>5. QED
      BY <3>1, <3>2, <3>4, MeasuredImage
  <2>3. QED
    BY <2>1, <2>2
<1>5. \A j \in Inodes : \/ file'[j].data = d /\ file'[j].hard = d
                        \/ file'[j].data = <<>> /\ file'[j].hard = <<>>
  BY <1>2, EmptyFile
<1>6. wbuf' = <<>>
  BY <1>3, WriterGoneTypes
<1>7. Leading' /\ Measures'
  BY <1>4, <1>5, <1>6, NoneKept DEF Leading, Measures
<1>8. QED
  BY <1>3, <1>7, GoneKeeps

-----------------------------------------------------------------------------
(* Every step of the whole system                                          *)

(* Steps of the store and of the engine leave all of it alone.             *)
LEMMA JournalSame ==
  ASSUME JournalInv,
         UNCHANGED <<file, active, temp, handle, wbuf, wpc, todo, given, upTo, live, scarred>>
  PROVE  JournalInv'
<1>1. Leading' /\ Measures'
  BY FilesStay
<1>2. DataOf(handle)' = DataOf(handle) /\ OnDisk' = OnDisk
  BY DEF DataOf, OnDisk
<1>3. Tidy' /\ Batched' /\ Copying'
  BY <1>2 DEF JournalInv, Tidy, Batched, Copying, Scanned
<1>4. QED
  BY <1>1, <1>3 DEF JournalInv

(* It holds of a new directory, and of one an earlier process left.        *)
LEMMA JournalInitially == ASSUME WInit PROVE JournalInv
<1>1. /\ wbuf = <<>> /\ given = <<>> /\ wpc = "closed"
      /\ \A i \in Inodes : \/ file[i].data = <<>> /\ file[i].hard = <<>>
                           \/ file[i].data = <<Header>> /\ file[i].hard = <<Header>>
  BY EmptyFile DEF WInit
<1>2. Measured(<<Header>>) /\ Leads(<<Header>>, <<Header>>)
  <2>1. \A k \in 1..Len(<<Header>>) : k = 1
    OBVIOUS
  <2>2. Measured(<<Header>>)
    BY <2>1, WalLenIs DEF Measured, Sized
  <2>3. QED
    BY <2>2, SegmentOne, SegmentIs, LeadsSelf
<1>3. Leading /\ Measures
  BY <1>1, <1>2, NoneKept DEF Leading, Measures
<1>4. Tidy
  BY <1>1, NothingLeft DEF Tidy, Scanned
<1>5. Batched /\ Copying
  <2>1. \A k \in 1..Len(<<>>) : FALSE
    OBVIOUS
  <2>2. QED
    BY <1>1, <2>1 DEF Batched, Copying
<1>6. QED
  BY <1>3, <1>4, <1>5 DEF JournalInv

-----------------------------------------------------------------------------
(* What the log's files leave to a kill, and to any crash                  *)

(* b, with what is stable of it, has come from a: it is the same, or went  *)
(* on in the page cache, or was synced.                                    *)
Follows(a, b) ==
  \/ b = a
  \/ b.hard = a.hard /\ Leads(a.data, b.data)
  \/ b.data = a.data /\ b.hard = a.data

(* The bytes under a name are a segment.                                   *)
LEMMA SegmentAt ==
  ASSUME NEW f \in [Inodes -> File], NEW i \in Inodes \union {0}
  PROVE  (IF i = 0 THEN <<>> ELSE f[i].data) \in Segments
  BY EmptyOf DEF Segments, File

(* An empty file has no records.                                           *)
LEMMA NothingRead == Recs(<<>>) = {}
<1>1. <<>> \in Segments
  BY EmptyOf DEF Segments
<1>2. \A k \in 2..Len(<<>>) : FALSE
  OBVIOUS
<1>3. \A r : r \notin Recs(<<>>)
  BY <1>1, <1>2, RecsAre
<1>4. QED
  BY <1>3

(* What the log has is records, and what is firm is part of it.            *)
LEMMA MovesNext ==
  ASSUME WalInv' PROVE Promise!Moves
<1>1. OnDisk' \subseteq LogRecords
  <2>1. file' \in [Inodes -> File] /\ active' \in Inodes \union {0}
    BY DEF WalInv, WalTypes
  <2>2. DataOf(active)' = IF active' = 0 THEN <<>> ELSE file'[active'].data
    BY DEF DataOf
  <2>3. DataOf(active)' \in Segments
    BY <2>1, <2>2, SegmentAt
  <2>4. QED
    BY <2>3, RecsTyped DEF OnDisk
<1>2. LogRecords \subseteq Promise!Record
  BY DEF LogRecords, Records, Promise!Record
<1>3. Firm' \subseteq OnDisk'
  BY DEF Firm
<1>4. QED
  BY <1>1, <1>2, <1>3 DEF Promise!Moves

(* A power loss leaves of a file that went on no less than it could leave  *)
(* before.                                                                 *)
LEMMA ImagesFollow ==
  ASSUME NEW f \in File, NEW g \in File, Leads(f.hard, f.data), Leads(g.hard, g.data),
         Follows(f, g), NEW d \in Images(g)
  PROVE  \E e \in Images(f) : Recs(e) \subseteq Recs(d)
<1>1. f.hard \in Images(f) /\ f.data \in Images(f)
  BY DEF Images
<1>2. CASE g = f
  BY <1>2
<1>3. CASE g.hard = f.hard /\ Leads(f.data, g.data)
  <2>1. g.hard \in Seq(Whole(Contents)) /\ g.data \in Seq(Whole(Contents))
    BY SegmentIs DEF File
  <2>2. Leads(g.hard, d)
    BY <2>1, ImageLeads, FilesAssumption
  <2>3. d \in Segments /\ g.hard \in Segments
    BY ImageSegment, FilesAssumption DEF File
  <2>4. Recs(g.hard) \subseteq Recs(d)
    BY <2>2, <2>3, LeadsRecs
  <2>5. QED
    BY <1>1, <1>3, <2>4
<1>4. CASE g.data = f.data /\ g.hard = f.data
  <2>1. d = f.data
    BY <1>4 DEF Images
  <2>2. QED
    BY <1>1, <2>1
<1>5. QED
  BY <1>2, <1>3, <1>4 DEF Follows

(* Both what a kill leaves and what any crash leaves have grown.           *)
Grows == Promise!Moves /\ OnDisk \subseteq OnDisk' /\ Firm \subseteq Firm'

(* It is enough that every outcome of a crash has at least the records of  *)
(* an outcome there was before.                                            *)
LEMMA OutcomesGrow ==
  ASSUME WalInv', OnDisk \subseteq OnDisk',
         \A d \in Leftovers' : \E e \in Leftovers : Recs(e) \subseteq Recs(d)
  PROVE  Grows
<1>1. ASSUME NEW r \in Firm PROVE r \in Firm'
  <2>1. r \in OnDisk /\ \A e \in Leftovers : r \in Recs(e)
    BY <1>1 DEF Firm
  <2>2. \A d \in Leftovers' : r \in Recs(d)
    BY <2>1
  <2>3. QED
    BY <2>1, <2>2 DEF Firm
<1>2. QED
  BY <1>1, MovesNext DEF Grows

(* Steps that keep the name, drop at most names that stable storage might  *)
(* still use, and write nothing but more to the files that keep one.       *)
LEMMA NamedGrow ==
  ASSUME WalInv, WalInv', Leading, Leading', active' = active, stale' \subseteq stale,
         \A i \in (stale' \union {active}) \ {0} : Follows(file[i], file'[i])
  PROVE  Grows
<1>1. /\ file \in [Inodes -> File] /\ file' \in [Inodes -> File]
      /\ active \in Inodes \union {0} /\ stale \subseteq Inodes \union {0}
  BY DEF WalInv, WalTypes
<1>2. OnDisk \subseteq OnDisk'
  <2>1. CASE active = 0
    BY <2>1 DEF OnDisk, DataOf
  <2>2. CASE active # 0
    <3>1. /\ file[active] \in File /\ file'[active] \in File /\ active \in Inodes
          /\ DataOf(active) = file[active].data /\ DataOf(active)' = file'[active].data
      BY <1>1, <2>2 DEF DataOf
    <3>2. file[active].data \in Segments /\ file'[active].data \in Segments
      BY <3>1 DEF File
    <3>3. Leads(file[active].data, file'[active].data)
      <4>1. Leads(file[active].data, file[active].data)
        BY <3>2, SegmentIs, LeadsSelf
      <4>2. Follows(file[active], file'[active])
        BY <2>2
      <4>3. QED
        BY <4>1, <4>2 DEF Follows
    <3>4. Recs(file[active].data) \subseteq Recs(file'[active].data)
      BY <3>2, <3>3, LeadsRecs
    <3>5. QED
      BY <3>1, <3>4 DEF OnDisk
  <2>3. QED
    BY <2>1, <2>2
<1>3. ASSUME NEW d \in Leftovers'
      PROVE  \E e \in Leftovers : Recs(e) \subseteq Recs(d)
  <2>1. PICK i \in stale' \union {active'} :
          d \in (IF i = 0 THEN {<<>>} ELSE Images(file'[i]))
    BY <1>3 DEF Leftovers
  <2>2. i \in stale \union {active}
    BY <2>1
  <2>3. CASE i = 0
    <3>1. d = <<>> /\ <<>> \in Leftovers
      BY <2>1, <2>2, <2>3 DEF Leftovers
    <3>2. QED
      BY <3>1
  <2>4. CASE i # 0
    <3>1. /\ i \in Inodes /\ file[i] \in File /\ file'[i] \in File /\ d \in Images(file'[i])
          /\ Follows(file[i], file'[i])
      BY <1>1, <2>1, <2>2, <2>4
    <3>2. Leads(file[i].hard, file[i].data) /\ Leads(file'[i].hard, file'[i].data)
      BY <3>1 DEF Leading
    <3>3. PICK e \in Images(file[i]) : Recs(e) \subseteq Recs(d)
      BY <3>1, <3>2, ImagesFollow
    <3>4. e \in Leftovers
      BY <2>2, <2>4, <3>3 DEF Leftovers
    <3>5. QED
      BY <3>3, <3>4
  <2>5. QED
    BY <2>3, <2>4
<1>4. QED
  BY <1>2, <1>3, OutcomesGrow

(* A write of the log's files, for the promise.                            *)
LEMMA GrowingGrows ==
  ASSUME WalInv, WalInv', Leading, Leading', active' = active, stale' \subseteq stale, Growing
  PROVE  Grows
<1>1. \A i \in Inodes : Follows(file[i], file'[i])
  BY DEF Growing, Follows
<1>2. (stale' \union {active}) \ {0} \subseteq Inodes
  BY DEF WalInv, WalTypes
<1>3. QED
  BY <1>1, <1>2, NamedGrow

(* A step that leaves the files that keep a name as they are.              *)
LEMMA RetainedGrow ==
  ASSUME WalInv, WalInv', Leading, Leading', active' = active, stale' \subseteq stale,
         \A i \in (stale' \union {active}) \ {0} : file'[i] = file[i]
  PROVE  Grows
  BY NamedGrow DEF Follows

(* Steps that change no file and no name change no outcome.                *)
LEMMA NothingMoves ==
  ASSUME UNCHANGED <<file, active, stale, acked, sure, floor>>
  PROVE  UNCHANGED Promise!vars
<1>1. DataOf(active)' = DataOf(active) /\ Leftovers' = Leftovers
  BY DEF DataOf, Leftovers
<1>2. OnDisk' = OnDisk /\ Firm' = Firm
  BY <1>1 DEF OnDisk, Firm
<1>3. QED
  BY <1>2 DEF Promise!vars

(* At the end of an append on a sound segment, every record of the batch   *)
(* is there to recover (append_batch).                                     *)
LEMMA GivenLogged ==
  ASSUME WalInv, FilesOrdered, JournalInv, wpc = "sync", Sound, NEW k \in 1..Len(given)
  PROVE  given[k] \in OnDisk
<1>1. /\ wbuf = <<>> /\ todo = <<>> /\ handle = active /\ Sewn(DataOf(handle), wbuf)
  BY DEF JournalInv, Batched, Tidy, Scanned, Sound, WalInv, Names
<1>2. \A j \in 1..Len(<<>>) : FALSE
  OBVIOUS
<1>3. Holds(DataOf(handle), given[k])
  BY <1>1, <1>2 DEF JournalInv, Batched, Holds
<1>4. PICK d \in Segments : d = DataOf(active) /\ d = DataOf(handle)
  BY <1>1, WriterIs
<1>5. PICK j \in 1..Len(d) : d[j].rec = given[k]
  BY <1>3, <1>4 DEF Holds
<1>6. Headed(d)
  BY <1>4 DEF FilesOrdered, Opened
<1>7. given[k] \in LogRecords
  BY DEF WalInv, WalTypes
<1>8. j # 1
  BY <1>5, <1>6, <1>7, RecordIs DEF Headed
<1>9. Upto(d, j)
  <2>1. \A n \in 1..Len(d) : IsWhole(d[n]) /\ d[n].len < U32
    <3>1. DOMAIN d = 1..Len(d)
      BY <1>4 DEF Segments, SegmentsOf
    <3>2. QED
      BY <1>1, <1>4, <3>1 DEF Sewn, Rest, Sound
  <2>2. \A n \in 1..j : n \in 1..Len(d)
    BY <1>4, <1>5 DEF Segments, SegmentsOf
  <2>3. QED
    BY <2>1, <2>2 DEF Upto, ReadableAt
<1>10. j \in 2..Len(d)
  BY <1>4, <1>5, <1>8 DEF Segments, SegmentsOf
<1>11. QED
  BY <1>4, <1>5, <1>6, <1>9, <1>10, RecsAre DEF OnDisk

-----------------------------------------------------------------------------
(* The log's steps as steps of its promise                                 *)

(* A step of the log is one of its promise, or changes nothing of it.      *)
Promised == Promise!Next \/ UNCHANGED Promise!vars

(* Whatever only adds to the log is a Write.                               *)
LEMMA GrowsPromised ==
  ASSUME Grows, UNCHANGED <<acked, sure, floor>> PROVE Promised
  BY DEF Grows, Promised, Promise!Next, Promise!Write

(* Wal::open and recover: a new name may be lost again, and nothing else   *)
(* is.                                                                     *)
LEMMA StartingPromised ==
  ASSUME WalInv, WalInv', FilesOrdered, JournalInv, WStarting
  PROVE  JournalInv' /\ Promised
<1>1. CASE Open
  <2>1. JournalInv'
    BY <1>1, OpenKeeps
  <2>2. UNCHANGED <<acked, sure, floor>> /\ file' = file
    BY <1>1 DEF Open, wHistory, acks, marks
  <2>3. CASE active = 0
    <3>1. active' = Fresh /\ Unused # {}
      BY <1>1, <2>3 DEF Open
    <3>2. file[Fresh] = Empty /\ Fresh # 0
      BY <2>3, <3>1, FreshIs, NoCall DEF WalInv, Names
    <3>3. DataOf(active) = <<>> /\ DataOf(active)' = <<>>
      BY <2>2, <2>3, <3>1, <3>2, EmptyFile DEF DataOf
    <3>4. OnDisk = {} /\ OnDisk' = {}
      BY <3>3, NothingRead DEF OnDisk
    <3>5. Firm = {} /\ Firm' = {}
      BY <3>4 DEF Firm
    <3>6. QED
      BY <2>1, <2>2, <3>4, <3>5, MovesNext, GrowsPromised DEF Grows
  <2>4. CASE active # 0
    <3>1. UNCHANGED <<file, active, stale>>
      BY <1>1, <2>4 DEF Open
    <3>2. QED
      BY <2>1, <2>2, <3>1, NothingMoves DEF Promised
  <2>5. QED
    BY <2>3, <2>4
<1>2. CASE WriteHeader \/ SyncHeader \/ Recover \/ SyncCut \/ SyncCutName
  <2>1. JournalInv' /\ Growing
    BY <1>2, WriteHeaderKeeps, SyncHeaderKeeps, RecoverKeeps, SyncCutKeeps
  <2>2. active' = active /\ stale' \subseteq stale /\ UNCHANGED <<acked, sure, floor>>
    BY <1>2 DEF WriteHeader, SyncHeader, Recover, SyncCut, SyncCutName, names, wHistory,
                acks, marks
  <2>3. Leading /\ Leading'
    BY <2>1 DEF JournalInv
  <2>4. QED
    BY <2>1, <2>2, <2>3, GrowingGrows, GrowsPromised
<1>3. QED
  BY <1>1, <1>2 DEF WStarting

(* With only one name, and its bytes synced, all there is is firm.         *)
LEMMA FirmAll ==
  ASSUME stale' = {}, active' # 0, file'[active'].hard = file'[active'].data
  PROVE  Firm' = OnDisk'
<1>1. Leftovers' = {file'[active'].data}
  BY DEF Leftovers, Images
<1>2. OnDisk' = Recs(file'[active'].data)
  BY DEF OnDisk, DataOf
<1>3. QED
  BY <1>1, <1>2 DEF Firm

(* append_batch answers for records that are there, and with Fsync for     *)
(* records that are firm unless the name may be lost.                      *)
LEMMA CommitPromised ==
  ASSUME WalInv, WalInv', FilesOrdered, JournalInv, Commit
  PROVE  JournalInv' /\ Promised
<1>1. JournalInv' /\ Growing
  BY CommitKeeps
<1>2. /\ wpc = "sync" /\ Acknowledged /\ UNCHANGED <<active, stale, floor>>
      /\ IF Fsync \/ given = <<>> THEN Sync(handle) ELSE UNCHANGED file
  BY DEF Commit, names, marks
<1>3. Grows
  BY <1>1, <1>2, GrowingGrows DEF JournalInv
<1>4. Sound => Range(given) \subseteq OnDisk'
  <2>1. DOMAIN given = 1..Len(given)
    BY DEF WalInv, WalTypes
  <2>2. QED
    BY <1>2, <1>3, <2>1, GivenLogged DEF Grows, Range
<1>5. Sound /\ Fsync /\ stale = {} => Range(given) \subseteq Firm'
  <2> SUFFICES ASSUME Sound, Fsync, stale = {} PROVE Range(given) \subseteq Firm'
    OBVIOUS
  <2>1. Sync(handle) /\ handle = active /\ handle \in Inodes
    BY <1>2, WriterIs DEF JournalInv, Tidy, Sound
  <2>2. file'[active'].hard = file'[active'].data
    BY <1>2, <2>1, SyncIs DEF WalInv
  <2>3. Firm' = OnDisk'
    BY <1>2, <2>1, <2>2, NoCall, FirmAll
  <2>4. QED
    BY <1>4, <2>3
<1>6. Promise!Answer
  <2>1. acked \subseteq acked' /\ acked' \subseteq acked \union OnDisk'
    BY <1>2, <1>4 DEF Acknowledged
  <2>2. sure \subseteq sure' /\ sure' \subseteq sure \union Firm'
    BY <1>2, <1>5 DEF Acknowledged
  <2>3. QED
    BY <1>2, <1>3, <2>1, <2>2 DEF Grows, Promise!Answer
<1>7. QED
  BY <1>1, <1>6 DEF Promised, Promise!Next

(* append_batch, flush() and their errors.                                 *)
LEMMA AppendingPromised ==
  ASSUME WalInv, WalInv', FilesOrdered, JournalInv, WAppending
  PROVE  JournalInv' /\ Promised
<1>1. CASE Commit
  BY <1>1, CommitPromised
<1>2. CASE Copy \/ Spill \/ WriteThrough \/ FlushBuffer \/ BufferWriteFails
           \/ WriteThroughFails \/ StepFails
  <2>1. JournalInv' /\ Growing
    BY <1>2, CopyKeeps, SpillKeeps, WriteThroughKeeps, BufferWriteFailsKeeps,
       WriteThroughFailsKeeps, StepFailsKeeps
  <2>2. UNCHANGED <<active, stale, acked, sure, floor>>
    BY <1>2 DEF Copy, Spill, WriteThrough, FlushBuffer, BufferWriteFails, WriteThroughFails,
                StepFails, names, wHistory, acks, marks
  <2>3. Leading /\ Leading'
    BY <2>1 DEF JournalInv
  <2>4. QED
    BY <2>1, <2>2, <2>3, GrowingGrows, GrowsPromised
<1>3. QED
  BY <1>1, <1>2 DEF WAppending

(* The rename of checkpoint drops what is at or below the watermark and    *)
(* keeps what is above it, under the old name and under the new one.       *)
LEMMA RenamePromised ==
  ASSUME WalInv, WalInv', JournalInv, Rename PROVE Promise!Trim
<1>1. /\ wpc = "ckrename" /\ active' = temp /\ stale' = stale \union {active}
      /\ floor' = HigherOf(floor, upTo) /\ UNCHANGED <<file, acked, sure>>
  BY DEF Rename, acks
<1>2. temp # 0 /\ temp \in Inodes
  BY <1>1 DEF WalInv, WalTypes, Names
<1>3. /\ file[temp].data = <<Header>> \o Frames(live) /\ file[temp].hard = file[temp].data
      /\ Short(live) /\ \A r \in OnDisk : r.lsn > upTo => Among(live, r)
  BY <1>1 DEF JournalInv, Copying
<1>4. floor \in Nat /\ upTo \in Nat /\ live \in Seq(LogRecords)
  BY DEF WalInv, WalTypes
<1>5. floor' \in Nat /\ floor' >= floor /\ floor' >= upTo
  BY <1>1, <1>4, HigherIs
<1>6. OnDisk' = Recs(file[temp].data)
  BY <1>1, <1>2 DEF OnDisk, DataOf
<1>7. OnDisk \subseteq LogRecords
  <2>1. file \in [Inodes -> File] /\ active \in Inodes \union {0}
    BY DEF WalInv, WalTypes
  <2>2. DataOf(active) \in Segments
    BY <2>1, SegmentAt DEF DataOf
  <2>3. QED
    BY <2>2, RecsTyped DEF OnDisk
<1>8. ASSUME NEW r \in OnDisk, r.lsn > floor' PROVE r \in OnDisk'
  <2>1. r.lsn \in Nat
    BY <1>7, <1>8, RecordIs
  <2>2. r.lsn > upTo
    BY <1>4, <1>5, <1>8, <2>1
  <2>3. Among(live, r)
    BY <1>3, <1>8, <2>2
  <2>4. r \in Recs(<<Header>> \o Frames(live))
    BY <1>3, <1>4, <2>3, FramesRead
  <2>5. QED
    BY <1>3, <1>6, <2>4
<1>9. ASSUME NEW r \in Firm, r.lsn > floor' PROVE r \in Firm'
  <2>1. r \in OnDisk /\ \A e \in Leftovers : r \in Recs(e)
    BY <1>9 DEF Firm
  <2>2. r \in OnDisk'
    BY <1>8, <1>9, <2>1
  <2>3. ASSUME NEW d \in Leftovers' PROVE r \in Recs(d)
    <3>1. PICK i \in stale' \union {active'} :
            d \in (IF i = 0 THEN {<<>>} ELSE Images(file'[i]))
      BY <2>3 DEF Leftovers
    <3>2. CASE i \in stale \union {active}
      <4>1. d \in Leftovers
        BY <1>1, <3>1, <3>2 DEF Leftovers
      <4>2. QED
        BY <2>1, <4>1
    <3>3. CASE i = temp
      <4>1. d \in Images(file[temp])
        BY <1>1, <1>2, <3>1, <3>3
      <4>2. d = file[temp].data
        BY <1>3, <4>1 DEF Images
      <4>3. QED
        BY <1>6, <2>2, <4>2
    <3>4. QED
      BY <1>1, <3>1, <3>2, <3>3
  <2>4. QED
    BY <2>2, <2>3 DEF Firm
<1>10. QED
  BY <1>1, <1>5, <1>8, <1>9, MovesNext DEF Promise!Trim, Promise!Above

(* checkpoint: until the rename it adds to files that have another name;   *)
(* after it, it only gives back what no name leads to.                     *)
LEMMA CheckpointingPromised ==
  ASSUME WalInv, WalInv', JournalInv, WCheckpointing
  PROVE  JournalInv' /\ Promised
<1>1. CASE Collect \/ SyncTemp
  <2>1. JournalInv' /\ Growing
    BY <1>1, CollectKeeps, SyncTempKeeps
  <2>2. UNCHANGED <<active, stale, acked, sure, floor>>
    BY <1>1 DEF Collect, SyncTemp, names, wHistory, acks, marks
  <2>3. Leading /\ Leading'
    BY <2>1 DEF JournalInv
  <2>4. QED
    BY <2>1, <2>2, <2>3, GrowingGrows, GrowsPromised
<1>2. CASE Rename
  BY <1>2, RenameKeeps, RenamePromised DEF Promised, Promise!Next
<1>3. CASE WriteTemp \/ SyncDir \/ Reopen
  <2>1. JournalInv'
    BY <1>3, WriteTempKeeps, SyncDirKeeps, ReopenKeeps
  <2>2. active' = active /\ stale' \subseteq stale /\ UNCHANGED <<acked, sure, floor>>
    BY <1>3 DEF WriteTemp, SyncDir, Reopen, names, wHistory, acks, marks
  <2>3. /\ file \in [Inodes -> File]
        /\ (stale \union {active}) \ {0} \subseteq Inodes
    BY DEF WalInv, WalTypes
  <2>4. \A i \in (stale' \union {active}) \ {0} : file'[i] = file[i]
    <3>1. CASE WriteTemp
      BY <2>2, <2>3, <3>1, TempStep
    <3>2. CASE SyncDir
      <4>1. file' = Reclaimed(file, {active, handle}) /\ stale' = {}
        BY <3>2 DEF SyncDir
      <4>2. QED
        BY <2>3, <4>1, ReclaimedIs
    <3>3. CASE Reopen
      <4>1. file' = Reclaimed(file, {active} \union stale) /\ stale' = stale
        BY <3>3 DEF Reopen, names
      <4>2. QED
        BY <2>3, <4>1, ReclaimedIs
    <3>4. QED
      BY <1>3, <3>1, <3>2, <3>3
  <2>5. Leading /\ Leading'
    BY <2>1 DEF JournalInv
  <2>6. Grows
    BY <2>2, <2>4, <2>5, RetainedGrow
  <2>7. QED
    BY <2>1, <2>2, <2>6, GrowsPromised
<1>4. QED
  BY <1>1, <1>2, <1>3 DEF WCheckpointing

(* A process kill keeps the page cache, with any part of the write under   *)
(* way.                                                                    *)
LEMMA KillPromised ==
  ASSUME WalInv, WalInv', FilesOrdered, JournalInv, WKill
  PROVE  JournalInv' /\ Promised
<1>1. JournalInv'
  BY WKillKeeps
<1>2. PICK f \in [Inodes -> File] :
        /\ file' = Reclaimed(f, {active, temp} \union stale)
        /\ \A i \in Inodes :
             \/ f[i] = file[i]
             \/ /\ f[i].hard = file[i].hard /\ Leads(file[i].data, f[i].data)
                /\ Measured(f[i].data)
  BY KilledFiles
<1>3. UNCHANGED <<active, stale, acked, sure, floor>>
  BY DEF WKill, names, acks, marks
<1>4. (stale' \union {active}) \ {0} \subseteq Inodes
  BY DEF WalInv, WalTypes
<1>5. \A i \in (stale' \union {active}) \ {0} : Follows(file[i], file'[i])
  <2> SUFFICES ASSUME NEW i \in (stale' \union {active}) \ {0}
               PROVE  Follows(file[i], file'[i])
    OBVIOUS
  <2>1. i \in Inodes /\ i \in {active, temp} \union stale
    BY <1>3, <1>4
  <2>2. file'[i] = f[i]
    BY <1>2, <2>1, ReclaimedIs
  <2>3. QED
    BY <1>2, <2>1, <2>2 DEF Follows
<1>6. Leading /\ Leading'
  BY <1>1 DEF JournalInv
<1>7. Grows
  BY <1>3, <1>5, <1>6, NamedGrow
<1>8. QED
  BY <1>1, <1>3, <1>7, GrowsPromised

(* A power loss leaves an image of a file that may have the name, and so   *)
(* at least what was firm.                                                 *)
LEMMA PowerLossPromised ==
  ASSUME WalInv, WalInv', JournalInv, WPowerLoss
  PROVE  JournalInv' /\ Promised
<1>1. PICK i \in stale \union {active} :
        \E d \in (IF i = 0 THEN {<<>>} ELSE Images(file[i])) :
          /\ active' = i
          /\ file' = [j \in Inodes |-> IF j = i THEN [data |-> d, hard |-> d] ELSE Empty]
  BY DEF WPowerLoss
<1>2. PICK d \in (IF i = 0 THEN {<<>>} ELSE Images(file[i])) :
        file' = [j \in Inodes |-> IF j = i THEN [data |-> d, hard |-> d] ELSE Empty]
  BY <1>1
<1>3. active' = i /\ stale' = {} /\ acked' = sure /\ UNCHANGED <<sure, floor>>
  BY <1>1 DEF WPowerLoss
<1>4. d \in Leftovers
  BY <1>2 DEF Leftovers
<1>5. Recs(d) = OnDisk' /\ Firm \subseteq Recs(d)
  <2>1. d = DataOf(active)'
    <3>1. CASE i = 0
      BY <1>2, <1>3, <3>1 DEF DataOf
    <3>2. CASE i # 0
      <4>1. i \in Inodes
        BY <3>2 DEF WalInv, WalTypes
      <4>2. file'[i].data = d
        BY <1>2, <4>1
      <4>3. QED
        BY <1>3, <3>2, <4>2 DEF DataOf
    <3>3. QED
      BY <3>1, <3>2
  <2>2. QED
    BY <1>4, <2>1 DEF OnDisk, Firm
<1>6. Firm' = OnDisk'
  <2>1. CASE i = 0
    <3>1. OnDisk' = {}
      BY <1>3, <2>1, NothingRead DEF OnDisk, DataOf
    <3>2. QED
      BY <3>1 DEF Firm
  <2>2. CASE i # 0
    <3>1. i \in Inodes
      BY <2>2 DEF WalInv, WalTypes
    <3>2. file'[i].hard = file'[i].data
      BY <1>2, <3>1
    <3>3. QED
      BY <1>3, <2>2, <3>2, FirmAll
  <2>3. QED
    BY <2>1, <2>2
<1>7. Promise!PowerLoss
  BY <1>3, <1>5, <1>6, MovesNext DEF Promise!PowerLoss
<1>8. QED
  BY <1>7, WPowerLossKeeps DEF Promised, Promise!Next

(* After recovery LSNs start anew above those recovered.                   *)
LEMMA StartedPromised ==
  ASSUME JournalInv, Started PROVE JournalInv' /\ Promised
<1>1. UNCHANGED <<file, active, stale, temp, handle, wbuf, wpc, todo, given, upTo, live, scarred>>
  BY DEF Started, names, writer, callVars
<1>2. DataOf(active)' = DataOf(active) /\ Leftovers' = Leftovers
  BY <1>1 DEF DataOf, Leftovers
<1>3. OnDisk' = OnDisk /\ Firm' = Firm
  BY <1>2 DEF OnDisk, Firm
<1>4. Promise!Restart
  BY <1>3 DEF Promise!Restart, Promise!Above, Started, LsnsRestart
<1>5. QED
  BY <1>1, <1>4, JournalSame DEF Promised, Promise!Next

(* Every step of the engine over its log and its store.                    *)
LEMMA JournalStep ==
  ASSUME TypeInv, TypeInv', Ordered, JournalInv, [Next]_vars
  PROVE  JournalInv' /\ Promised
<1>1. WalInv /\ WalInv' /\ nextLsn \in Nat \ {0} /\ FilesOrdered
  BY DEF TypeInv, EngineTypes, Ordered
<1>2. CASE \/ UNCHANGED vars \/ StartStore \/ Retry \/ StoreWorks
           \/ DurableAnswered \/ Logged \/ Requeue \/ Trimmed
           \/ \E w \in Plain \union Durable : Accept(w)
  <2>1. UNCHANGED walVars
    BY <1>2 DEF vars, StartStore, Retry, StoreWorks, Accept, DurableAnswered, Logged, Requeue,
                Trimmed
  <2>2. UNCHANGED <<file, active, stale, temp, handle, wbuf, wpc, todo, given, upTo, live,
                    scarred, acked, sure, floor>>
    BY <2>1 DEF walVars, names, writer, callVars, wHistory, acks, marks
  <2>3. QED
    BY <2>2, JournalSame, NothingMoves DEF Promised
<1>3. CASE StartLog
  BY <1>1, <1>3, StartingPromised DEF StartLog
<1>4. CASE Started
  BY <1>4, StartedPromised
<1>5. CASE Flush \/ \E w \in Plain \union Durable : SubmitDurable(w)
  <2>1. PICK ws \in Seq(Value), call \in {"flush", "durable"} : LogBatch(ws, call)
    BY <1>5, LoggedWrites
  <2>2. AppendBatch(Stamped(ws))
    BY <2>1 DEF LogBatch
  <2>3. Stamped(ws) \in Seq(LogRecords)
    BY <1>1, StampedLogs
  <2>4. PICK recs \in Seq(LogRecords) : AppendBatch(recs)
    BY <2>2, <2>3
  <2>5. JournalInv'
    BY <2>4, AppendBatchKeeps
  <2>6. UNCHANGED <<file, active, stale, acked, sure, floor>>
    BY <2>4 DEF AppendBatch, names, wHistory, acks, marks
  <2>7. QED
    BY <2>5, <2>6, NothingMoves DEF Promised
<1>6. CASE Persisted \/ FlushLog
  <2>1. FlushCall \/ \E n : CheckpointCall(n)
    BY <1>6 DEF Persisted, FlushLog
  <2>2. UNCHANGED <<file, active, stale, acked, sure, floor>>
    BY <2>1 DEF FlushCall, CheckpointCall, names, wHistory, acks, marks
  <2>3. QED
    BY <2>1, <2>2, OtherCallKeeps, NothingMoves DEF Promised
<1>7. CASE LogWorks
  BY <1>1, <1>7, AppendingPromised, CheckpointingPromised DEF LogWorks
<1>8. CASE Kill \/ PowerLoss
  BY <1>1, <1>8, KillPromised, PowerLossPromised DEF Kill, PowerLoss
<1>9. QED
  BY <1>2, <1>3, <1>4, <1>5, <1>6, <1>7, <1>8 DEF Next

(* There is nothing to recover, and no promise yet.                        *)
LEMMA PromiseInitially == ASSUME WInit PROVE Promise!Init
<1>1. DataOf(active) \in {<<>>, <<Header>>}
  <2>1. CASE active = 0
    BY <2>1 DEF DataOf
  <2>2. CASE active # 0
    BY <2>2, FilesAssumption DEF WInit, DataOf
  <2>3. QED
    BY <2>1, <2>2
<1>2. Recs(<<Header>>) = {}
  <2>1. <<Header>> \in Segments /\ \A k \in 2..Len(<<Header>>) : FALSE
    BY SegmentOne
  <2>2. \A r : r \notin Recs(<<Header>>)
    BY <2>1, RecsAre
  <2>3. QED
    BY <2>2
<1>3. OnDisk = {}
  BY <1>1, <1>2, NothingRead DEF OnDisk
<1>4. QED
  BY <1>3 DEF Firm, WInit, Promise!Init

(* The inductive invariant under which every step keeps the promise.       *)
PromiseInv == RisingInv /\ JournalInv

(* Every step keeps what the refinement rests on, and is a step of Journal *)
(* (wal.rs).                                                               *)
LEMMA PromiseStep == PromiseInv /\ [Next]_vars => PromiseInv' /\ Promised
<1> SUFFICES ASSUME PromiseInv, [Next]_vars PROVE PromiseInv' /\ Promised
  OBVIOUS
<1>1. TypeInv' /\ Shape' /\ Ordered' /\ Numbered'
  BY TypeStep, ShapeStep, OrderedStep, NumberedStep DEF PromiseInv, RisingInv
<1>2. JournalInv' /\ Promised
  BY <1>1, JournalStep DEF PromiseInv, RisingInv
<1>3. QED
  BY <1>1, <1>2 DEF PromiseInv, RisingInv

(* A program that has not started has no log.                              *)
LEMMA PromiseInvInitially == Init => PromiseInv
<1> SUFFICES ASSUME Init PROVE PromiseInv
  OBVIOUS
<1>1. WInit /\ step = "starting" /\ TypeInv /\ Shape
  BY TypeInitially, CheckpointInitially DEF Init
<1>2. Ordered
  BY <1>1, OrderedInitially DEF TypeInv
<1>3. Numbered
  BY <1>1 DEF WInit, Numbered
<1>4. JournalInv
  BY <1>1, JournalInitially
<1>5. QED
  BY <1>1, <1>2, <1>3, <1>4 DEF PromiseInv, RisingInv

(* The log on its files is a Journal: through failed and partial writes,   *)
(* failed checkpoints, kills and power losses, what append_batch answered  *)
(* for is there to recover until a checkpoint reaches it (wal.rs).         *)
THEOREM FilesKeepJournal == Spec => JournalKept
<1>1. Init => Promise!Init
  BY PromiseInitially DEF Init
<1>2. PromiseInv /\ [Next]_vars => [Promise!Next]_(Promise!vars)
  BY PromiseStep DEF Promised
<1>3. PromiseInv /\ [Next]_vars => PromiseInv'
  BY PromiseStep
<1>4. QED
  BY <1>1, <1>2, <1>3, PromiseInvInitially, PTL DEF Spec, JournalKept, Promise!Spec

-----------------------------------------------------------------------------
(* What the engine owes is in the log or in the store                      *)

(* A reopening of the store that reads data finds o, or a later version.   *)
Secured(data, o) ==
  o.ver = 0 \/ \E s \in Value : s.id = o.id /\ s.ver >= o.ver /\ Shown(data, s)

(* A record of S above n has o, or a later version.                        *)
InLog(S, n, o) == \E r \in S : r.lsn > n /\ r.id = o.id /\ r.ver >= o.ver

(* What the engine may owe a caller: a version of an entity.               *)
Versions == [id : Ids, ver : Nat]

(* Whatever is owed after a kill is in what append_batch answered for,     *)
(* above the watermark, or in the store; and whatever is owed after any    *)
(* crash is so on stable storage.                                          *)
OwedKept ==
  /\ owed \subseteq Versions /\ owedFirm \subseteq Versions
  /\ \A o \in owed : InLog(acked, floor, o) \/ Secured(dfile.data, o)
  /\ \A o \in owedFirm : InLog(sure, floor, o) \/ Secured(dfile.hard, o)

(* The steps of a checkpoint up to the rename.                             *)
BeforeRename == {"ckflush", "ckwrite", "cksync", "ckrename"}

(* What a checkpoint leaves owed the log has above its watermark, or the   *)
(* store on stable storage.                                                *)
DroppedStored ==
  wpc \in BeforeRename =>
    /\ \A o \in owed : InLog(acked, HigherOf(floor, upTo), o) \/ Secured(dfile.hard, o)
    /\ \A o \in owedFirm : InLog(sure, HigherOf(floor, upTo), o) \/ Secured(dfile.hard, o)

(* What a call logs is above every watermark; the store answers for a      *)
(* batch when its file is synced, and only an open one answers.            *)
Calls ==
  /\ step \in {"flush", "durable"} =>
       /\ wpc \notin BeforeRename \union {"ckdir", "ckreopen"}
       /\ \A k \in 1..Len(batch) : batch[k].lsn > floor
  /\ step # "starting" => floor < nextLsn

(* The store is given no empty batch (worker.rs flush_batch), answers Ok   *)
(* when its file is synced (persist_batch), and only an open one has a     *)
(* call; with its name unsynced nothing is owed after a power loss.        *)
Stored ==
  /\ step \in {"flush", "persist"} => batch # <<>>
  /\ step = "persist" /\ dpc = "ready" /\ dans = "ok" => dfile.hard = dfile.data
  /\ dpc # "closed" => dopen
  /\ ~dnamed => owedFirm = {}

(* The parts of the inductive invariant of KeptUntilPassed.                *)
EndInv == OwedKept /\ DroppedStored /\ Calls /\ Stored

(* The store's file goes on: a reopening reads of it what it read before.  *)
Onward ==
  /\ Leads(dfile.data, dfile'.data) /\ Leads(dfile.hard, dfile'.hard)
  /\ dnamed' = dnamed

(* Every step of the store but a power loss.                               *)
LEMMA StoreOnward ==
  ASSUME DiskInv, KeepsInv,
         DStarting \/ DPersisting \/ DKill \/ UNCHANGED <<dfile, dnamed>>
  PROVE  Onward
<1>1. /\ Leads(dfile.data, dfile.data) /\ Leads(dfile.hard, dfile.hard)
      /\ Leads(dfile.hard, dfile.data)
  BY BufferPlace, LeadsSelf DEF KeepsInv, Answered
<1>2. CASE UNCHANGED <<dfile, dnamed>>
  BY <1>1, <1>2 DEF Onward
<1>3. CASE DCopy \/ DSyncFails
  BY <1>1, <1>3 DEF DCopy, DSyncFails, dHistory, Onward
<1>4. CASE DSyncCut \/ Index
  <2>1. dfile'.data = dfile.data /\ dfile'.hard = dfile.data
    BY <1>4, DSyncIs DEF DSyncCut, Index, DiskInv
  <2>2. dnamed' = dnamed
    BY <1>4 DEF DSyncCut, Index, dHistory
  <2>3. QED
    BY <1>1, <2>1, <2>2 DEF Onward
<1>5. CASE DOpen \/ DSpill \/ DFlushBuffer \/ DBufferWriteFails \/ DWriteThrough
           \/ DWriteThroughFails \/ DKill
  <2>1. Leads(dfile.data, dfile'.data)
    BY <1>5, DOpenKeeps, DSpillKeeps, DFlushBufferKeeps, DBufferWriteFailsKeeps,
       DWriteThroughKeeps, DWriteThroughFailsKeeps, DKillKeeps
  <2>2. dfile'.hard = dfile.hard
    BY <1>5 DEF DOpen, DSpill, DFlushBuffer, DBufferWriteFails, DWriteThrough,
                DWriteThroughFails, DKill, DWrite, DiskInv, DiskTypes, DiskFile
  <2>3. dnamed' = dnamed
    BY <1>5 DEF DOpen, DSpill, DFlushBuffer, DBufferWriteFails, DWriteThrough,
                DWriteThroughFails, DKill, dHistory
  <2>4. QED
    BY <1>1, <2>1, <2>2, <2>3 DEF Onward
<1>6. QED
  BY <1>2, <1>3, <1>4, <1>5 DEF DStarting, DPersisting

(* What is secured stays secured as the file goes on.                      *)
LEMMA SecuredFurther ==
  ASSUME NEW a \in Seq(Whole(Value)), NEW b \in Seq(Whole(Value)), Leads(a, b),
         NEW o, Secured(a, o)
  PROVE  Secured(b, o)
  BY LeadsShown DEF Secured

(* In the file, and on stable storage.                                     *)
LEMMA SecuredOnward ==
  ASSUME DiskInv, DiskInv', Onward, NEW o
  PROVE  /\ Secured(dfile.data, o) => Secured(dfile'.data, o)
         /\ Secured(dfile.hard, o) => Secured(dfile'.hard, o)
<1>1. /\ dfile.data \in Seq(Whole(Value)) /\ dfile.hard \in Seq(Whole(Value))
      /\ dfile'.data \in Seq(Whole(Value)) /\ dfile'.hard \in Seq(Whole(Value))
  BY DEF DiskInv, DiskTypes, DiskFile
<1>2. QED
  BY <1>1, SecuredFurther DEF Onward

(* What is on stable storage is in the file, too.                          *)
LEMMA SecuredHard ==
  ASSUME DiskInv, KeepsInv, NEW o, Secured(dfile.hard, o)
  PROVE  Secured(dfile.data, o)
  BY BufferPlace, SecuredFurther DEF KeepsInv, Answered

(* How the log's history moves in a step of its own.                       *)
LEMMA HistoryMoves ==
  ASSUME WalInv, WStarting \/ WAppending \/ WCheckpointing
  PROVE  /\ acked \subseteq acked' /\ sure \subseteq sure'
         /\ floor' = floor \/ Rename
         /\ ~Rename /\ wpc' \in BeforeRename =>
              wpc \in BeforeRename /\ UNCHANGED <<upTo, floor>>
         /\ wpc \notin BeforeRename \union {"ckdir", "ckreopen"} =>
              wpc' \notin BeforeRename \union {"ckdir", "ckreopen"}
<1>1. CASE WStarting
  BY <1>1 DEF WStarting, Open, WriteHeader, SyncHeader, Recover, SyncCut, SyncCutName, wHistory,
              acks, marks, WGoto, WAnswer, BeforeRename
<1>2. CASE Copy \/ Spill \/ WriteThrough \/ FlushBuffer
  BY <1>2 DEF Copy, Spill, WriteThrough, FlushBuffer, wHistory, acks, marks, WGoto, BeforeRename
<1>3. CASE BufferWriteFails \/ WriteThroughFails \/ StepFails
  BY <1>3 DEF BufferWriteFails, WriteThroughFails, StepFails, WFails, wHistory, acks, marks,
              WAnswer, BeforeRename
<1>4. CASE Commit
  <2>1. /\ acked' = acked \/ acked' = acked \union Range(given)
        /\ sure' = sure \/ sure' = sure \union Range(given)
        /\ wpc' = "ready" /\ floor' = floor
    BY <1>4 DEF Commit, Acknowledged, WAnswer, marks
  <2>2. QED
    BY <2>1 DEF BeforeRename
<1>5. CASE Collect \/ WriteTemp \/ SyncTemp
  BY <1>5 DEF Collect, WriteTemp, SyncTemp, wHistory, acks, marks, WGoto, callVars, BeforeRename
<1>6. CASE Rename \/ SyncDir \/ Reopen
  BY <1>6 DEF Rename, SyncDir, Reopen, wHistory, acks, marks, WGoto, WAnswer, BeforeRename
<1>7. QED
  BY <1>1, <1>2, <1>3, <1>4, <1>5, <1>6 DEF WAppending, WCheckpointing

(* Whatever is owed stays so as the store's file goes on, if what the log  *)
(* gives up is secured, and the log has what is owed anew.                 *)
LEMMA OwedOn ==
  ASSUME DiskInv, DiskInv', Onward, OwedKept, owed' \subseteq Versions, owedFirm' \subseteq Versions,
         \A o \in owed' :
           \/ InLog(acked', floor', o)
           \/ o \in owed /\ (InLog(acked, floor, o) => Secured(dfile'.data, o)),
         \A o \in owedFirm' :
           \/ InLog(sure', floor', o)
           \/ o \in owedFirm /\ (InLog(sure, floor, o) => Secured(dfile'.hard, o))
  PROVE  OwedKept'
<1>1. ASSUME NEW o \in owed'
      PROVE  InLog(acked', floor', o) \/ Secured(dfile'.data, o)
  BY <1>1, SecuredOnward DEF OwedKept
<1>2. ASSUME NEW o \in owedFirm'
      PROVE  InLog(sure', floor', o) \/ Secured(dfile'.hard, o)
  BY <1>2, SecuredOnward DEF OwedKept
<1>3. QED
  BY <1>1, <1>2 DEF OwedKept

(* A step that makes nothing new owed, and trims nothing from the log.     *)
LEMMA OwedSame ==
  ASSUME DiskInv, DiskInv', Onward, OwedKept, floor' = floor,
         owed' \subseteq owed, owedFirm' \subseteq owedFirm, acked \subseteq acked', sure \subseteq sure'
  PROVE  OwedKept'
<1>1. \A o : /\ InLog(acked, floor, o) => InLog(acked', floor', o)
             /\ InLog(sure, floor, o) => InLog(sure', floor', o)
  BY DEF InLog
<1>2. owed' \subseteq Versions /\ owedFirm' \subseteq Versions
  BY DEF OwedKept
<1>3. QED
  BY <1>1, <1>2, OwedOn

(* The rename drops from the log, of what is owed, only what the store has *)
(* on stable storage.                                                      *)
LEMMA OwedTrimmed ==
  ASSUME TypeInv, TypeInv', KeepsInv, OwedKept, DroppedStored, Rename,
         Onward, UNCHANGED <<dfile, owed, owedFirm>>
  PROVE  OwedKept'
<1>1. /\ wpc = "ckrename" /\ floor' = HigherOf(floor, upTo) /\ UNCHANGED <<acked, sure>>
  BY DEF Rename, acks
<1>2. DiskInv /\ DiskInv'
  BY DEF TypeInv
<1>3. /\ \A o \in owed : InLog(acked', floor', o) \/ Secured(dfile.hard, o)
      /\ \A o \in owedFirm : InLog(sure', floor', o) \/ Secured(dfile.hard, o)
  BY <1>1 DEF DroppedStored, BeforeRename
<1>4. \A o \in owed : InLog(acked', floor', o) \/ Secured(dfile'.data, o)
  BY <1>2, <1>3, SecuredHard
<1>5. owed' \subseteq Versions /\ owedFirm' \subseteq Versions
  BY DEF OwedKept
<1>6. QED
  BY <1>2, <1>3, <1>4, <1>5, OwedOn

(* After recovery the LSNs of what is left start anew, and so does the     *)
(* watermark.                                                              *)
LEMMA OwedRestarts ==
  ASSUME TypeInv, TypeInv', KeepsInv, OwedKept, Onward, Started
  PROVE  OwedKept'
<1>1. /\ acked' = {r \in acked : r.lsn > floor} /\ sure' = {r \in sure : r.lsn > floor}
      /\ floor' = 0 /\ UNCHANGED <<owed, owedFirm>>
  BY DEF Started, LsnsRestart
<1>2. acked \subseteq LogRecords /\ sure \subseteq LogRecords /\ DiskInv /\ DiskInv'
  BY DEF TypeInv, WalInv, WalTypes
<1>3. \A r \in LogRecords : r.lsn > 0
  BY RecordIs
<1>4. \A o : /\ InLog(acked, floor, o) => InLog(acked', floor', o)
             /\ InLog(sure, floor, o) => InLog(sure', floor', o)
  BY <1>1, <1>2, <1>3 DEF InLog
<1>5. owed' \subseteq Versions /\ owedFirm' \subseteq Versions
  BY <1>1 DEF OwedKept
<1>6. QED
  BY <1>1, <1>2, <1>4, <1>5, OwedOn

(* An Ok of append_batch makes the engine owe records the log has.         *)
LEMMA OwedMore ==
  ASSUME TypeInv, TypeInv', OwedKept, Onward, Calls, step \in {"flush", "durable"},
         UNCHANGED <<acked, sure, floor>>, Owing
  PROVE  OwedKept'
<1>1. /\ batch \in Seq(LogRecords) /\ acked \subseteq LogRecords /\ sure \subseteq acked
      /\ DiskInv /\ DiskInv'
  BY DEF TypeInv, EngineTypes, WalInv, WalTypes
<1>2. \A r \in Range(batch) : r.lsn > floor /\ r \in LogRecords
  <2>1. DOMAIN batch = 1..Len(batch) /\ \A k \in 1..Len(batch) : batch[k] \in LogRecords
    BY <1>1
  <2>2. \A k \in 1..Len(batch) : batch[k].lsn > floor
    BY DEF Calls
  <2>3. QED
    BY <2>1, <2>2 DEF Range
<1>3. ASSUME NEW S, S \subseteq acked, NEW o \in Pairs(Range(batch) \intersect S)
      PROVE  o \in Versions /\ InLog(S, floor, o)
  <2>1. PICK r \in Range(batch) \intersect S : o = [id |-> r.id, ver |-> r.ver]
    BY <1>3 DEF Pairs
  <2>2. r \in LogRecords /\ r.lsn > floor
    BY <1>2, <2>1
  <2>3. r.id \in Ids /\ r.ver \in Nat
    BY <2>2, RecordIs
  <2>4. QED
    BY <2>1, <2>2, <2>3 DEF Versions, InLog
<1>4. \A o : o \in owed' => o \in owed \/ o \in Pairs(Range(batch) \intersect acked)
  BY DEF Owing
<1>5. \A o : o \in owedFirm' => o \in owedFirm \/ o \in Pairs(Range(batch) \intersect sure)
  BY DEF Owing
<1>6. owed' \subseteq Versions /\ owedFirm' \subseteq Versions
  BY <1>1, <1>3, <1>4, <1>5 DEF OwedKept
<1>7. \A o \in owed' : InLog(acked', floor', o) \/ (o \in owed /\ ~InLog(acked, floor, o))
  BY <1>3, <1>4
<1>8. \A o \in owedFirm' : InLog(sure', floor', o) \/ (o \in owedFirm /\ ~InLog(sure, floor, o))
  BY <1>1, <1>3, <1>5
<1>9. QED
  BY <1>1, <1>6, <1>7, <1>8, OwedOn

(* A power loss leaves what the log had synced, and an image of the        *)
(* store's file, unless its name is lost.                                  *)
LEMMA OwedSurvives ==
  ASSUME TypeInv, TypeInv', KeepsInv, OwedKept, Stored, PowerLoss
  PROVE  OwedKept'
<1>1. /\ acked' = sure /\ UNCHANGED <<sure, floor, owedFirm>> /\ owed' = owedFirm /\ DPowerLoss
      /\ DiskInv
  BY DEF PowerLoss, WPowerLoss, TypeInv
<1>2. CASE \E d \in Images(dfile) : dfile' = [data |-> d, hard |-> d]
  <2>1. PICK d \in Images(dfile) : dfile' = [data |-> d, hard |-> d]
    BY <1>2
  <2>2. d \in Seq(Whole(Value)) /\ Leads(dfile.hard, d) /\ dfile.hard \in Seq(Whole(Value))
    BY <1>1, BufferPlace, ImageLeads DEF KeepsInv, Answered
  <2>3. dfile'.data = d /\ dfile'.hard = d
    BY <2>1
  <2>4. \A o : Secured(dfile.hard, o) => Secured(d, o)
    BY <2>2, SecuredFurther
  <2>5. QED
    BY <1>1, <1>2, <2>3, <2>4 DEF OwedKept
<1>3. CASE ~dnamed
  BY <1>1, <1>3 DEF OwedKept, Stored
<1>4. QED
  BY <1>1, <1>2, <1>3 DEF DPowerLoss

-----------------------------------------------------------------------------
(* What a step does to the store, and a call to the log                    *)

(* What a step does to the store, in every step but a power loss.          *)
LEMMA StoreMoves ==
  ASSUME TypeInv, KeepsInv, [Next]_vars, ~PowerLoss PROVE Onward
<1>1. DiskInv /\ EngineTypes
  BY DEF TypeInv
<1>2. CASE StartStore \/ StoreWorks \/ Kill
  BY <1>1, <1>2, StoreOnward DEF StartStore, StoreWorks, Kill
<1>3. CASE Logged \/ Retry
  BY <1>1, <1>3, StoreOnward DEF Logged, Retry, PersistBatch, dHistory
<1>4. CASE \/ UNCHANGED vars \/ StartLog \/ Started \/ Requeue \/ Persisted \/ Trimmed
           \/ DurableAnswered \/ FlushLog \/ LogWorks \/ Flush
           \/ \E w \in Plain \union Durable : Accept(w) \/ SubmitDurable(w)
  <2>1. UNCHANGED diskVars
    BY <1>4 DEF vars, StartLog, Started, Requeue, Persisted, Trimmed, DurableAnswered, FlushLog,
                LogWorks, Flush, Accept, SubmitDurable, LogBatch
  <2>2. UNCHANGED <<dfile, dnamed>>
    BY <2>1 DEF diskVars, dHistory
  <2>3. QED
    BY <1>1, <2>2, StoreOnward
<1>5. QED
  BY <1>2, <1>3, <1>4 DEF Next

(* Steps of the engine and of the store that leave the log alone.          *)
Aside ==
  \/ UNCHANGED vars \/ StartStore \/ Retry \/ StoreWorks
  \/ DurableAnswered \/ Logged \/ Requeue \/ Trimmed
  \/ \E w \in Plain \union Durable : Accept(w)

(* The steps that call the log.                                            *)
Calling ==
  \/ Flush \/ (\E w \in Plain \union Durable : SubmitDurable(w)) \/ Persisted \/ FlushLog

(* A step of the engine or the store beside the log leaves the log alone.  *)
LEMMA AsideLog == ASSUME Aside PROVE UNCHANGED walVars
  BY DEF Aside, vars, StartStore, Retry, StoreWorks, DurableAnswered, Logged, Requeue, Trimmed,
         Accept

(* What the log leaves alone with all its variables.                       *)
LEMMA WalVars ==
  ASSUME UNCHANGED walVars
  PROVE  UNCHANGED <<wpc, wans, upTo, acked, sure, floor, lastLsn>>
  BY DEF walVars, callVars, wHistory, acks, marks

(* What a call of the log changes of it.                                   *)
LEMMA CallsLog ==
  ASSUME TypeInv, Calling
  PROVE  /\ UNCHANGED <<acked, sure, floor>> /\ UNCHANGED diskVars /\ wpc = "ready"
         /\ owed' \subseteq owed /\ owedFirm' \subseteq owedFirm
         /\ ~Persisted => UNCHANGED <<owed, owedFirm>>
         /\ Persisted \/ wpc' \notin BeforeRename \union {"ckdir", "ckreopen"}
<1>1. CASE Flush \/ \E w \in Plain \union Durable : SubmitDurable(w)
  <2>1. PICK ws \in Seq(Value), call \in {"flush", "durable"} : LogBatch(ws, call)
    BY <1>1, LoggedWrites
  <2>2. QED
    BY <2>1 DEF LogBatch, AppendBatch, wHistory, acks, marks, WGoto, WAnswer, BeforeRename
<1>2. CASE Persisted
  BY <1>2 DEF Persisted, CheckpointCall, Outlasting, wHistory, acks, marks
<1>3. CASE FlushLog
  BY <1>3 DEF FlushLog, FlushCall, wHistory, acks, marks, WGoto, BeforeRename
<1>4. QED
  BY <1>1, <1>2, <1>3 DEF Calling

(* What the engine owes stays in the log or in the store.                  *)
LEMMA OwedStep ==
  ASSUME TypeInv, TypeInv', KeepsInv, EndInv, [Next]_vars PROVE OwedKept'
<1>1. WalInv /\ DiskInv /\ DiskInv' /\ OwedKept
  BY DEF TypeInv, EndInv
<1>2. CASE PowerLoss
  BY <1>2, OwedSurvives DEF EndInv
<1>3. CASE ~PowerLoss
  <2>1. Onward
    BY <1>3, StoreMoves
  <2>2. CASE (DurableAnswered \/ Logged) /\ Owing
    <3>1. UNCHANGED <<acked, sure, floor>> /\ step \in {"flush", "durable"}
      BY <2>2, AsideLog, WalVars DEF Aside, DurableAnswered, Logged
    <3>2. QED
      BY <2>1, <2>2, <3>1, OwedMore DEF EndInv
  <2>3. CASE Aside /\ ~Owing
    <3>1. UNCHANGED <<acked, sure, floor>>
      BY <2>3, AsideLog, WalVars
    <3>2. UNCHANGED <<owed, owedFirm>>
      BY <2>3 DEF Aside, vars, StartStore, Retry, StoreWorks, DurableAnswered, Logged, Requeue,
                  Trimmed, Accept, engineVars
    <3>3. QED
      BY <1>1, <2>1, <3>1, <3>2, OwedSame
  <2>4. CASE Aside /\ Owing /\ ~DurableAnswered /\ ~Logged
    <3>1. UNCHANGED <<acked, sure, floor>>
      BY <2>4, AsideLog, WalVars
    <3>2. UNCHANGED <<owed, owedFirm>>
      BY <2>4 DEF Aside, vars, StartStore, Retry, StoreWorks, Requeue, Trimmed, Accept, engineVars
    <3>3. QED
      BY <1>1, <2>1, <3>1, <3>2, OwedSame
  <2>5. CASE Calling
    BY <1>1, <2>1, <2>5, CallsLog, OwedSame
  <2>6. CASE Started
    BY <1>1, <2>1, <2>6, OwedRestarts
  <2>7. CASE StartLog \/ LogWorks
    <3>1. WStarting \/ WAppending \/ WCheckpointing
      BY <2>7 DEF StartLog, LogWorks
    <3>2. UNCHANGED <<owed, owedFirm>> /\ UNCHANGED diskVars
      BY <2>7 DEF StartLog, LogWorks, engineVars
    <3>3. CASE Rename
      <4>1. UNCHANGED dfile
        BY <3>2 DEF diskVars, dHistory
      <4>2. QED
        BY <2>1, <3>2, <3>3, <4>1, OwedTrimmed DEF EndInv
    <3>4. CASE ~Rename
      BY <1>1, <2>1, <3>1, <3>2, <3>4, HistoryMoves, OwedSame
    <3>5. QED
      BY <3>3, <3>4
  <2>8. CASE Kill
    <3>1. UNCHANGED <<acked, sure, floor, owed, owedFirm>>
      BY <2>8 DEF Kill, WKill, acks, marks
    <3>2. QED
      BY <1>1, <2>1, <3>1, OwedSame
  <2>9. QED
    BY <1>3, <2>2, <2>3, <2>4, <2>5, <2>6, <2>7, <2>8 DEF Next, Aside, Calling
<1>4. QED
  BY <1>2, <1>3

(* What a checkpoint up to n leaves owed the log has above n, or the store *)
(* on the stable storage it synced when it answered Ok (disk_kv_store.rs   *)
(* persist_batch).                                                         *)
LEMMA OutlastingStored ==
  ASSUME TypeInv, Stored, step = "persist", dpc = "ready", dans = "ok",
         NEW owing, owing \subseteq Versions, NEW recs, NEW n, NEW o \in Outlasting(owing, recs, n)
  PROVE  o \in owing /\ (InLog(recs, n, o) \/ Secured(dfile.hard, o))
<1>1. /\ o \in owing /\ o.id \in Ids /\ o.ver \in Nat
      /\ dfile.data \in Seq(Whole(Value)) /\ dfile.hard = dfile.data
  BY DEF Outlasting, Versions, TypeInv, DiskInv, DiskTypes, DiskFile, Stored
<1>2. CASE Replay(dfile.data)[o.id] >= o.ver
  <2>1. CASE Replay(dfile.data)[o.id] = 0
    BY <1>1, <1>2, <2>1 DEF Secured
  <2>2. CASE \E s \in Value : /\ s.id = o.id /\ s.ver = Replay(dfile.data)[o.id]
                              /\ Shown(dfile.data, s)
    BY <1>1, <1>2, <2>2 DEF Secured
  <2>3. QED
    BY <1>1, <2>1, <2>2, ReplayedShown
<1>3. CASE \E r \in recs : r.lsn > n /\ r.id = o.id /\ r.ver >= o.ver
  BY <1>1, <1>3 DEF InLog
<1>4. QED
  BY <1>2, <1>3 DEF Outlasting

(* A checkpoint leaves owed what it drops only if the store has it on      *)
(* stable storage (worker.rs flush_batch, api.rs flush_now).               *)
LEMMA DroppedStep ==
  ASSUME TypeInv, TypeInv', KeepsInv, EndInv, [Next]_vars PROVE DroppedStored'
<1>1. WalInv /\ DiskInv /\ DiskInv' /\ DroppedStored /\ OwedKept
  BY DEF TypeInv, EndInv
<1>2. CASE Kill \/ PowerLoss
  BY <1>2 DEF Kill, PowerLoss, WKill, WPowerLoss, WriterGone, DroppedStored, BeforeRename
<1>3. CASE ~PowerLoss /\ (wpc' \in BeforeRename =>
                            /\ wpc \in BeforeRename /\ UNCHANGED <<upTo, floor, owed, owedFirm>>
                            /\ acked \subseteq acked' /\ sure \subseteq sure')
  <2>1. Onward
    BY <1>3, StoreMoves
  <2>2. ASSUME wpc' \in BeforeRename
        PROVE  \A o : /\ InLog(acked, HigherOf(floor, upTo), o) =>
                            InLog(acked', HigherOf(floor', upTo'), o)
                      /\ InLog(sure, HigherOf(floor, upTo), o) =>
                            InLog(sure', HigherOf(floor', upTo'), o)
    BY <1>3, <2>2 DEF InLog
  <2>3. QED
    BY <1>1, <1>3, <2>1, <2>2, SecuredOnward DEF DroppedStored
<1>4. CASE Aside /\ ~PowerLoss
  <2>1. UNCHANGED <<wpc, upTo, floor, acked, sure>>
    BY <1>4, AsideLog, WalVars
  <2>2. wpc \in BeforeRename => UNCHANGED <<owed, owedFirm>>
    <3>1. wpc \in BeforeRename => step \notin {"flush", "durable"}
      BY DEF EndInv, Calls
    <3>2. DurableAnswered \/ Logged => step \in {"flush", "durable"}
      BY DEF DurableAnswered, Logged
    <3>3. ~DurableAnswered /\ ~Logged => UNCHANGED <<owed, owedFirm>>
      BY <1>4 DEF Aside, vars, StartStore, Retry, StoreWorks, Requeue, Trimmed, Accept, engineVars
    <3>4. QED
      BY <3>1, <3>2, <3>3
  <2>3. QED
    BY <1>3, <1>4, <2>1, <2>2
<1>5. CASE Calling /\ ~Persisted /\ ~PowerLoss
  BY <1>3, <1>5, CallsLog
<1>6. CASE Persisted
  <2>1. /\ step = "persist" /\ dpc = "ready" /\ dans = "ok" /\ UNCHANGED diskVars
        /\ owed \subseteq Versions /\ owedFirm \subseteq Versions
    BY <1>1, <1>6 DEF Persisted, OwedKept
  <2>2. PICK n \in 0..(nextLsn - 1) :
          /\ CheckpointCall(n)
          /\ owed' = Outlasting(owed, acked, HigherOf(floor, n))
          /\ owedFirm' = Outlasting(owedFirm, sure, HigherOf(floor, n))
    BY <1>6 DEF Persisted
  <2>3. upTo' = n /\ UNCHANGED <<floor, acked, sure>> /\ dfile' = dfile
    BY <2>1, <2>2 DEF CheckpointCall, wHistory, acks, marks, diskVars
  <2>4. Stored
    BY DEF EndInv
  <2>5. \A o \in owed' : InLog(acked, HigherOf(floor, n), o) \/ Secured(dfile.hard, o)
    BY <2>1, <2>2, <2>4, OutlastingStored
  <2>6. \A o \in owedFirm' : InLog(sure, HigherOf(floor, n), o) \/ Secured(dfile.hard, o)
    BY <2>1, <2>2, <2>4, OutlastingStored
  <2>7. QED
    BY <2>3, <2>5, <2>6 DEF DroppedStored
<1>7. CASE Started
  <2>1. wpc' = "ready"
    BY <1>1, <1>7 DEF Started, WalInv, Names
  <2>2. QED
    BY <2>1 DEF DroppedStored, BeforeRename
<1>8. CASE StartLog \/ LogWorks
  <2>1. WStarting \/ WAppending \/ WCheckpointing
    BY <1>8 DEF StartLog, LogWorks
  <2>2. CASE Rename
    BY <2>2 DEF Rename, WGoto, DroppedStored, BeforeRename
  <2>3. CASE ~Rename /\ ~PowerLoss
    <3>1. UNCHANGED <<owed, owedFirm>>
      BY <1>8 DEF StartLog, LogWorks, engineVars
    <3>2. QED
      BY <1>1, <1>3, <2>1, <2>3, <3>1, HistoryMoves
  <2>4. QED
    BY <1>2, <2>2, <2>3
<1>9. QED
  BY <1>2, <1>4, <1>5, <1>6, <1>7, <1>8 DEF Next, Aside, Calling

-----------------------------------------------------------------------------
(* The rest of the invariant                                               *)

(* What a call logs is above every watermark.                              *)
LEMMA CallsStep ==
  ASSUME TypeInv, TypeInv', Shape, Shape', Marks, EndInv, [Next]_vars PROVE Calls'
<1>1. /\ WalInv /\ Calls /\ floor \in Nat /\ upTo \in Nat /\ nextLsn \in Nat \ {0}
      /\ lastLsn \in Nat
  BY DEF TypeInv, EndInv, EngineTypes, WalInv, WalTypes
<1>2. CASE Kill \/ PowerLoss
  BY <1>2 DEF Kill, PowerLoss, EngineGone, Calls
<1>3. CASE Aside
  <2>1. UNCHANGED <<wpc, floor>>
    BY <1>3, AsideLog, WalVars
  <2>2. /\ nextLsn' = nextLsn /\ (step' = "starting") = (step = "starting")
        /\ step' \in {"flush", "durable"} => step' = step /\ batch' = batch
    BY <1>3 DEF Aside, vars, StartStore, Retry, StoreWorks, DurableAnswered, Logged, Requeue,
                Trimmed, Accept, engineVars
  <2>3. QED
    BY <1>1, <2>1, <2>2 DEF Calls
<1>4. CASE Flush \/ \E w \in Plain \union Durable : SubmitDurable(w)
  <2>1. PICK ws \in Seq(Value), call \in {"flush", "durable"} : step = "idle" /\ LogBatch(ws, call)
    BY <1>4, LoggedWrites
  <2>2. PICK recs \in Seq(LogRecords) :
          /\ recs = Stamped(ws) /\ \A k \in 1..Len(recs) : recs[k].lsn = nextLsn + k - 1
          /\ Len(recs) = Len(ws)
    BY <1>1, StampedLogs
  <2>3. batch' = recs /\ nextLsn' = nextLsn + Len(recs)
    BY <2>1, <2>2 DEF LogBatch
  <2>4. floor' = floor /\ wpc' \notin BeforeRename \union {"ckdir", "ckreopen"}
    <3>1. Calling /\ ~Persisted
      BY <1>4, <2>1 DEF Calling, Persisted
    <3>2. QED
      BY <3>1, CallsLog
  <2>5. floor < nextLsn
    BY <1>1, <2>1 DEF Calls
  <2>6. Len(recs) \in Nat
    OBVIOUS
  <2>7. \A k \in 1..Len(recs) : recs[k].lsn > floor
    BY <1>1, <2>2, <2>5, <2>6
  <2>8. floor < nextLsn + Len(recs)
    BY <1>1, <2>5, <2>6
  <2>9. QED
    BY <2>3, <2>4, <2>7, <2>8 DEF Calls
<1>5. CASE Persisted \/ FlushLog
  <2>1. floor' = floor
    BY <1>5, CallsLog DEF Calling
  <2>2. step \in {"persist", "idle"} /\ step' = "trim" /\ nextLsn' = nextLsn
    BY <1>5 DEF Persisted, FlushLog
  <2>3. QED
    BY <1>1, <2>1, <2>2 DEF Calls
<1>6. CASE Started
  <2>1. step' = "idle" /\ floor' = 0 /\ nextLsn' = lastLsn + 1
    BY <1>6 DEF Started, LsnsRestart
  <2>2. QED
    BY <1>1, <2>1 DEF Calls
<1>7. CASE StartLog
  BY <1>7 DEF StartLog, engineVars, Calls
<1>8. CASE LogWorks
  <2>1. WAppending \/ WCheckpointing
    BY <1>8 DEF LogWorks
  <2>2. UNCHANGED <<step, batch, nextLsn>>
    BY <1>8 DEF LogWorks, engineVars
  <2>3. step # "starting" => floor' < nextLsn
    <3>1. CASE Rename
      <4>1. floor' \in {floor, upTo}
        BY <1>1, <3>1, HigherIs DEF Rename
      <4>2. QED
        BY <1>1, <4>1 DEF Calls, Marks
    <3>2. CASE ~Rename
      BY <1>1, <2>1, <3>2, HistoryMoves DEF Calls
    <3>3. QED
      BY <3>1, <3>2
  <2>4. step \in {"flush", "durable"} =>
          /\ wpc' \notin BeforeRename \union {"ckdir", "ckreopen"}
          /\ floor' = floor
    <3>1. step \in {"flush", "durable"} => wpc \notin BeforeRename \union {"ckdir", "ckreopen"}
      BY <1>1 DEF Calls
    <3>2. Rename => wpc \in BeforeRename
      BY DEF Rename, BeforeRename
    <3>3. QED
      BY <1>1, <2>1, <3>1, <3>2, HistoryMoves
  <2>5. QED
    BY <1>1, <2>2, <2>3, <2>4 DEF Calls
<1>9. QED
  BY <1>2, <1>3, <1>4, <1>5, <1>6, <1>7, <1>8 DEF Next, Aside

(* The store answers for a batch when its file is synced.                  *)
LEMMA StoredStep ==
  ASSUME TypeInv, Stored, [Next]_vars PROVE Stored'
<1>1. EngineTypes /\ nextLsn \in Nat \ {0}
  BY DEF TypeInv, EngineTypes
<1>2. CASE Kill \/ PowerLoss
  <2>1. step' = "starting" /\ dpc' = "closed"
    BY <1>2 DEF Kill, PowerLoss, EngineGone, DKill, DPowerLoss, DClosed
  <2>2. ~dnamed' => ~dnamed /\ owedFirm' = owedFirm
    BY <1>2 DEF Kill, PowerLoss, DKill, DPowerLoss
  <2>3. QED
    BY <2>1, <2>2 DEF Stored
<1>3. CASE StartStore
  BY <1>3 DEF StartStore, DStarting, DOpen, DSyncCut, DGoto, engineVars, Stored
<1>4. CASE StoreWorks
  <2>1. UNCHANGED <<step, batch, owedFirm>> /\ DPersisting
    BY <1>4 DEF StoreWorks, engineVars
  <2>2. UNCHANGED <<dopen, dnamed>> /\ dpc # "closed"
    BY <2>1 DEF DPersisting, DCopy, DSpill, DWriteThrough, DFlushBuffer, Index, DBufferWriteFails,
                DWriteThroughFails, DSyncFails
  <2>3. dpc' = "ready" /\ dans' = "ok" => dfile'.hard = dfile'.data
    <3>1. CASE Index
      <4>1. dfile'.data = dfile.data /\ dfile'.hard = dfile.data
        BY <3>1, DSyncIs DEF Index, TypeInv, DiskInv
      <4>2. QED
        BY <4>1
    <3>2. CASE DCopy \/ DSpill \/ DWriteThrough \/ DFlushBuffer \/ DBufferWriteFails
               \/ DWriteThroughFails \/ DSyncFails
      BY <3>2 DEF DCopy, DSpill, DWriteThrough, DFlushBuffer, DBufferWriteFails,
                  DWriteThroughFails, DSyncFails, DGoto, DFails, DAnswer
    <3>3. QED
      BY <2>1, <3>1, <3>2 DEF DPersisting
  <2>4. QED
    BY <2>1, <2>2, <2>3 DEF Stored
<1>5. CASE Logged \/ Retry
  <2>1. batch # <<>> /\ batch' = batch /\ step' = "persist"
    BY <1>5 DEF Logged, Retry, Stored, engineVars
  <2>2. [k \in DOMAIN batch |-> State(batch[k])] # <<>>
    <3>1. batch \in Seq(LogRecords)
      BY <1>1 DEF EngineTypes
    <3>2. PICK n \in Nat : DOMAIN batch = 1..n /\ n = Len(batch) /\ n # 0
      BY <2>1, <3>1, EmptySeq
    <3>3. Len([k \in DOMAIN batch |-> State(batch[k])]) = n
      BY <3>2
    <3>4. QED
      BY <3>2, <3>3
  <2>3. /\ dpc' = "write" /\ dpc = "ready" /\ UNCHANGED <<dopen, dnamed>>
    BY <1>5, <2>2 DEF Logged, Retry, PersistBatch, DGoto
  <2>4. ~dnamed => owedFirm' = owedFirm
    BY <1>5 DEF Logged, Retry, Owing, engineVars
  <2>5. QED
    BY <2>1, <2>3, <2>4 DEF Stored
<1>6. CASE Flush \/ \E w \in Plain \union Durable : SubmitDurable(w)
  <2>1. PICK ws \in Seq(Value), call \in {"flush", "durable"} : LogBatch(ws, call) /\ ws # <<>>
    BY <1>6, LoggedWrites
  <2>2. Stamped(ws) \in Seq(LogRecords) /\ Len(Stamped(ws)) = Len(ws)
    BY <1>1, StampedLogs
  <2>3. Stamped(ws) # <<>>
    BY <2>1, <2>2, EmptySeq
  <2>4. batch' = Stamped(ws) /\ step' = call /\ UNCHANGED owedFirm /\ UNCHANGED diskVars
    BY <2>1 DEF LogBatch
  <2>5. UNCHANGED <<dfile, dpc, dans, dopen, dnamed>>
    BY <2>4 DEF diskVars
  <2>6. QED
    BY <2>3, <2>4, <2>5 DEF Stored
<1>7. CASE \/ UNCHANGED vars \/ StartLog \/ LogWorks
           \/ \E w \in Plain \union Durable : Accept(w)
  <2>1. UNCHANGED diskVars /\ UNCHANGED <<step, batch, owedFirm>>
    BY <1>7 DEF vars, StartLog, LogWorks, Accept, engineVars
  <2>2. UNCHANGED <<dfile, dpc, dans, dopen, dnamed>>
    BY <2>1 DEF diskVars
  <2>3. QED
    BY <2>1, <2>2 DEF Stored
<1>8. CASE Started \/ Requeue \/ Trimmed \/ DurableAnswered \/ FlushLog \/ Persisted
  <2>1. /\ UNCHANGED diskVars /\ step' \notin {"flush", "persist"}
        /\ ~dnamed => owedFirm' \subseteq owedFirm
    BY <1>8 DEF Started, Requeue, Persisted, Trimmed, DurableAnswered, FlushLog, Owing, Outlasting
  <2>2. UNCHANGED <<dfile, dpc, dans, dopen, dnamed>>
    BY <2>1 DEF diskVars
  <2>3. QED
    BY <2>1, <2>2 DEF Stored
<1>9. QED
  BY <1>2, <1>3, <1>4, <1>5, <1>6, <1>7, <1>8 DEF Next

(* A program that has not started owes nothing.                            *)
LEMMA EndInitially == ASSUME Init PROVE EndInv
  BY DEF Init, WInit, DInit, EndInv, OwedKept, DroppedStored, BeforeRename, Calls, Stored

-----------------------------------------------------------------------------
(* The promise, end to end                                                 *)

(* The theorems about the abstract log, of the records of the files.       *)
Proofs == INSTANCE JournalProofs WITH log <- OnDisk, firm <- Firm

(* What append_batch answered Ok for stays in the files until a checkpoint *)
(* reaches it, because they keep the promise of Journal (wal.rs            *)
(* append_batch, checkpoint).                                              *)
THEOREM AnsweredStaysKept == Spec => []Proofs!AnsweredKept
<1>1. Proofs!Spec => []Proofs!AnsweredKept
  BY Proofs!Promise, PTL
<1>2. Promise!Init => Proofs!Init
  BY DEF Promise!Init, Proofs!Init
<1>3. [Promise!Next]_(Promise!vars) => [Proofs!Next]_(Proofs!vars)
  BY DEF Promise!Next, Proofs!Next, Promise!vars, Proofs!vars, Promise!Write, Proofs!Write,
     Promise!Answer, Proofs!Answer, Promise!Trim, Proofs!Trim, Promise!PowerLoss, Proofs!PowerLoss,
     Promise!Restart, Proofs!Restart, Promise!Moves, Proofs!Moves, Promise!Above, Proofs!Above,
     Promise!Record, Proofs!Record
<1>4. QED
  BY FilesKeepJournal, <1>1, <1>2, <1>3, PTL DEF JournalKept, Promise!Spec, Proofs!Spec

(* What is secured on a file is what its replay finds.                     *)
LEMMA SecuredReplayed ==
  ASSUME NEW data \in Seq(Whole(Value)), NEW o \in Versions, Secured(data, o)
  PROVE  Replay(data)[o.id] >= o.ver
<1>1. Replay(data) \in [Ids -> Nat]
  BY ReplayIs
<1>2. o.id \in Ids /\ o.ver \in Nat /\ Replay(data)[o.id] \in Nat
  BY <1>1 DEF Versions
<1>3. CASE o.ver = 0
  BY <1>2, <1>3
<1>4. CASE o.ver # 0
  <2>1. PICK s \in Value : s.id = o.id /\ s.ver >= o.ver /\ Shown(data, s)
    BY <1>4 DEF Secured
  <2>2. s.ver \in Nat /\ s.ver <= Replay(data)[s.id]
    BY <2>1, ShownReplayed DEF Value
  <2>3. QED
    BY <1>2, <2>1, <2>2
<1>5. QED
  BY <1>3, <1>4

(* The parts together say that nothing owed is lost.                       *)
LEMMA EndGives == TypeInv /\ KeepsInv /\ EndInv /\ Proofs!AnsweredKept => KeptUntilPassed
<1> SUFFICES ASSUME TypeInv, KeepsInv, EndInv, Proofs!AnsweredKept PROVE KeptUntilPassed
  OBVIOUS
<1>1. DiskInv /\ OwedKept
  BY DEF TypeInv, EndInv
<1>2. /\ \A r \in acked : r.lsn > floor => r \in OnDisk
      /\ \A r \in sure : r.lsn > floor => r \in Firm
  BY DEF Proofs!AnsweredKept, Proofs!Above
<1>3. ASSUME NEW o \in owed PROVE Available(OnDisk, Replay(dfile.data), o)
  <2>1. o \in Versions
    BY <1>1 DEF OwedKept
  <2>2. CASE InLog(acked, floor, o)
    BY <1>2, <2>2 DEF InLog, Available
  <2>3. CASE Secured(dfile.data, o)
    BY <1>1, <2>1, <2>3, BufferPlace, SecuredReplayed DEF Available
  <2>4. QED
    BY <1>1, <2>2, <2>3 DEF OwedKept
<1>4. ASSUME NEW o \in owedFirm, NEW d \in Leftovers, NEW e \in Images(dfile)
      PROVE  Available(Recs(d), Replay(e), o)
  <2>1. o \in Versions
    BY <1>1 DEF OwedKept
  <2>2. CASE InLog(sure, floor, o)
    <3>1. \A r \in Firm : r \in Recs(d)
      BY DEF Firm
    <3>2. QED
      BY <1>2, <2>2, <3>1 DEF InLog, Available
  <2>3. CASE Secured(dfile.hard, o)
    <3>1. e \in Seq(Whole(Value)) /\ Leads(dfile.hard, e) /\ dfile.hard \in Seq(Whole(Value))
      BY <1>1, BufferPlace, ImageLeads DEF KeepsInv, Answered
    <3>2. Secured(e, o)
      BY <2>3, <3>1, SecuredFurther
    <3>3. QED
      BY <2>1, <3>1, <3>2, SecuredReplayed DEF Available
  <2>4. QED
    BY <1>1, <2>2, <2>3 DEF OwedKept
<1>5. QED
  BY <1>3, <1>4 DEF KeptUntilPassed

(* What the invariant of KeptUntilPassed rests on, all of it inductive.    *)
OwingInv == RisingInv /\ Marks /\ KeepsInv /\ EndInv

(* Every step keeps it.                                                    *)
LEMMA OwingInvStep == OwingInv /\ [Next]_vars => OwingInv'
<1> SUFFICES ASSUME OwingInv, [Next]_vars PROVE OwingInv'
  OBVIOUS
<1>1. TypeInv /\ Shape /\ Ordered /\ Numbered /\ Marks /\ KeepsInv /\ EndInv
  BY DEF OwingInv, RisingInv
<1>2. TypeInv' /\ Shape' /\ Ordered' /\ Numbered' /\ Marks' /\ KeepsInv'
  BY <1>1, TypeStep, ShapeStep, OrderedStep, NumberedStep, MarksStep, KeepsStep
<1>3. OwedKept' /\ DroppedStored'
  BY <1>1, <1>2, OwedStep, DroppedStep
<1>4. Calls' /\ Stored'
  BY <1>1, <1>2, CallsStep, StoredStep DEF EndInv
<1>5. QED
  BY <1>2, <1>3, <1>4 DEF OwingInv, RisingInv, EndInv

(* End to end: a version append_batch answered Ok for on a sound segment   *)
(* is, after a kill at any moment, in the log to replay or in what the     *)
(* store rebuilds, and so after any power loss if both names were on       *)
(* stable storage, until a checkpoint is asked to pass it while the        *)
(* store's file does not have it: the contract of checkpoint (domain.rs),  *)
(* which module Pipeline shows the engine to break (worker.rs flush_batch, *)
(* api.rs submit_durable, wal.rs, disk_kv_store.rs).                       *)
THEOREM OwedKeptUntilPassed == Spec => []KeptUntilPassed
<1>1. Init => OwingInv
  BY PromiseInvInitially, CheckpointInitially, KeepsInitially, EndInitially
     DEF Init, OwingInv, PromiseInv
<1>2. OwingInv => TypeInv /\ KeepsInv /\ EndInv
  BY DEF OwingInv, RisingInv
<1>3. QED
  BY <1>1, <1>2, OwingInvStep, AnsweredStaysKept, EndGives, PTL DEF Spec
=============================================================================
