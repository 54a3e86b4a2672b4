------------------------------- MODULE Files -------------------------------
(***************************************************************************)
(* What the two log files of the system (src/src/wal.rs and                *)
(* src/examples/disk_kv_store.rs) use of the operating system and of       *)
(* std::io::BufWriter.                                                     *)
(*                                                                         *)
(* A file is a sequence of pieces [rec, len, from, to]: cells from+1..to   *)
(* of the len cells that encode rec.  An inode keeps its page cache (data) *)
(* and what is on stable storage (hard).  A write that stops early, with   *)
(* an error or because the process dies, may stop between two frames or    *)
(* inside one, some number in Cuts of cells before its end.  Stable        *)
(* storage that reorders or damages sectors, and a failed sync that also   *)
(* drops the page cache, are left out.                                     *)
(***************************************************************************)
EXTENDS Integers, FiniteSets, SequencesExt

CONSTANTS
  BufCapacity,  \* cells a BufWriter holds
  Cuts,         \* how many cells before its end a frame may be cut
  Budget        \* bounds: [append, io, crash] occurrences

VARIABLE left   \* what is left of Budget

Spend(what) == left[what] > 0 /\ left' = [left EXCEPT ![what] = @ - 1]

Empty  == [data |-> <<>>, hard |-> <<>>]

WholePiece(r, n) == [rec |-> r, len |-> n, from |-> 0, to |-> n]
IsWhole(p)       == p.from = 0 /\ p.to = p.len
CellsIn(ps)      ==
  LET upto[k \in 0..Len(ps)] == IF k = 0 THEN 0 ELSE upto[k - 1] + ps[k].to - ps[k].from
  IN  upto[Len(ps)]

(* Writing ps at the end of data; the rest of a frame joins its beginning. *)
Extended(data, ps) ==
  IF ps # <<>> /\ Head(ps).from > 0
  THEN Front(data) \o <<[Head(ps) EXCEPT !.from = Last(data).from]>> \o Tail(ps)
  ELSE data \o ps

(* The ways a write of ps can stop: what reached the file, what did not.   *)
Splits(ps) ==
  {[done |-> SubSeq(ps, 1, k), rest |-> SubSeq(ps, k + 1, Len(ps))] :
     k \in 0..Len(ps)}
  \union
  UNION {{[done |-> Append(SubSeq(ps, 1, k - 1), [ps[k] EXCEPT !.to = c]),
           rest |-> <<[ps[k] EXCEPT !.from = c]>> \o SubSeq(ps, k + 1, Len(ps))] :
             c \in {ps[k].to - d : d \in Cuts} \intersect (ps[k].from + 1)..(ps[k].to - 1)} :
         k \in 1..Len(ps)}
Stopped(ps) == {s \in Splits(ps) : s.rest # <<>>}

CellPrefix(a, b) ==
  a = <<>> \/ LET n == Len(a)
              IN  /\ n <= Len(b)
                  /\ SubSeq(b, 1, n - 1) = Front(a)
                  /\ b[n].rec = a[n].rec /\ a[n].to <= b[n].to

(* What a power loss may leave of an inode: what was synced, or that and   *)
(* some of what was written after it.                                      *)
Images(f) ==
  IF f.hard = f.data THEN {f.data}
  ELSE {f.hard, f.data} \union
       {d \in {s.done : s \in Splits(f.data)} : CellPrefix(f.hard, d)}

(* BufWriter::write_all of n cells: copied if they fit and are fewer than  *)
(* the capacity; otherwise the buffer is written out first, and a frame of *)
(* the capacity or more bypasses it.                                       *)
FitsIn(buf, n) == CellsIn(buf) + n <= BufCapacity /\ n < BufCapacity
Spills(buf, n) == ~FitsIn(buf, n) /\ buf # <<>>
Bypasses(buf, n) == buf = <<>> /\ n >= BufCapacity
=============================================================================
