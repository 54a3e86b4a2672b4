--------------------------- MODULE StorageTyping ----------------------------
(***************************************************************************)
(* Type correctness of the log, the disk store and the engine between them *)
(* (Storage), across failed writes, kills and power losses.                *)
(*                                                                         *)
(* The types are not inductive by themselves. That a file stays a sequence *)
(* of records, each from its first byte on, needs to know that the         *)
(* BufWriter goes on exactly where the file ends (WBuffered, DBuffered):   *)
(* the rest of a record is written only after its beginning. And that a    *)
(* write reaches the file it is meant for needs to know which of the files *)
(* the writer has open, and which the directory names (Names).             *)
(*                                                                         *)
(* The first sections say what the operators of Files, Wal, DiskKv and     *)
(* Storage return, the lemmas that all proofs about Storage rest on.       *)
(* CellsIn, Good, Recs and the like are folds and cardinalities that the   *)
(* provers cannot unfold over a sequence of any length. The lemmas say of  *)
(* each, for every file and every buffer, what the proofs need: where the  *)
(* pieces of a written file come from, that a spill makes room in the      *)
(* buffer, that what is readable is a prefix, in which order records       *)
(* survive a checkpoint. Sums and prefixes are found with the least        *)
(* element of a set of naturals instead of induction.                      *)
(***************************************************************************)
EXTENDS Storage, TLAPS, WellFoundedInduction, FiniteSetTheorems, SequenceTheorems

-----------------------------------------------------------------------------
(* Pieces of records: what a write leaves in a file                        *)

(* Pieces of the records R: a range of cells of one record's bytes.        *)
Pieces(R) ==
  {p \in [rec : R, len : Nat, from : Nat, to : Nat] : p.from < p.to /\ p.to <= p.len}

(* Pieces that begin their record, as every piece of a file does.          *)
Whole(R)    == {p \in Pieces(R) : p.from = 0}

(* What a BufWriter holds goes on where the file ends: only its first      *)
(* piece may be the rest of a record, and then the file ends with the      *)
(* beginning of that record.                                               *)
Joins(data, ps) ==
  /\ \A k \in 2..Len(ps) : ps[k].from = 0
  /\ ps # <<>> /\ ps[1].from > 0 =>
       data # <<>> /\ data[Len(data)].rec = ps[1].rec
                   /\ data[Len(data)].to = ps[1].from

(* The order of the naturals, as the induction theorems take it.           *)
LEMMA LessThan == \A x, y \in Nat : x < y => <<x, y>> \in OpToRel(<, Nat)
  BY DEF OpToRel

(* A sequence whose elements are all in S is a sequence of S.              *)
LEMMA SeqIntro ==
  ASSUME NEW S, NEW T, NEW s \in Seq(T), \A k \in 1..Len(s) : s[k] \in S
  PROVE  s \in Seq(S)
<1>1. Len(s) \in Nat /\ s \in [1..Len(s) -> T]
  BY LenProperties
<1>2. s \in [1..Len(s) -> S]
  BY <1>1
<1>3. QED
  BY <1>1, <1>2, SeqDef

(* A piece with its beginning put back begins its record.                  *)
LEMMA Zeroed ==
  ASSUME NEW R, NEW p \in Pieces(R)
  PROVE  /\ [p EXCEPT !.from = 0] \in Whole(R)
         /\ p.from = 0 => [p EXCEPT !.from = 0] = p
<1> DEFINE q == [p EXCEPT !.from = 0]
<1>1. p \in [rec : R, len : Nat, from : Nat, to : Nat] /\ p.from < p.to /\ p.to <= p.len
  BY DEF Pieces
<1>2. q \in [rec : R, len : Nat, from : Nat, to : Nat]
  BY <1>1
<1>3. q.from = 0 /\ q.to = p.to /\ q.len = p.len
  BY <1>1
<1>4. q.from < q.to /\ q.to <= q.len
  BY <1>1, <1>3
<1>5. p.from = 0 => q = p
  BY <1>1
<1>6. QED
  BY <1>2, <1>3, <1>4, <1>5 DEF Pieces, Whole

(* Every non-empty set of naturals has a least element.                    *)
LEMMA Least ==
  ASSUME NEW S, S \in SUBSET Nat, S # {}
  PROVE  \E m \in S : \A n \in S : m <= n
<1>1. PICK m \in S : \A n \in S : <<n, m>> \notin OpToRel(<, Nat)
  BY NatLessThanWellFounded, WFMin, Zenon
<1>2. \A n \in S : ~(n < m)
  BY <1>1, LessThan, Zenon
<1>3. QED
  BY <1>2

(* The last element of a non-empty sequence, and what comes before it.     *)
LEMMA Ends ==
  ASSUME NEW S, NEW s \in Seq(S), s # <<>>
  PROVE  /\ Len(s) \in Nat \ {0}
         /\ Last(s) = s[Len(s)] /\ Last(s) \in S
         /\ Front(s) \in Seq(S) /\ Len(Front(s)) = Len(s) - 1
         /\ \A k \in 1..(Len(s) - 1) : Front(s)[k] = s[k]
<1>1. Len(s) \in Nat \ {0}
  BY EmptySeq
<1>2. PICK n \in Nat \ {0} : n = Len(s)
  BY <1>1
<1>3. \A k \in 1..n : s[k] \in S
  BY <1>2
<1>4. /\ SubSeq(s, 1, n - 1) \in Seq(S)
      /\ Len(SubSeq(s, 1, n - 1)) = n - 1
      /\ \A k \in 1..(n - 1) : SubSeq(s, 1, n - 1)[k] = s[k]
  BY <1>2, <1>3, SubSeqProperties
<1>5. QED
  BY <1>1, <1>2, <1>3, <1>4 DEF Last, Front

(* How many pieces of the file Extended leaves untouched.                  *)
Off(data, ps) ==
  IF ps # <<>> /\ ps[1].from > 0 THEN Len(data) - 1 ELSE Len(data)

(* A write that goes on where the file ends keeps the file's pieces,       *)
(* merges the rest of a record with its beginning and adds the others.     *)
LEMMA ExtendedIs ==
  ASSUME NEW R, NEW data \in Seq(Whole(R)), NEW ps \in Seq(Pieces(R)),
         Joins(data, ps)
  PROVE  /\ Off(data, ps) \in 0..Len(data)
         /\ Extended(data, ps) \in Seq(Whole(R))
         /\ Len(Extended(data, ps)) = Off(data, ps) + Len(ps)
         /\ \A j \in 1..Off(data, ps) : Extended(data, ps)[j] = data[j]
         /\ \A k \in 1..Len(ps) :
              Extended(data, ps)[Off(data, ps) + k] = [ps[k] EXCEPT !.from = 0]
<1> DEFINE e == Extended(data, ps)
<1>1. Len(data) \in Nat /\ Len(ps) \in Nat
  OBVIOUS
<1>2. PICK n \in Nat, m \in Nat : n = Len(data) /\ m = Len(ps)
  BY <1>1
<1>3. /\ \A k \in 1..m : ps[k] \in Pieces(R)
      /\ \A k \in 1..n : data[k] \in Whole(R)
  BY <1>2
<1>4. \A p \in Pieces(R) : [p EXCEPT !.from = 0] \in Whole(R)
  BY Zeroed
<1>5. \A p \in Pieces(R) : p.from = 0 => [p EXCEPT !.from = 0] = p
  BY Zeroed
<1>6. CASE ps # <<>> /\ ps[1].from > 0
  <2>1. n > 0 /\ m > 0 /\ data # <<>>
    BY <1>2, <1>6, EmptySeq DEF Joins
  <2>2. PICK h : h = [Head(ps) EXCEPT !.from = Last(data).from]
    OBVIOUS
  <2>3. h = [ps[1] EXCEPT !.from = 0] /\ h \in Whole(R)
    <3>1. Head(ps) = ps[1] /\ Last(data) = data[n]
      BY <1>2 DEF Last
    <3>2. data[n].from = 0
      BY <1>3, <2>1 DEF Whole
    <3>3. h = [ps[1] EXCEPT !.from = 0]
      BY <2>2, <3>1, <3>2
    <3>4. QED
      BY <1>3, <1>4, <2>1, <3>3
  <2>4. e = (Front(data) \o <<h>>) \o Tail(ps)
    BY <1>6, <2>2, <2>1 DEF Extended
  <2>5. PICK f \in Seq(Whole(R)) : f = Front(data) /\ Len(f) = n - 1
                     /\ \A k \in 1..(n - 1) : f[k] = data[k]
    BY <1>2, <2>1, Ends
  <2>6. PICK g \in Seq(Whole(R)) : g = Append(f, h) /\ g = f \o <<h>>
    BY <2>3, <2>5, AppendIsConcat, AppendProperties
  <2>7. Len(g) = n /\ g[n] = h /\ \A k \in 1..(n - 1) : g[k] = data[k]
    BY <2>3, <2>5, <2>6, <2>1, AppendProperties
  <2>8. \A k \in 2..m : ps[k] = [ps[k] EXCEPT !.from = 0] /\ ps[k] \in Whole(R)
    BY <1>2, <1>3, <1>4, <1>5 DEF Joins
  <2>9. PICK t : t = Tail(ps)
    OBVIOUS
  <2>10. Len(t) = m - 1 /\ \A k \in 1..(m - 1) : t[k] = ps[k + 1]
    BY <1>2, <1>6, <2>9, HeadTailProperties
  <2>11. t \in Seq(Whole(R))
    <3>1. t \in Seq(Pieces(R))
      BY <1>6, <2>9, HeadTailProperties
    <3>2. \A k \in 1..Len(t) : k + 1 \in 2..m /\ t[k] = ps[k + 1]
      BY <2>1, <2>10
    <3>4. \A k \in 1..Len(t) : t[k] \in Whole(R)
      BY <2>8, <3>2
    <3>3. QED
      BY <3>1, <3>4, SeqIntro
  <2>12. /\ e \in Seq(Whole(R)) /\ Len(e) = n + (m - 1)
         /\ \A k \in 1..n : e[k] = g[k]
         /\ \A k \in 1..(m - 1) : e[n + k] = t[k]
    <3>1. e = g \o t
      BY <2>4, <2>5, <2>6, <2>9
    <3>2. t \in Seq(Whole(R)) /\ Len(t) = m - 1 /\ m - 1 \in Nat
      BY <2>1, <2>10, <2>11
    <3>7. /\ g \o t \in Seq(Whole(R)) /\ Len(g \o t) = Len(g) + Len(t)
          /\ \A i \in 1..(Len(g) + Len(t)) :
                (g \o t)[i] = IF i <= Len(g) THEN g[i] ELSE t[i - Len(g)]
      <4>1. g \in Seq(Whole(R)) /\ t \in Seq(Whole(R))
        BY <2>6, <3>2
      <4>2. QED
        BY <4>1, ConcatProperties
    <3> HIDE DEF e
    <3>3. /\ e \in Seq(Whole(R)) /\ Len(e) = Len(g) + Len(t)
          /\ \A i \in 1..(Len(g) + Len(t)) :
                e[i] = IF i <= Len(g) THEN g[i] ELSE t[i - Len(g)]
      BY <3>1, <3>7
    <3>4. \A k \in 1..n : e[k] = g[k]
      BY <2>1, <2>7, <3>2, <3>3
    <3>5. ASSUME NEW k \in 1..(m - 1) PROVE e[n + k] = t[k]
      <4>1. n + k \in 1..(Len(g) + Len(t)) /\ ~(n + k <= Len(g)) /\ n + k - Len(g) = k
        BY <2>1, <2>7, <3>2
      <4>2. QED
        BY <3>3, <4>1
    <3>6. QED
      BY <2>7, <3>2, <3>3, <3>4, <3>5
  <2>13. \A k \in 1..m : e[(n - 1) + k] = [ps[k] EXCEPT !.from = 0]
    <3> HIDE DEF e
    <3>1. ASSUME NEW k \in 2..m PROVE e[(n - 1) + k] = ps[k]
      <4>1. k - 1 \in 1..(m - 1) /\ n + (k - 1) = (n - 1) + k /\ (k - 1) + 1 = k
        BY <2>1
      <4>2. e[n + (k - 1)] = t[k - 1] /\ t[k - 1] = ps[(k - 1) + 1]
        BY <2>10, <2>12, <4>1
      <4>3. QED
        BY <4>1, <4>2
    <3>2. e[(n - 1) + 1] = [ps[1] EXCEPT !.from = 0]
      <4>1. (n - 1) + 1 = n /\ n \in 1..n
        BY <2>1
      <4>2. QED
        BY <2>3, <2>7, <2>12, <4>1
    <3>3. \A k \in 1..m : k = 1 \/ k \in 2..m
      OBVIOUS
    <3>4. QED
      BY <2>8, <3>1, <3>2, <3>3
  <2>14. Off(data, ps) = n - 1
    BY <1>2, <1>6 DEF Off
  <2>15. QED
    BY <1>2, <2>1, <2>7, <2>12, <2>13, <2>14
<1>7. CASE ~(ps # <<>> /\ ps[1].from > 0)
  <2>1. e = data \o ps
    <3>1. ps # <<>> => Head(ps) = ps[1]
      OBVIOUS
    <3>2. QED
      BY <1>7, <3>1 DEF Extended
  <2>2. \A k \in 1..m : ps[k] = [ps[k] EXCEPT !.from = 0] /\ ps[k] \in Whole(R)
    <3>1. \A k \in 1..m : ps[k].from = 0
      <4>1. m > 0 => ps[1].from = 0
        <5>1. m > 0 => ps # <<>> /\ ps[1].from \in Nat
          BY <1>2, <1>3, EmptySeq DEF Pieces
        <5>2. QED
          BY <1>7, <5>1
      <4>2. QED
        BY <1>2, <4>1 DEF Joins
    <3>2. QED
      BY <1>3, <1>4, <1>5, <3>1
  <2>3. ps \in Seq(Whole(R))
    <3>1. \A k \in 1..Len(ps) : ps[k] \in Whole(R)
      BY <1>2, <1>3, <1>4, <2>2
    <3>2. QED
      BY <3>1, SeqIntro
  <2>4. /\ e \in Seq(Whole(R)) /\ Len(e) = n + m
        /\ \A k \in 1..n : e[k] = data[k]
        /\ \A k \in 1..m : e[n + k] = ps[k]
    BY <1>2, <2>1, <2>3, ConcatProperties
  <2>5. Off(data, ps) = n
    BY <1>2, <1>7 DEF Off
  <2>6. QED
    BY <1>2, <2>2, <2>4, <2>5
<1>8. QED
  BY <1>6, <1>7

(* The two parts a write that stops half-way splits ps into: the first n   *)
(* pieces, of which the first m are untouched, and the rest.               *)
SplitAt(ps, s, n, m) ==
  /\ Len(s.done) = n /\ Len(s.rest) = Len(ps) - m
  /\ \A k \in 1..n : /\ s.done[k].rec = ps[k].rec /\ s.done[k].len = ps[k].len
                     /\ s.done[k].from = ps[k].from
                     /\ s.done[k].to <= ps[k].to
                     /\ k <= m => s.done[k] = ps[k]
  /\ \A k \in 1..(Len(ps) - m) :
       /\ s.rest[k].rec = ps[m + k].rec /\ s.rest[k].len = ps[m + k].len
       /\ s.rest[k].to = ps[m + k].to
       /\ ps[m + k].from <= s.rest[k].from
       /\ k > 1 => s.rest[k] = ps[m + k]
  /\ \/ m = n /\ (m < Len(ps) => s.rest[1] = ps[m + 1])
     \/ n = m + 1 /\ s.done[n].to = s.rest[1].from /\ s.rest[1].from > 0

(* The fields of a piece.                                                  *)
LEMMA PieceIs ==
  \A R : \A p \in Pieces(R) :
    /\ p.rec \in R /\ p.len \in Nat /\ p.from \in Nat /\ p.to \in Nat
    /\ p.from < p.to /\ p.to <= p.len
    /\ p.from <= p.from /\ p.to <= p.to
  BY DEF Pieces

(* Wherever the write stops, both parts are pieces of the same records,    *)
(* and the second goes on where the first stops.                           *)
LEMMA SplitIs ==
  ASSUME NEW R, NEW ps \in Seq(Pieces(R)), NEW s \in Splits(ps), Cuts \subseteq Nat
  PROVE  /\ s.done \in Seq(Pieces(R)) /\ s.rest \in Seq(Pieces(R))
         /\ \E n, m \in 0..Len(ps) : SplitAt(ps, s, n, m)
<1>1. PICK l \in Nat : l = Len(ps)
  OBVIOUS
<1>2. \A k \in 1..l : ps[k] \in Pieces(R)
  BY <1>1
<1>3. ASSUME NEW n \in 0..l,
             s = [done |-> SubSeq(ps, 1, n), rest |-> SubSeq(ps, n + 1, Len(ps))]
      PROVE  /\ s.done \in Seq(Pieces(R)) /\ s.rest \in Seq(Pieces(R))
             /\ SplitAt(ps, s, n, n)
  <2>1. /\ s.done \in Seq(Pieces(R)) /\ Len(s.done) = n
        /\ \A k \in 1..n : s.done[k] = ps[k]
    BY <1>2, <1>3, SubSeqProperties
  <2>2. /\ s.rest \in Seq(Pieces(R)) /\ Len(s.rest) = l - n
        /\ \A k \in 1..(l - n) : s.rest[k] = ps[n + k]
    <3>1. \A k \in (n + 1)..l : ps[k] \in Pieces(R)
      BY <1>2
    <3>2. n + 1 \in Int /\ l \in Int /\ s.rest = SubSeq(ps, n + 1, l)
      BY <1>1, <1>3
    <3>3. /\ SubSeq(ps, n + 1, l) \in Seq(Pieces(R))
          /\ Len(SubSeq(ps, n + 1, l)) = IF n + 1 <= l THEN l - (n + 1) + 1 ELSE 0
          /\ \A k \in 1..(l - (n + 1) + 1) :
               SubSeq(ps, n + 1, l)[k] = ps[(n + 1) + k - 1]
      BY <3>1, <3>2, SubSeqProperties
    <3>4. \A k \in 1..(l - n) : /\ k \in 1..(l - (n + 1) + 1)
                                /\ (n + 1) + k - 1 = n + k
      OBVIOUS
    <3>5. QED
      BY <3>2, <3>3, <3>4
  <2>3. \A k \in 1..l : ps[k].from <= ps[k].from /\ ps[k].to <= ps[k].to
    BY <1>2, PieceIs
  <2>4. \A k \in 1..(l - n) : n + k \in 1..l
    OBVIOUS
  <2>5. QED
    BY <1>1, <2>1, <2>2, <2>3, <2>4, SMTT(30) DEF SplitAt
<1>4. ASSUME NEW n \in 1..l, NEW c \in (ps[n].from + 1)..(ps[n].to - 1),
             s = [done |-> Append(SubSeq(ps, 1, n - 1), [ps[n] EXCEPT !.to = c]),
                  rest |-> <<[ps[n] EXCEPT !.from = c]>> \o SubSeq(ps, n + 1, Len(ps))]
      PROVE  /\ s.done \in Seq(Pieces(R)) /\ s.rest \in Seq(Pieces(R))
             /\ SplitAt(ps, s, n, n - 1)
  <2> DEFINE a == [ps[n] EXCEPT !.to = c]
             b == [ps[n] EXCEPT !.from = c]
  <2>1. /\ ps[n] \in [rec : R, len : Nat, from : Nat, to : Nat]
        /\ ps[n].from < ps[n].to /\ ps[n].to <= ps[n].len
    BY <1>2 DEF Pieces
  <2>2. c \in Nat /\ c > 0 /\ ps[n].from < c /\ c < ps[n].to
    BY <2>1
  <2>3. /\ a.rec = ps[n].rec /\ a.len = ps[n].len /\ a.from = ps[n].from /\ a.to = c
        /\ b.rec = ps[n].rec /\ b.len = ps[n].len /\ b.from = c /\ b.to = ps[n].to
        /\ a \in [rec : R, len : Nat, from : Nat, to : Nat]
        /\ b \in [rec : R, len : Nat, from : Nat, to : Nat]
    BY <2>1, <2>2
  <2> HIDE DEF a, b
  <2>4. a \in Pieces(R) /\ b \in Pieces(R)
    <3>1. a.from < a.to /\ a.to <= a.len /\ b.from < b.to /\ b.to <= b.len
      BY <2>1, <2>2, <2>3
    <3>2. QED
      BY <2>3, <3>1 DEF Pieces
  <2>5. PICK d \in Seq(Pieces(R)) :
          /\ d = SubSeq(ps, 1, n - 1) /\ Len(d) = n - 1
          /\ \A k \in 1..(n - 1) : d[k] = ps[k]
    <3>1. \A k \in 1..(n - 1) : ps[k] \in Pieces(R)
      BY <1>2
    <3>2. /\ SubSeq(ps, 1, n - 1) \in Seq(Pieces(R))
          /\ Len(SubSeq(ps, 1, n - 1)) = IF 1 <= n - 1 THEN n - 1 - 1 + 1 ELSE 0
          /\ \A k \in 1..(n - 1 - 1 + 1) : SubSeq(ps, 1, n - 1)[k] = ps[1 + k - 1]
      BY <3>1, SubSeqProperties
    <3>3. \A k \in 1..(n - 1) : k \in 1..(n - 1 - 1 + 1) /\ 1 + k - 1 = k
      OBVIOUS
    <3>5. Len(SubSeq(ps, 1, n - 1)) = n - 1
      BY <3>2
    <3>6. \A k \in 1..(n - 1) : SubSeq(ps, 1, n - 1)[k] = ps[k]
      BY <3>2, <3>3
    <3>4. QED
      BY <3>2, <3>5, <3>6, Zenon
  <2>6. s.done = Append(d, a)
    BY <1>4, <2>5 DEF a
  <2>7. /\ s.done \in Seq(Pieces(R)) /\ Len(s.done) = n /\ s.done[n] = a
        /\ \A k \in 1..(n - 1) : s.done[k] = ps[k]
    BY <2>4, <2>5, <2>6, AppendProperties
  <2>8. PICK t : t = SubSeq(ps, n + 1, l)
    OBVIOUS
  <2>9. /\ t \in Seq(Pieces(R)) /\ Len(t) = l - n
        /\ \A k \in 1..(l - n) : t[k] = ps[n + k]
    <3>1. \A k \in (n + 1)..l : ps[k] \in Pieces(R)
      BY <1>2
    <3>2. /\ SubSeq(ps, n + 1, l) \in Seq(Pieces(R))
          /\ Len(SubSeq(ps, n + 1, l)) = IF n + 1 <= l THEN l - (n + 1) + 1 ELSE 0
          /\ \A k \in 1..(l - (n + 1) + 1) :
               SubSeq(ps, n + 1, l)[k] = ps[(n + 1) + k - 1]
      BY <3>1, SubSeqProperties
    <3>3. \A k \in 1..(l - n) : /\ k \in 1..(l - (n + 1) + 1)
                                /\ (n + 1) + k - 1 = n + k
      OBVIOUS
    <3>4. QED
      BY <2>8, <3>2, <3>3
  <2>10. PICK h : h = <<b>>
    OBVIOUS
  <2>11. h \in Seq(Pieces(R)) /\ Len(h) = 1 /\ h[1] = b
    <3>1. h = Append(<<>>, b) /\ <<>> \in Seq(Pieces(R)) /\ Len(<<>>) = 0
      BY <2>10, EmptySeq
    <3>2. QED
      BY <2>4, <3>1, AppendProperties
  <2>12. s.rest = h \o t
    BY <1>1, <1>4, <2>8, <2>10 DEF b
  <2>13. /\ s.rest \in Seq(Pieces(R)) /\ Len(s.rest) = 1 + (l - n)
         /\ \A k \in 1..(1 + (l - n)) : s.rest[k] = IF k <= 1 THEN h[k] ELSE t[k - 1]
    <3>1. /\ h \o t \in Seq(Pieces(R)) /\ Len(h \o t) = Len(h) + Len(t)
          /\ \A k \in 1..(Len(h) + Len(t)) :
                (h \o t)[k] = IF k <= Len(h) THEN h[k] ELSE t[k - Len(h)]
      <4>1. h \in Seq(Pieces(R)) /\ t \in Seq(Pieces(R))
        BY <2>9, <2>11
      <4>2. QED
        BY <4>1, ConcatProperties
    <3>2. QED
      BY <2>9, <2>11, <2>12, <3>1
  <2>14. s.rest[1] = b /\ \A k \in 2..(l - n + 1) : s.rest[k] = ps[(n - 1) + k]
    <3>1. ASSUME NEW k \in 2..(l - n + 1)
          PROVE  s.rest[k] = ps[(n - 1) + k]
      <4>1. /\ k - 1 \in 1..(l - n) /\ n + (k - 1) = (n - 1) + k
            /\ k \in 1..(1 + (l - n)) /\ ~(k <= 1)
        OBVIOUS
      <4>2. s.rest[k] = t[k - 1] /\ t[k - 1] = ps[n + (k - 1)]
        BY <2>9, <2>13, <4>1
      <4>3. QED
        BY <4>1, <4>2
    <3>2. 1 \in 1..(1 + (l - n)) /\ 1 <= 1
      OBVIOUS
    <3>3. s.rest[1] = b
      BY <2>11, <2>13, <3>2
    <3>4. QED
      BY <3>1, <3>3
  <2>15. \A k \in 1..n : /\ s.done[k].rec = ps[k].rec /\ s.done[k].len = ps[k].len
                         /\ s.done[k].from = ps[k].from
                         /\ s.done[k].to <= ps[k].to
                         /\ k <= n - 1 => s.done[k] = ps[k]
    <3>1. \A k \in 1..n : k = n \/ k \in 1..(n - 1)
      OBVIOUS
    <3>2. \A k \in 1..n : ps[k].to <= ps[k].to
      BY <1>2, PieceIs
    <3>3. s.done[n].to <= ps[n].to
      BY <2>1, <2>2, <2>3, <2>7
    <3>4. \A k \in 1..(n - 1) : s.done[k] = ps[k] /\ k \in 1..n
      BY <2>7
    <3>5. /\ s.done[n].rec = ps[n].rec /\ s.done[n].len = ps[n].len
          /\ s.done[n].from = ps[n].from /\ ~(n <= n - 1)
      BY <2>3, <2>7
    <3>6. QED
      BY <3>1, <3>2, <3>3, <3>4, <3>5
  <2>16. \A k \in 1..(l - (n - 1)) :
       /\ s.rest[k].rec = ps[(n - 1) + k].rec /\ s.rest[k].len = ps[(n - 1) + k].len
       /\ s.rest[k].to = ps[(n - 1) + k].to
       /\ ps[(n - 1) + k].from <= s.rest[k].from
       /\ k > 1 => s.rest[k] = ps[(n - 1) + k]
    <3>1. \A k \in 1..(l - (n - 1)) : k = 1 \/ k \in 2..(l - n + 1)
      OBVIOUS
    <3>2. \A k \in 2..(l - n + 1) : /\ (n - 1) + k \in 1..l
                                    /\ ps[(n - 1) + k].from <= ps[(n - 1) + k].from
      <4>1. \A k \in 2..(l - n + 1) : (n - 1) + k \in 1..l
        OBVIOUS
      <4>2. \A k \in 1..l : ps[k].from <= ps[k].from
        BY <1>2, PieceIs
      <4>3. QED
        BY <4>1, <4>2
    <3>3. (n - 1) + 1 = n /\ ps[n].from <= b.from /\ ~(1 > 1)
      BY <2>1, <2>2, <2>3
    <3>4. QED
      BY <2>3, <2>14, <3>1, <3>2, <3>3
  <2>17. QED
    BY <1>1, <2>2, <2>3, <2>7, <2>13, <2>14, <2>15, <2>16 DEF SplitAt
<1>5. \/ \E n \in 0..l :
           s = [done |-> SubSeq(ps, 1, n), rest |-> SubSeq(ps, n + 1, Len(ps))]
      \/ \E n \in 1..l : \E c \in (ps[n].from + 1)..(ps[n].to - 1) :
           s = [done |-> Append(SubSeq(ps, 1, n - 1), [ps[n] EXCEPT !.to = c]),
                rest |-> <<[ps[n] EXCEPT !.from = c]>> \o SubSeq(ps, n + 1, Len(ps))]
  BY <1>1 DEF Splits
<1>6. \A n \in 1..l : n \in 0..l /\ n - 1 \in 0..l
  OBVIOUS
<1>7. QED
  BY <1>1, <1>3, <1>4, <1>5, <1>6

-----------------------------------------------------------------------------
(* The cells of a buffer                                                   *)

(* The cells of a piece.                                                   *)
Size(p) == p.to - p.from

(* No piece is empty.                                                      *)
LEMMA SizeIs == \A R : \A p \in Pieces(R) : Size(p) \in Nat \ {0}
  BY PieceIs DEF Size

(* What is left of a piece is no longer than the piece.                    *)
LEMMA SizeShrinks ==
  ASSUME NEW R, NEW p \in Pieces(R), NEW q \in Pieces(R),
         q.to = p.to, p.from <= q.from
  PROVE  Size(q) <= Size(p) /\ Size(p) \in Nat /\ Size(q) \in Nat
<1>1. /\ p.to \in Nat /\ p.from \in Nat /\ q.to \in Nat /\ q.from \in Nat
      /\ p.from < p.to /\ q.from < q.to
  BY PieceIs
<1>2. Size(p) = p.to - p.from /\ Size(q) = q.to - q.from
  BY DEF Size
<1>3. QED
  BY <1>1, <1>2

(* u adds up the cells of ps, one piece after another.                     *)
Counts(u, ps) ==
  /\ u \in [0..Len(ps) -> Nat]
  /\ u[0] = 0
  /\ \A k \in 1..Len(ps) : u[k] = u[k - 1] + Size(ps[k])

(* Such a sum exists, though CellsIn itself cannot be unfolded.            *)
LEMMA CountExists ==
  ASSUME NEW R, NEW ps \in Seq(Pieces(R))
  PROVE  \E u : Counts(u, ps)
<1>1. PICK l \in Nat : l = Len(ps)
  OBVIOUS
<1>2. \A k \in 1..l : Size(ps[k]) \in Nat
  <2>1. \A k \in 1..l : ps[k] \in Pieces(R)
    BY <1>1
  <2>2. QED
    BY <2>1, SizeIs
<1> DEFINE Upto(u, n) == /\ u \in [0..n -> Nat] /\ u[0] = 0
                         /\ \A k \in 1..n : u[k] = u[k - 1] + Size(ps[k])
           Failing == {n \in 0..l : ~ \E u : Upto(u, n)}
<1>3. ASSUME Failing # {} PROVE FALSE
  <2>1. Failing \in SUBSET Nat
    OBVIOUS
  <2>2. PICK n \in Failing : \A m \in Failing : n <= m
    <3> HIDE DEF Failing
    <3>1. QED
      BY <1>3, <2>1, Least
  <2>3. n # 0
    <3>1. Upto([k \in 0..0 |-> 0], 0)
      OBVIOUS
    <3> HIDE DEF Upto
    <3>2. QED
      BY <3>1
  <2>4. n \in 1..l /\ n - 1 \in 0..l /\ n - 1 < n
    BY <2>3
  <2>5. n - 1 \notin Failing
    <3> HIDE DEF Failing
    <3>1. QED
      BY <2>1, <2>2, <2>4
  <2>6. PICK u : Upto(u, n - 1)
    BY <2>4, <2>5
  <2> DEFINE v == [k \in 0..n |-> IF k = n THEN u[n - 1] + Size(ps[n]) ELSE u[k]]
  <2>7. Upto(v, n)
    <3>1. \A k \in 0..n : k = n \/ k \in 0..(n - 1)
      BY <2>4
    <3>2. n - 1 \in 0..(n - 1) /\ Size(ps[n]) \in Nat
      BY <1>2, <2>4
    <3>3. v \in [0..n -> Nat]
      BY <2>6, <3>1, <3>2
    <3>4. \A k \in 0..(n - 1) : v[k] = u[k]
      BY <2>4
    <3>5. v[n] = u[n - 1] + Size(ps[n])
      BY <2>4
    <3> HIDE DEF v
    <3>6. \A k \in 1..(n - 1) : v[k] = v[k - 1] + Size(ps[k])
      BY <2>6, <3>4
    <3>7. \A k \in 1..n : v[k] = v[k - 1] + Size(ps[k])
      BY <2>4, <3>4, <3>5, <3>6
    <3>8. v[0] = 0
      BY <2>4, <2>6, <3>4
    <3>9. QED
      BY <3>3, <3>7, <3>8
  <2>8. QED
    BY <2>7, <2>2
<1>4. l \notin Failing
  BY <1>3
<1>5. QED
  BY <1>1, <1>4 DEF Counts

(* And CellsIn is its last value.                                          *)
LEMMA CellsCount ==
  ASSUME NEW R, NEW ps \in Seq(Pieces(R))
  PROVE  \E u : Counts(u, ps) /\ CellsIn(ps) = u[Len(ps)]
<1> DEFINE Eq(f) == f = [k \in 0..Len(ps) |->
                           IF k = 0 THEN 0 ELSE f[k - 1] + ps[k].to - ps[k].from]
           c == CHOOSE f : Eq(f)
<1>1. CellsIn(ps) = c[Len(ps)]
  BY DEF CellsIn
<1>2. PICK l \in Nat : l = Len(ps)
  OBVIOUS
<1>3. \A k \in 1..l : ps[k].to \in Nat /\ ps[k].from \in Nat /\ Size(ps[k]) \in Nat
  <2>1. \A k \in 1..l : ps[k] \in Pieces(R)
    BY <1>2
  <2>2. QED
    BY <2>1, PieceIs, SizeIs
<1>4. PICK u : Counts(u, ps)
  BY CountExists
<1>5. \A k \in 1..l : k - 1 \in 0..l /\ k # 0
  OBVIOUS
<1>6. Eq(u)
  <2>1. \A k \in 1..l : u[k] = u[k - 1] + ps[k].to - ps[k].from
    BY <1>2, <1>3, <1>4, <1>5 DEF Counts, Size
  <2>2. \A k \in 0..l : k = 0 \/ k \in 1..l
    OBVIOUS
  <2>3. u \in [0..l -> Nat] /\ u[0] = 0
    BY <1>2, <1>4 DEF Counts
  <2>4. QED
    BY <1>2, <2>1, <2>2, <2>3
<1>7. Eq(c)
  <2> HIDE DEF Eq
  <2>1. QED
    BY <1>6
<1> HIDE DEF c
<1>8. DOMAIN c = 0..l /\ c[0] = 0
      /\ \A k \in 1..l : c[k] = c[k - 1] + ps[k].to - ps[k].from
  BY <1>2, <1>5, <1>7
<1>9. \A k \in 0..l : c[k] = u[k]
  <2> DEFINE Failing == {k \in 0..l : c[k] # u[k]}
  <2>1. Failing \in SUBSET Nat
    OBVIOUS
  <2>2. ASSUME Failing # {} PROVE FALSE
    <3>1. PICK n \in Failing : \A m \in Failing : n <= m
      <4> HIDE DEF Failing
      <4>1. QED
        BY <2>1, <2>2, Least
    <3>2. n \in 0..l /\ c[n] # u[n]
      BY <3>1
    <3>3. n # 0
      BY <1>4, <1>8, <3>2 DEF Counts
    <3>4. n \in 1..l /\ n - 1 \in 0..l /\ n - 1 < n
      BY <3>2, <3>3
    <3>5. n - 1 \notin Failing
      <4> HIDE DEF Failing
      <4>1. QED
        BY <2>1, <3>1, <3>4
    <3>6. c[n - 1] = u[n - 1]
      BY <3>4, <3>5
    <3>7. u[n] = u[n - 1] + ps[n].to - ps[n].from
      BY <1>2, <1>3, <1>4, <3>4 DEF Counts, Size
    <3>8. c[n] = c[n - 1] + ps[n].to - ps[n].from
      BY <1>8, <3>4
    <3>9. QED
      BY <3>2, <3>6, <3>7, <3>8
  <2>3. QED
    BY <2>2
<1>10. l \in 0..l
  OBVIOUS
<1>11. QED
  BY <1>1, <1>2, <1>4, <1>9, <1>10

(* A sequence that never rises ends no higher than it began.               *)
LEMMA Falling ==
  ASSUME NEW n \in Nat, NEW w \in [0..n -> Int],
         \A k \in 1..n : w[k] <= w[k - 1]
  PROVE  w[n] <= w[0]
<1> DEFINE Failing == {k \in 0..n : ~(w[k] <= w[0])}
<1>1. Failing \in SUBSET Nat
  OBVIOUS
<1>2. ASSUME Failing # {} PROVE FALSE
  <2>1. PICK k \in Failing : \A m \in Failing : k <= m
    <3> HIDE DEF Failing
    <3>1. QED
      BY <1>1, <1>2, Least
  <2>2. k \in 0..n /\ ~(w[k] <= w[0]) /\ w[0] \in Int
    BY <2>1
  <2>3. k # 0
    BY <2>2
  <2>4. k \in 1..n /\ k - 1 \in 0..n /\ k - 1 < k
    BY <2>2, <2>3
  <2>5. k - 1 \notin Failing
    <3> HIDE DEF Failing
    <3>1. QED
      BY <1>1, <2>1, <2>4
  <2>6. w[k - 1] <= w[0] /\ w[k] <= w[k - 1]
    BY <2>4, <2>5
  <2>7. w[k] \in Int /\ w[k - 1] \in Int
    BY <2>4
  <2>8. QED
    BY <2>2, <2>6, <2>7
<1>3. QED
  BY <1>2

(* An empty buffer has no cells.                                           *)
LEMMA CellsEmpty == CellsIn(<<>>) = 0
<1>1. <<>> \in Seq(Pieces({})) /\ Len(<<>>) = 0
  BY EmptySeq
<1>2. PICK u : Counts(u, <<>>) /\ CellsIn(<<>>) = u[Len(<<>>)]
  BY <1>1, CellsCount
<1>3. QED
  BY <1>1, <1>2 DEF Counts

(* A buffer of one piece has the cells of that piece.                      *)
LEMMA CellsOne ==
  ASSUME NEW R, NEW ps \in Seq(Pieces(R)), Len(ps) = 1
  PROVE  CellsIn(ps) = Size(ps[1])
<1>1. PICK u : Counts(u, ps) /\ CellsIn(ps) = u[Len(ps)]
  BY CellsCount
<1>2. 1 \in 1..1 /\ ps[1] \in Pieces(R)
  OBVIOUS
<1>3. Size(ps[1]) \in Nat
  BY <1>2, SizeIs
<1>4. u[1] = u[1 - 1] + Size(ps[1]) /\ u[0] = 0 /\ CellsIn(ps) = u[1]
  BY <1>1, <1>2 DEF Counts
<1>5. QED
  BY <1>3, <1>4

(* The room a frame takes in the buffer is at most its own size.           *)
LEMMA CellsAppend ==
  ASSUME NEW R, NEW ps \in Seq(Pieces(R)), NEW p \in Pieces(R)
  PROVE  /\ CellsIn(ps) \in Nat
         /\ CellsIn(Append(ps, p)) <= CellsIn(ps) + Size(p)
<1>1. PICK qs \in Seq(Pieces(R)) : qs = Append(ps, p)
  BY AppendProperties
<1>2. PICK l \in Nat : l = Len(ps)
  OBVIOUS
<1>3. Len(qs) = l + 1 /\ qs[l + 1] = p /\ \A k \in 1..l : qs[k] = ps[k]
  BY <1>1, <1>2, AppendProperties
<1>4. PICK u : Counts(u, ps) /\ CellsIn(ps) = u[Len(ps)]
  BY CellsCount
<1>5. PICK v : Counts(v, qs) /\ CellsIn(qs) = v[Len(qs)]
  BY <1>1, CellsCount
<1>6. u \in [0..l -> Nat] /\ v \in [0..(l + 1) -> Nat]
  BY <1>2, <1>3, <1>4, <1>5 DEF Counts
<1> DEFINE w == [k \in 0..l |-> v[k] - u[k]]
<1>7. w \in [0..l -> Int]
  BY <1>6
<1>8. ASSUME NEW k \in 1..l PROVE w[k] <= w[k - 1]
  <2>1. k \in 0..l /\ k - 1 \in 0..l /\ k \in 1..(l + 1)
    OBVIOUS
  <2>2. ps[k] \in Pieces(R)
    BY <1>2
  <2>3. Size(ps[k]) \in Nat
    BY <2>2, SizeIs
  <2>4. u[k] = u[k - 1] + Size(ps[k]) /\ v[k] = v[k - 1] + Size(ps[k])
    BY <1>2, <1>3, <1>4, <1>5, <2>1 DEF Counts
  <2>5. /\ u[k] \in Nat /\ u[k - 1] \in Nat /\ v[k] \in Nat /\ v[k - 1] \in Nat
        /\ w[k] = v[k] - u[k] /\ w[k - 1] = v[k - 1] - u[k - 1]
    BY <1>6, <2>1
  <2>6. QED
    BY <2>3, <2>4, <2>5, SMTT(30)
<1>9. w[l] <= w[0]
  <2> HIDE DEF w
  <2>1. QED
    BY <1>7, <1>8, Falling
<1>10. w[0] = 0 /\ w[l] = v[l] - u[l] /\ v[l] \in Nat /\ u[l] \in Nat
  BY <1>4, <1>5, <1>6 DEF Counts
<1>11. v[l + 1] = v[l] + Size(p)
  <2>1. l + 1 \in 1..(l + 1) /\ (l + 1) - 1 = l
    OBVIOUS
  <2>2. QED
    BY <1>3, <1>5, <2>1 DEF Counts
<1>12. Size(p) \in Nat
  BY SizeIs
<1> HIDE DEF w
<1>13. QED
  BY <1>1, <1>2, <1>3, <1>4, <1>5, <1>9, <1>10, <1>11, <1>12

(* A difference that less is added to.                                     *)
LEMMA Telescoped ==
  \A x, y, p, q \in Nat : q <= p => (y + q) - (x + p) <= y - x
  OBVIOUS

(* What is left of a write is no longer than the write.                    *)
LEMMA CellsRest ==
  ASSUME NEW R, NEW ps \in Seq(Pieces(R)), NEW s \in Splits(ps), Cuts \subseteq Nat
  PROVE  CellsIn(s.rest) <= CellsIn(ps)
<1>1. s.rest \in Seq(Pieces(R))
  BY SplitIs
<1>2. PICK l \in Nat : l = Len(ps)
  OBVIOUS
<1>3. PICK n, m \in 0..l : SplitAt(ps, s, n, m)
  BY <1>2, SplitIs
<1>4. PICK rest : rest = s.rest
  OBVIOUS
<1>5. PICK o \in Nat : o = l - m
  OBVIOUS
<1>6. /\ Len(rest) = o
      /\ \A k \in 1..o : rest[k].to = ps[m + k].to /\ ps[m + k].from <= rest[k].from
  BY <1>2, <1>3, <1>4, <1>5 DEF SplitAt
<1>7. PICK u : Counts(u, ps) /\ CellsIn(ps) = u[Len(ps)]
  BY CellsCount
<1>8. PICK v : Counts(v, rest) /\ CellsIn(rest) = v[Len(rest)]
  BY <1>1, <1>4, CellsCount
<1>9. u \in [0..l -> Nat] /\ v \in [0..o -> Nat]
  BY <1>2, <1>6, <1>7, <1>8 DEF Counts
<1> DEFINE w == [k \in 0..o |-> v[k] - u[m + k]]
<1>10. \A k \in 0..o : m + k \in 0..l
  BY <1>5
<1>11. w \in [0..o -> Int]
  <2>1. \A k \in 0..o : v[k] \in Int /\ u[m + k] \in Int
    <3>1. ASSUME NEW k \in 0..o PROVE v[k] \in Nat /\ u[m + k] \in Nat
      <4>1. m + k \in 0..l
        BY <1>10
      <4>2. QED
        BY <1>9, <4>1
    <3>2. \A x \in Nat : x \in Int
      OBVIOUS
    <3>3. QED
      BY <3>1, <3>2
  <2>2. \A k \in 0..o : v[k] - u[m + k] \in Int
    BY <2>1
  <2>3. QED
    BY <2>2
<1>12. ASSUME NEW k \in 1..o PROVE w[k] <= w[k - 1]
  <2>1. /\ k \in 0..o /\ k - 1 \in 0..o /\ m + k \in 1..l /\ (m + k) - 1 = m + (k - 1)
        /\ m + k \in 0..l /\ m + (k - 1) \in 0..l
    BY <1>5
  <2>2. ps[m + k] \in Pieces(R) /\ rest[k] \in Pieces(R)
    BY <1>1, <1>2, <1>4, <1>6, <2>1
  <2>3. Size(rest[k]) <= Size(ps[m + k]) /\ Size(rest[k]) \in Nat /\ Size(ps[m + k]) \in Nat
    <3>1. rest[k].to = ps[m + k].to /\ ps[m + k].from <= rest[k].from
      BY <1>6
    <3>2. QED
      BY <2>2, <3>1, SizeShrinks
  <2>4. u[m + k] = u[m + (k - 1)] + Size(ps[m + k])
    BY <1>2, <1>7, <2>1 DEF Counts
  <2>5. v[k] = v[k - 1] + Size(rest[k])
    BY <1>6, <1>8 DEF Counts
  <2>6. /\ u[m + k] \in Nat /\ u[m + (k - 1)] \in Nat /\ v[k] \in Nat /\ v[k - 1] \in Nat
        /\ w[k] = v[k] - u[m + k] /\ w[k - 1] = v[k - 1] - u[m + (k - 1)]
    BY <1>9, <2>1
  <2> HIDE DEF w
  <2>7. PICK x \in Nat, y \in Nat, p \in Nat, q \in Nat :
          /\ x = u[m + (k - 1)] /\ y = v[k - 1]
          /\ p = Size(ps[m + k]) /\ q = Size(rest[k])
    BY <2>3, <2>6
  <2>8. w[k] = (y + q) - (x + p) /\ w[k - 1] = y - x /\ q <= p
    BY <2>3, <2>4, <2>5, <2>6, <2>7
  <2>9. QED
    BY <2>8, Telescoped
<1>13. w[o] <= w[0]
  <2> HIDE DEF w
  <2>1. QED
    BY <1>11, <1>12, Falling
<1>14. w[0] = v[0] - u[m] /\ w[o] = v[o] - u[l] /\ v[0] = 0
  <2>1. 0 \in 0..o /\ o \in 0..o /\ m + 0 = m /\ m + o = l
    BY <1>5
  <2>2. QED
    BY <1>8, <2>1 DEF Counts
<1>15. v[o] \in Nat /\ u[l] \in Nat /\ u[m] \in Nat
  BY <1>9
<1> HIDE DEF w
<1>16. QED
  BY <1>2, <1>4, <1>6, <1>7, <1>8, <1>13, <1>14, <1>15

(* Finitely many naturals have a bound.                                    *)
LEMMA BoundExists ==
  ASSUME NEW n \in Nat, NEW f \in [1..n -> Nat]
  PROVE  \E b \in Nat : \A k \in 1..n : f[k] <= b
<1> DEFINE Failing == {m \in 0..n : ~ \E b \in Nat : \A k \in 1..m : f[k] <= b}
<1>1. Failing \in SUBSET Nat
  OBVIOUS
<1>2. ASSUME Failing # {} PROVE FALSE
  <2>1. PICK m \in Failing : \A j \in Failing : m <= j
    <3> HIDE DEF Failing
    <3>1. QED
      BY <1>1, <1>2, Least
  <2>2. m # 0
    <3>1. \A k \in 1..0 : f[k] <= 0
      OBVIOUS
    <3>2. 0 \in Nat
      OBVIOUS
    <3>3. QED
      BY <3>1, <3>2
  <2>3. m \in 1..n /\ m - 1 \in 0..n /\ m - 1 < m
    BY <2>2
  <2>4. m - 1 \notin Failing
    <3> HIDE DEF Failing
    <3>1. QED
      BY <1>1, <2>1, <2>3
  <2>5. PICK b \in Nat : \A k \in 1..(m - 1) : f[k] <= b
    BY <2>3, <2>4
  <2>6. f[m] \in Nat /\ b + f[m] \in Nat
    BY <2>3
  <2>7. \A k \in 1..m : f[k] <= b + f[m]
    <3>1. \A k \in 1..m : k = m \/ k \in 1..(m - 1)
      OBVIOUS
    <3>2. \A k \in 1..(m - 1) : f[k] \in Nat
      BY <2>3
    <3>3. QED
      BY <2>5, <2>6, <3>1, <3>2
  <2>8. QED
    BY <2>1, <2>6, <2>7
<1>3. n \notin Failing
  BY <1>2
<1>4. QED
  BY <1>3

(* Max of a bounded set of naturals is its greatest element.               *)
LEMMA MaxIs ==
  ASSUME NEW S \in SUBSET Nat, S # {}, NEW b \in Nat, \A x \in S : x <= b
  PROVE  Max(S) \in S /\ \A x \in S : x <= Max(S)
<1> DEFINE U == {c \in Nat : \A x \in S : x <= c}
<1>1. U \in SUBSET Nat /\ U # {}
  OBVIOUS
<1>2. PICK c \in U : \A d \in U : c <= d
  <2> HIDE DEF U
  <2>1. QED
    BY <1>1, Least
<1>3. c \in Nat /\ \A x \in S : x <= c
  BY <1>2
<1>4. c \in S
  <2>1. SUFFICES ASSUME c \notin S PROVE FALSE
    OBVIOUS
  <2>2. PICK y \in S : TRUE
    OBVIOUS
  <2>3. \A x \in S : x < c
    BY <1>3, <2>1
  <2>4. c - 1 \in Nat /\ \A x \in S : x <= c - 1
    BY <1>3, <2>2, <2>3
  <2>5. c - 1 \in U
    BY <2>4
  <2>6. QED
    BY <1>2, <1>3, <2>5
<1>5. \A y \in S : c >= y
  BY <1>3
<1>6. QED
  BY <1>4, <1>5 DEF Max

(* The highest of what a sequence lists, and of one more.                  *)
LEMMA MaxOfSeq ==
  ASSUME NEW n \in Nat, NEW f \in [1..n -> Nat], NEW a \in Nat,
         NEW S, S \subseteq {a} \union {f[k] : k \in 1..n}, a \in S
  PROVE  Max(S) \in Nat /\ a <= Max(S) /\ \A x \in S : x <= Max(S)
<1>1. PICK b \in Nat : \A k \in 1..n : f[k] <= b
  BY BoundExists
<1>2. S \in SUBSET Nat /\ S # {} /\ a + b \in Nat
  OBVIOUS
<1>3. \A x \in S : x <= a + b
  BY <1>1
<1>4. QED
  BY <1>2, <1>3, MaxIs

-----------------------------------------------------------------------------
(* What a scan of a file reads (frame.rs, wal.rs)                          *)

(* Record k of a file is all there, and its length prefix has not wrapped: *)
(* read_frame of wal.rs accepts it.                                        *)
ReadableAt(data, k) == IsWhole(data[k]) /\ data[k].len < U32

(* The whole readable frames at the front of a file.                       *)
Prefix(data, good) ==
  \E n \in 0..Len(data) :
    /\ Len(good) = n
    /\ \A k \in 1..n : good[k] = data[k] /\ ReadableAt(data, k)
    /\ n < Len(data) => ~ReadableAt(data, n + 1)

(* The readable records of a file are a prefix of it.                      *)
LEMMA PrefixIs ==
  ASSUME NEW S, NEW data \in Seq(S)
  PROVE  LET good == SubSeq(data, 1, Cardinality({k \in DOMAIN data :
                              \A j \in 1..k : ReadableAt(data, j)}))
         IN  good \in Seq(S) /\ Prefix(data, good)
<1> DEFINE ok == {k \in DOMAIN data : \A j \in 1..k : ReadableAt(data, j)}
<1>1. PICK l \in Nat : l = Len(data)
  OBVIOUS
<1>2. DOMAIN data = 1..l
  BY <1>1
<1> DEFINE bad == {j \in 1..l : ~ReadableAt(data, j)}
<1>3. PICK n \in 0..l : /\ \A k \in 1..n : ReadableAt(data, k)
                        /\ n < l => ~ReadableAt(data, n + 1)
  <2>1. CASE bad = {}
    <3>1. l \in 0..l /\ ~(l < l) /\ \A k \in 1..l : ReadableAt(data, k)
      BY <2>1
    <3>2. QED
      BY <3>1
  <2>2. CASE bad # {}
    <3>1. bad \in SUBSET Nat
      OBVIOUS
    <3>2. PICK m \in bad : \A j \in bad : m <= j
      <4> HIDE DEF bad
      <4>1. QED
        BY <2>2, <3>1, Least
    <3>3. m \in 1..l /\ ~ReadableAt(data, m)
      BY <3>2
    <3>4. m - 1 \in 0..l /\ (m - 1) + 1 = m
      BY <3>3
    <3>5. \A k \in 1..(m - 1) : k \in 1..l /\ ~(m <= k)
      BY <3>3
    <3>6. \A k \in 1..(m - 1) : ReadableAt(data, k)
      BY <3>2, <3>5
    <3>7. QED
      BY <3>3, <3>4, <3>6
  <2>3. QED
    BY <2>1, <2>2
<1>4. ok = 1..n
  <2>1. \A k \in 1..l : k <= n => \A j \in 1..k : j \in 1..n
    OBVIOUS
  <2>2. \A k \in 1..l : ~(k <= n) => n + 1 \in 1..k /\ n < l
    OBVIOUS
  <2>3. \A k \in 1..n : k \in 1..l /\ k <= n
    OBVIOUS
  <2>4. \A k \in 1..l : k <= n => k \in 1..n
    OBVIOUS
  <2>5. QED
    BY <1>2, <1>3, <2>1, <2>2, <2>3, <2>4
<1>5. Cardinality(ok) = n
  <2>1. 1 \in Int /\ n \in Int /\ Cardinality(1..n) = IF 1 > n THEN 0 ELSE n - 1 + 1
    BY FS_Interval
  <2>2. Cardinality(1..n) = n
    BY <2>1
  <2>3. QED
    BY <1>4, <2>2
<1>6. \A k \in 1..n : data[k] \in S
  BY <1>1
<1>7. /\ SubSeq(data, 1, n) \in Seq(S) /\ Len(SubSeq(data, 1, n)) = n
      /\ \A k \in 1..n : SubSeq(data, 1, n)[k] = data[k]
  <2>1. /\ SubSeq(data, 1, n) \in Seq(S)
        /\ Len(SubSeq(data, 1, n)) = IF 1 <= n THEN n - 1 + 1 ELSE 0
        /\ \A k \in 1..(n - 1 + 1) : SubSeq(data, 1, n)[k] = data[1 + k - 1]
    BY <1>6, SubSeqProperties
  <2>2. \A k \in 1..n : k \in 1..(n - 1 + 1) /\ 1 + k - 1 = k
    OBVIOUS
  <2>3. Len(SubSeq(data, 1, n)) = n
    BY <2>1
  <2>4. QED
    BY <2>1, <2>2, <2>3
<1>8. Prefix(data, SubSeq(data, 1, n))
  BY <1>1, <1>3, <1>7 DEF Prefix
<1> HIDE DEF ok
<1>9. SubSeq(data, 1, Cardinality(ok)) = SubSeq(data, 1, n)
  BY <1>5
<1>10. QED
  BY <1>7, <1>8, <1>9 DEF ok

(* The header of a segment (Wal::create_new) as a piece.                   *)
LEMMA HeaderIs ==
  /\ Header.rec.lsn = 0 /\ Header.len = 2 /\ Header.from = 0 /\ Header.to = 2
  /\ HEADER_LEN = 2
  /\ Header = [rec |-> Header.rec, len |-> 2, from |-> 0, to |-> 2]
  BY DEF Header, WholePiece, HEADER_LEN, HEADER_MAGIC

(* decode_segment: what recover reads of a segment.                        *)
LEMMA GoodIs ==
  ASSUME NEW S, NEW data \in Seq(S), HEADER_LEN < U32
  PROVE  /\ Good(data) \in Seq(S)
         /\ Len(Good(data)) \in 0..Len(data)
         /\ \A k \in 1..Len(Good(data)) : Good(data)[k] = data[k]
         /\ data # <<>> /\ data[1] = Header =>
              Len(Good(data)) > 0 /\ Prefix(data, Good(data))
<1>1. CASE data = <<>> \/ data[1] # Header
  <2>1. Good(data) = data
    BY <1>1 DEF Good
  <2>2. QED
    BY <1>1, <2>1
<1>2. CASE data # <<>> /\ data[1] = Header
  <2> DEFINE ok == {k \in DOMAIN data : \A j \in 1..k : ReadableAt(data, j)}
             good == SubSeq(data, 1, Cardinality(ok))
  <2>1. Good(data) = good
    BY <1>2 DEF Good, Readable, ReadableAt
  <2>2. good \in Seq(S) /\ Prefix(data, good)
    BY PrefixIs
  <2> HIDE DEF good
  <2>3. PICK n \in 0..Len(data) :
          /\ Len(good) = n
          /\ \A k \in 1..n : good[k] = data[k]
          /\ n < Len(data) => ~ReadableAt(data, n + 1)
    BY <2>2 DEF Prefix
  <2>4. ReadableAt(data, 1)
    BY <1>2, HeaderIs DEF ReadableAt, IsWhole
  <2>5. Len(data) \in Nat \ {0}
    BY <1>2, EmptySeq
  <2>6. n > 0
    BY <2>3, <2>4, <2>5
  <2>7. QED
    BY <2>1, <2>2, <2>3, <2>6
<1>3. QED
  BY <1>1, <1>2

(* The records that recover returns, by place in the file.                 *)
LEMMA LogIs ==
  ASSUME NEW R, NEW data \in Seq(Whole(R)), HEADER_LEN < U32
  PROVE  /\ Log(data) \in Seq(R) /\ Len(Log(data)) <= Len(data)
         /\ \A k \in 1..Len(Log(data)) :
              /\ k + 1 \in 1..Len(data) /\ Log(data)[k] = data[k + 1].rec
              /\ data[1] = Header
<1>1. CASE data = <<>> \/ data[1] # Header
  <2>1. Log(data) = <<>>
    BY <1>1 DEF Log
  <2>2. Len(<<>>) = 0 /\ <<>> \in Seq(R) /\ Len(data) \in Nat
    BY EmptySeq
  <2>3. QED
    BY <2>1, <2>2
<1>2. CASE data # <<>> /\ data[1] = Header
  <2>1. /\ Len(data) \in Nat /\ Len(Good(data)) \in 1..Len(data)
        /\ \A k \in 1..Len(data) : data[k] \in Whole(R)
    <3>1. Len(Good(data)) \in 0..Len(data) /\ Len(Good(data)) > 0
      BY <1>2, GoodIs
    <3>2. QED
      BY <3>1
  <2>2. PICK n \in Nat : n = Len(Good(data)) - 1
    <3>1. PICK g \in 1..Len(data) : g = Len(Good(data))
      BY <2>1
    <3>2. g - 1 \in Nat
      BY <2>1
    <3>3. QED
      BY <3>1, <3>2
  <2>3. Log(data) = [k \in 1..n |-> data[k + 1].rec]
    BY <1>2, <2>2 DEF Log
  <2>4. \A k \in 1..n : k + 1 \in 1..Len(data)
    BY <2>1, <2>2
  <2>5. \A k \in 1..n : data[k + 1].rec \in R
    BY <2>1, <2>4, PieceIs DEF Whole
  <2>6. Log(data) \in [1..n -> R]
    BY <2>3, <2>5
  <2>7. Log(data) \in Seq(R) /\ Len(Log(data)) = n
    BY <2>6
  <2>8. QED
    BY <1>2, <2>1, <2>2, <2>3, <2>4, <2>7
<1>3. QED
  BY <1>1, <1>2

-----------------------------------------------------------------------------
(* What a checkpoint keeps, and what batches and recovered records do      *)

(* LSNs rise along recs.                                                   *)
RisingRecs(recs) == \A j, k \in 1..Len(recs) : j < k => recs[j].lsn < recs[k].lsn

(* Survivors, its recursive function known to exist: what it keeps.        *)
Kept(log, n, f) ==
  f = [k \in 0..Len(log) |->
         IF k = 0 THEN <<>>
         ELSE IF log[k].lsn > n THEN Append(f[k - 1], log[k]) ELSE f[k - 1]]

(* Such a function exists.                                                 *)
LEMMA KeptExists ==
  ASSUME NEW R, NEW log \in Seq(R), NEW n
  PROVE  \E f : Kept(log, n, f)
<1>1. PICK l \in Nat : l = Len(log)
  OBVIOUS
<1> DEFINE Upto(f, m) ==
             f = [k \in 0..m |->
                    IF k = 0 THEN <<>>
                    ELSE IF log[k].lsn > n THEN Append(f[k - 1], log[k]) ELSE f[k - 1]]
           Failing == {m \in 0..l : ~ \E f : Upto(f, m)}
<1>2. Failing \in SUBSET Nat
  OBVIOUS
<1>3. ASSUME Failing # {} PROVE FALSE
  <2>1. PICK m \in Failing : \A j \in Failing : m <= j
    <3> HIDE DEF Failing
    <3>1. QED
      BY <1>2, <1>3, Least
  <2>2. m # 0
    <3> DEFINE g == [k \in 0..0 |-> <<>>]
    <3>1. \A k \in 0..0 : k = 0
      OBVIOUS
    <3>2. Upto(g, 0)
      BY <3>1
    <3> HIDE DEF Upto, g
    <3>3. QED
      BY <3>2
  <2>3. m \in 1..l /\ m - 1 \in 0..l /\ m - 1 < m
    BY <2>2
  <2>4. m - 1 \notin Failing
    <3> HIDE DEF Failing
    <3>1. QED
      BY <1>2, <2>1, <2>3
  <2>5. PICK f : Upto(f, m - 1)
    BY <2>3, <2>4
  <2> DEFINE g == [k \in 0..m |->
                     IF k = 0 THEN <<>>
                     ELSE IF log[k].lsn > n THEN Append(f[k - 1], log[k]) ELSE f[k - 1]]
  <2>6. \A k \in 0..(m - 1) : g[k] = f[k]
    <3>1. ASSUME NEW k \in 0..(m - 1) PROVE g[k] = f[k]
      <4>1. k \in 0..m
        BY <2>3
      <4>2. QED
        BY <2>5, <4>1
    <3>2. QED
      BY <3>1
  <2>7. \A k \in 1..m : k - 1 \in 0..(m - 1)
    BY <2>3
  <2>8. Upto(g, m)
    <3>1. \A k \in 0..m : k = 0 \/ k \in 1..m
      OBVIOUS
    <3>2. \A k \in 1..m : g[k - 1] = f[k - 1]
      BY <2>6, <2>7
    <3>3. \A k \in 0..m :
             g[k] = IF k = 0 THEN <<>>
                    ELSE IF log[k].lsn > n THEN Append(g[k - 1], log[k]) ELSE g[k - 1]
      BY <3>1, <3>2
    <3>4. g = [k \in 0..m |-> g[k]]
      OBVIOUS
    <3> HIDE DEF g
    <3>5. QED
      BY <3>3, <3>4
  <2> HIDE DEF Upto, g
  <2>9. QED
    BY <2>1, <2>8
<1>4. l \notin Failing
  BY <1>3
<1>5. QED
  BY <1>1, <1>4 DEF Kept

(* The last of one element more, and the others.                           *)
LEMMA OneMore ==
  \A o \in Nat : \A j, k \in 1..(o + 1) :
    j < k => j \in 1..o /\ (k = o + 1 \/ k \in 1..o)
  OBVIOUS

(* What collect_live keeps of a log: records of the log above n, in the    *)
(* order they had.                                                         *)
LEMMA SurvivorsAre ==
  ASSUME NEW R, NEW data \in Seq(Whole(R)), NEW n, HEADER_LEN < U32,
         \A r \in R : r.lsn \in Nat
  PROVE  /\ Survivors(data, n) \in Seq(R)
         /\ \A k \in 1..Len(Survivors(data, n)) :
              \E j \in 1..Len(Log(data)) : /\ Survivors(data, n)[k] = Log(data)[j]
                                           /\ Log(data)[j].lsn > n
         /\ RisingRecs(Log(data)) => RisingRecs(Survivors(data, n))
<1>1. PICK log \in Seq(R) : log = Log(data)
  BY LogIs
<1>2. PICK l \in Nat : l = Len(log)
  OBVIOUS
<1> DEFINE f == CHOOSE g : Kept(log, n, g)
<1>3. Survivors(data, n) = f[l]
  BY <1>1, <1>2 DEF Survivors, Kept
<1>4. Kept(log, n, f)
  BY KeptExists
<1> HIDE DEF f
<1>5. /\ f[0] = <<>>
      /\ \A k \in 1..l : /\ log[k] \in R
                         /\ f[k] = IF log[k].lsn > n THEN Append(f[k - 1], log[k])
                                   ELSE f[k - 1]
  <2>1. \A k \in 1..l : k \in 0..l /\ k # 0
    OBVIOUS
  <2>2. 0 \in 0..l
    OBVIOUS
  <2>3. QED
    <3>1. \A k \in 1..l : log[k] \in R
      BY <1>1, <1>2
    <3>2. f = [k \in 0..l |->
                 IF k = 0 THEN <<>>
                 ELSE IF log[k].lsn > n THEN Append(f[k - 1], log[k]) ELSE f[k - 1]]
      BY <1>2, <1>4 DEF Kept
    <3>3. f[0] = <<>>
      BY <2>2, <3>2
    <3>4. \A k \in 1..l :
            f[k] = IF log[k].lsn > n THEN Append(f[k - 1], log[k]) ELSE f[k - 1]
      BY <2>1, <3>2
    <3>5. QED
      BY <3>1, <3>3, <3>4
<1> DEFINE Ok(m) == /\ f[m] \in Seq(R)
                    /\ \A k \in 1..Len(f[m]) :
                         \E j \in 1..m : f[m][k] = log[j] /\ log[j].lsn > n
                    /\ RisingRecs(log) => RisingRecs(f[m])
           Failing == {m \in 0..l : ~Ok(m)}
<1>6. Failing \in SUBSET Nat
  OBVIOUS
<1>7. ASSUME Failing # {} PROVE FALSE
  <2>1. PICK m \in Failing : \A j \in Failing : m <= j
    <3> HIDE DEF Failing
    <3>1. QED
      BY <1>6, <1>7, Least
  <2>2. m # 0
    <3>1. f[0] \in Seq(R) /\ Len(f[0]) = 0
      BY <1>5, EmptySeq
    <3>2. Ok(0)
      BY <3>1 DEF RisingRecs
    <3> HIDE DEF Ok
    <3>3. QED
      BY <3>2
  <2>3. m \in 1..l /\ m - 1 \in 0..l /\ m - 1 < m
    BY <2>2
  <2>4. m - 1 \notin Failing
    <3> HIDE DEF Failing
    <3>1. QED
      BY <1>6, <2>1, <2>3
  <2>5. Ok(m - 1)
    BY <2>3, <2>4
  <2>6. \A j \in 1..(m - 1) : j \in 1..m /\ j < m
    BY <2>3
  <2>7. CASE ~(log[m].lsn > n)
    <3>1. f[m] = f[m - 1]
      BY <1>5, <2>3, <2>7
    <3>2. Ok(m)
      BY <2>5, <2>6, <3>1
    <3>3. QED
      BY <2>1, <3>2
  <2>8. CASE log[m].lsn > n
    <3>1. PICK g \in Seq(R) : g = f[m - 1]
      BY <2>5
    <3>2. PICK o \in Nat : o = Len(g)
      OBVIOUS
    <3>3. log[m] \in R /\ f[m] = Append(g, log[m])
      BY <1>5, <2>3, <2>8, <3>1
    <3>4. /\ f[m] \in Seq(R) /\ Len(f[m]) = o + 1 /\ f[m][o + 1] = log[m]
          /\ \A k \in 1..o : f[m][k] = g[k]
      BY <3>2, <3>3, AppendProperties
    <3>5. \A k \in 1..o : \E j \in 1..(m - 1) : g[k] = log[j] /\ log[j].lsn > n
      BY <2>5, <3>1, <3>2
    <3>6. \A k \in 1..(o + 1) : k = o + 1 \/ k \in 1..o
      OBVIOUS
    <3>7. \A k \in 1..Len(f[m]) : \E j \in 1..m : f[m][k] = log[j] /\ log[j].lsn > n
      <4>1. m \in 1..m
        BY <2>3
      <4>2. ASSUME NEW k \in 1..(o + 1)
            PROVE  \E j \in 1..m : f[m][k] = log[j] /\ log[j].lsn > n
        <5>1. CASE k = o + 1
          BY <2>8, <3>4, <4>1, <5>1
        <5>2. CASE k \in 1..o
          <6>1. PICK j \in 1..(m - 1) : g[k] = log[j] /\ log[j].lsn > n
            BY <3>5, <5>2
          <6>2. j \in 1..m
            BY <2>3, <6>1
          <6>3. QED
            BY <3>4, <5>2, <6>1, <6>2
        <5>3. QED
          BY <3>6, <5>1, <5>2
      <4>3. QED
        BY <3>4, <4>2
    <3>8. ASSUME RisingRecs(log) PROVE RisingRecs(f[m])
      <4>1. \A k \in 1..o : g[k].lsn < log[m].lsn
        <5>1. \A j \in 1..(m - 1) : j \in 1..l /\ log[j].lsn < log[m].lsn
          BY <1>2, <2>3, <2>6, <3>8 DEF RisingRecs
        <5>2. QED
          BY <3>5, <5>1
      <4>2. \A j, k \in 1..o : j < k => g[j].lsn < g[k].lsn
        BY <2>5, <3>1, <3>2, <3>8 DEF RisingRecs
      <4>3. \A j, k \in 1..(o + 1) : j < k => j \in 1..o /\ (k = o + 1 \/ k \in 1..o)
        BY <3>2, OneMore
      <4>4. QED
        BY <3>4, <4>1, <4>2, <4>3 DEF RisingRecs
    <3>9. Ok(m)
      BY <3>4, <3>7, <3>8
    <3>10. QED
      BY <2>1, <3>9
  <2>9. QED
    BY <2>7, <2>8
<1>8. l \in 0..l /\ l \notin Failing
  BY <1>7
<1>9. Ok(l)
  BY <1>8
<1>10. QED
  BY <1>1, <1>2, <1>3, <1>9

(* A versioned value, as the store and the cache hold it.                  *)
Value == [id : Ids, ver : Nat, blob : Nat]

(* A put leaves the table a table.                                         *)
LEMMA PutIs ==
  ASSUME NEW table \in [Ids -> Value \union {None}],
         NEW w, w.id \in Ids, w.ver \in Nat, w.blob \in Nat
  PROVE  Put(table, w) \in [Ids -> Value \union {None}]
  BY DEF Put, State, Value

(* f is the table after each of the puts ws.                               *)
PutsOf(table, ws, f) ==
  f = [k \in 0..Len(ws) |-> IF k = 0 THEN table ELSE Put(f[k - 1], ws[k])]

(* Such a function exists.                                                 *)
LEMMA PutsExist ==
  ASSUME NEW R, NEW ws \in Seq(R), NEW table
  PROVE  \E f : PutsOf(table, ws, f)
<1>1. PICK l \in Nat : l = Len(ws)
  OBVIOUS
<1> DEFINE Upto(f, m) ==
             f = [k \in 0..m |-> IF k = 0 THEN table ELSE Put(f[k - 1], ws[k])]
           Failing == {m \in 0..l : ~ \E f : Upto(f, m)}
<1>2. Failing \in SUBSET Nat
  OBVIOUS
<1>3. ASSUME Failing # {} PROVE FALSE
  <2>1. PICK m \in Failing : \A j \in Failing : m <= j
    <3> HIDE DEF Failing
    <3>1. QED
      BY <1>2, <1>3, Least
  <2>2. m # 0
    <3> DEFINE g == [k \in 0..0 |-> table]
    <3>1. \A k \in 0..0 : k = 0
      OBVIOUS
    <3>2. Upto(g, 0)
      BY <3>1
    <3> HIDE DEF Upto, g
    <3>3. QED
      BY <3>2
  <2>3. m \in 1..l /\ m - 1 \in 0..l /\ m - 1 < m
    BY <2>2
  <2>4. m - 1 \notin Failing
    <3> HIDE DEF Failing
    <3>1. QED
      BY <1>2, <2>1, <2>3
  <2>5. PICK f : Upto(f, m - 1)
    BY <2>3, <2>4
  <2> DEFINE g == [k \in 0..m |-> IF k = 0 THEN table ELSE Put(f[k - 1], ws[k])]
  <2>6. \A k \in 0..(m - 1) : g[k] = f[k]
    <3>1. ASSUME NEW k \in 0..(m - 1) PROVE g[k] = f[k]
      <4>1. k \in 0..m
        BY <2>3
      <4>2. QED
        BY <2>5, <4>1
    <3>2. QED
      BY <3>1
  <2>7. \A k \in 1..m : k - 1 \in 0..(m - 1)
    BY <2>3
  <2>8. Upto(g, m)
    <3>1. \A k \in 0..m : k = 0 \/ k \in 1..m
      OBVIOUS
    <3>2. \A k \in 1..m : g[k - 1] = f[k - 1]
      BY <2>6, <2>7
    <3>3. \A k \in 0..m : g[k] = IF k = 0 THEN table ELSE Put(g[k - 1], ws[k])
      BY <3>1, <3>2
    <3>4. g = [k \in 0..m |-> g[k]]
      OBVIOUS
    <3> HIDE DEF g
    <3>5. QED
      BY <3>3, <3>4
  <2> HIDE DEF Upto, g
  <2>9. QED
    BY <2>1, <2>8
<1>4. l \notin Failing
  BY <1>3
<1>5. QED
  BY <1>1, <1>4 DEF PutsOf

(* Any number of puts leaves the table a table.                            *)
LEMMA PutAllIs ==
  ASSUME NEW R, NEW ws \in Seq(R), NEW table \in [Ids -> Value \union {None}],
         \A k \in 1..Len(ws) : ws[k].id \in Ids /\ ws[k].ver \in Nat /\ ws[k].blob \in Nat
  PROVE  PutAll(table, ws) \in [Ids -> Value \union {None}]
<1>1. PICK l \in Nat : l = Len(ws)
  OBVIOUS
<1> DEFINE f == CHOOSE g : PutsOf(table, ws, g)
           Tables == [Ids -> Value \union {None}]
<1>2. PutAll(table, ws) = f[l]
  BY <1>1 DEF PutAll, PutsOf
<1>3. PutsOf(table, ws, f)
  BY PutsExist
<1> HIDE DEF f
<1>4. f[0] = table /\ \A k \in 1..l : f[k] = Put(f[k - 1], ws[k])
  <2>1. \A k \in 1..l : k \in 0..l /\ k # 0
    OBVIOUS
  <2>2. 0 \in 0..l
    OBVIOUS
  <2>3. QED
    BY <1>1, <1>3, <2>1, <2>2 DEF PutsOf
<1> DEFINE Failing == {m \in 0..l : f[m] \notin Tables}
<1>5. Failing \in SUBSET Nat
  OBVIOUS
<1>6. ASSUME Failing # {} PROVE FALSE
  <2>1. PICK m \in Failing : \A j \in Failing : m <= j
    <3> HIDE DEF Failing
    <3>1. QED
      BY <1>5, <1>6, Least
  <2>2. m \in 0..l /\ f[m] \notin Tables
    BY <2>1
  <2>3. m # 0
    BY <1>4, <2>2
  <2>4. m \in 1..l /\ m - 1 \in 0..l /\ m - 1 < m
    BY <2>2, <2>3
  <2>5. m - 1 \notin Failing
    <3> HIDE DEF Failing
    <3>1. QED
      BY <1>5, <2>1, <2>4
  <2>6. f[m - 1] \in Tables
    BY <2>4, <2>5
  <2>7. /\ ws[m].id \in Ids /\ ws[m].ver \in Nat /\ ws[m].blob \in Nat
        /\ f[m] = Put(f[m - 1], ws[m])
    BY <1>1, <1>4, <2>4
  <2>8. f[m] \in Tables
    BY <2>6, <2>7, PutIs, SMTT(30)
  <2>9. QED
    BY <2>2, <2>8
<1>7. l \in 0..l /\ l \notin Failing
  BY <1>6
<1>8. QED
  BY <1>2, <1>7

(* last write wins by version: the index takes no version back.            *)
LEMMA AbsorbedIs ==
  ASSUME NEW table \in [Ids -> Nat], NEW states \in Seq(Value)
  PROVE  /\ Absorbed(table, states) \in [Ids -> Nat]
         /\ \A i \in Ids : table[i] <= Absorbed(table, states)[i]
         /\ \A k \in 1..Len(states) :
              states[k].ver <= Absorbed(table, states)[states[k].id]
<1>1. PICK l \in Nat : l = Len(states)
  OBVIOUS
<1>2. \A k \in 1..l : states[k] \in Value
  BY <1>1
<1>3. Range(states) = {states[k] : k \in 1..l}
  BY <1>1, RangeEquality
<1> DEFINE S(i) == {table[i]} \union {s.ver : s \in {t \in Range(states) : t.id = i}}
           f == [k \in 1..l |-> states[k].ver]
<1>4. f \in [1..l -> Nat]
  BY <1>2 DEF Value
<1>5. ASSUME NEW i \in Ids
      PROVE  Max(S(i)) \in Nat /\ table[i] <= Max(S(i)) /\ \A x \in S(i) : x <= Max(S(i))
  <2>1. S(i) \subseteq {table[i]} \union {f[k] : k \in 1..l} /\ table[i] \in S(i)
    BY <1>3
  <2>2. table[i] \in Nat
    OBVIOUS
  <2> HIDE DEF S, f
  <2>3. QED
    BY <1>1, <1>4, <2>1, <2>2, MaxOfSeq, SMTT(30)
<1>6. Absorbed(table, states) = [i \in Ids |-> Max(S(i))]
  BY DEF Absorbed
<1>7. ASSUME NEW k \in 1..l
      PROVE  states[k].id \in Ids /\ states[k].ver \in S(states[k].id)
  BY <1>2, <1>3 DEF Value
<1> HIDE DEF S
<1>8. QED
  BY <1>1, <1>5, <1>6, <1>7

(* What DiskKvStore::open reads back: the readable prefix of the file, and *)
(* the index of its versions.                                              *)
LEMMA ReplayIs ==
  ASSUME NEW data \in Seq(Whole(Value))
  PROVE  /\ DGood(data) \in Seq(Whole(Value)) /\ Prefix(data, DGood(data))
         /\ DStates(data) \in Seq(Value) /\ Replay(data) \in [Ids -> Nat]
<1>1. DGood(data) \in Seq(Whole(Value)) /\ Prefix(data, DGood(data))
  BY PrefixIs DEF DGood, DReadable, ReadableAt
<1>2. PICK n \in 0..Len(data) : /\ Len(DGood(data)) = n
                                /\ \A k \in 1..n : DGood(data)[k] = data[k]
  BY <1>1 DEF Prefix
<1>3. DOMAIN DGood(data) = 1..n
  BY <1>1, <1>2
<1>4. n \in Nat /\ \A k \in 1..n : k \in 1..Len(data) /\ data[k].rec \in Value
  <2>1. \A k \in 1..Len(data) : data[k] \in Whole(Value)
    OBVIOUS
  <2>2. \A k \in 1..Len(data) : data[k].rec \in Value
    BY <2>1, PieceIs DEF Whole
  <2>3. QED
    BY <1>2, <2>2
<1>5. DStates(data) = [k \in 1..n |-> data[k].rec]
  BY <1>3 DEF DStates
<1>6. DStates(data) \in [1..n -> Value]
  BY <1>4, <1>5
<1>7. DStates(data) \in Seq(Value)
  BY <1>4, <1>6
<1>8. NoVersions \in [Ids -> Nat]
  BY DEF NoVersions
<1>9. QED
  BY <1>1, <1>7, <1>8, AbsorbedIs DEF Replay

(* Some of the dirty writes, listed.                                       *)
LEMMA DirtyListed ==
  ASSUME IsFiniteSet(Ids), dirty \in [Ids -> Value \union {None}],
         NEW taken \in SUBSET Dirty
  PROVE  SetToSeq(taken) \in Seq(Value) /\ (taken # {} => SetToSeq(taken) # <<>>)
<1> DEFINE D == {dirty[i] : i \in Ids}
<1>1. dirty \in Surjection(Ids, D)
  BY DEF Surjection
<1>2. IsFiniteSet(D)
  BY <1>1, FS_Surjection
<1>3. taken \in SUBSET D /\ taken \in SUBSET Value
  BY DEF Dirty
<1>4. IsFiniteSet(taken)
  BY <1>2, <1>3, FS_Subset
<1>5. Cardinality(taken) \in Nat /\ ExistsBijection(1..Cardinality(taken), taken)
  BY <1>4, FS_CardinalityType
<1>6. PICK n \in Nat : n = Cardinality(taken)
  BY <1>5
<1>7. \E f \in [1..n -> taken] : IsInjective(f)
  BY <1>5, <1>6 DEF ExistsBijection, Bijection, Injection, IsInjective
<1>8. SetToSeq(taken) = CHOOSE f \in [1..n -> taken] : IsInjective(f)
  BY <1>6 DEF SetToSeq
<1>9. SetToSeq(taken) \in [1..n -> taken]
  BY <1>7, <1>8
<1>10. SetToSeq(taken) \in [1..n -> Value]
  BY <1>3, <1>9
<1>11. SetToSeq(taken) \in Seq(Value) /\ Len(SetToSeq(taken)) = n
  BY <1>10, <1>6, SeqDef
<1>12. taken # {} => n # 0
  BY <1>4, <1>6, FS_EmptySet
<1>13. QED
  BY <1>11, <1>12, EmptySeq

(* The records a batch becomes: consecutive LSNs from next_lsn on.         *)
LEMMA StampedIs ==
  ASSUME NEW ws \in Seq(Value), nextLsn \in Nat \ {0}
  PROVE  /\ Stamped(ws) \in Seq(Records) /\ Len(Stamped(ws)) = Len(ws)
         /\ \A k \in 1..Len(ws) : Stamped(ws)[k].lsn = nextLsn + k - 1
<1>1. PICK l \in Nat : l = Len(ws)
  OBVIOUS
<1>2. DOMAIN ws = 1..l /\ \A k \in 1..l : ws[k] \in Value
  BY <1>1
<1>3. Stamped(ws) = [k \in 1..l |-> [lsn |-> nextLsn + k - 1, id |-> ws[k].id,
                                     ver |-> ws[k].ver, blob |-> ws[k].blob]]
  BY <1>2 DEF Stamped
<1>4. \A k \in 1..l : Stamped(ws)[k] \in Records
  <2>1. \A k \in 1..l : /\ nextLsn + k - 1 \in Nat /\ ws[k].id \in Ids
                        /\ ws[k].ver \in Nat /\ ws[k].blob \in Nat
    BY <1>2 DEF Value
  <2>2. QED
    BY <1>3, <2>1 DEF Records
<1>5. Stamped(ws) \in [1..l -> Records]
  BY <1>3, <1>4
<1>6. PICK q \in [1..l -> Records] : q = Stamped(ws)
  BY <1>5
<1>7. q \in Seq(Records) /\ Len(q) = l
  BY <1>1, <1>6
<1>8. \A k \in 1..l : Stamped(ws)[k].lsn = nextLsn + k - 1
  BY <1>3
<1>9. QED
  BY <1>1, <1>6, <1>7, <1>8

-----------------------------------------------------------------------------
(* The log: its types, and what makes them inductive                       *)

(* Records carry LSNs from 1 on; the header none.                          *)
LogRecords == {r \in Records : r.lsn > 0}

(* The records a segment may hold, its header included.                    *)
Contents == LogRecords \union {Header.rec}

(* What a segment is made of.                                              *)
SegPiece == Whole(Contents)

(* What the writer's buffer is made of.                                    *)
LogPiece == Pieces(LogRecords)

(* A segment: pieces of records, except that the first may be the header.  *)
SegmentsOf(Q) ==
  {d \in Seq(Whole(Q \union {Header.rec})) : \A k \in 2..Len(d) : d[k].rec \in Q}

(* The contents a segment may have.                                        *)
Segments == SegmentsOf(LogRecords)

(* A file: what the operating system has of it, and what is stable.        *)
File     == [data : Segments, hard : Segments]

(* Where the log may be in one of its calls.                               *)
WalSteps == {"closed", "header", "hsync", "recover", "rsync", "rdir", "ready",
             "write", "flush", "sync", "ckflush", "ckwrite", "cksync",
             "ckrename", "ckdir", "ckreopen"}

(* The steps of Wal::open and of recover.                                  *)
AtStart  == {"closed", "header", "hsync", "recover", "rsync", "rdir"}

(* The types of the log's variables.                                       *)
WalTypes ==
  /\ file \in [Inodes -> File]
  /\ active \in Inodes \union {0} /\ temp \in Inodes \union {0}
  /\ handle \in Inodes \union {0} /\ stale \in SUBSET (Inodes \union {0})
  /\ wbuf \in Seq(LogPiece)
  /\ lastLsn \in Nat /\ upTo \in Nat /\ floor \in Nat /\ trimmed \in Nat
  /\ wpc \in WalSteps /\ wans \in {"none", "ok", "err", "started"}
  /\ todo \in Seq(LogRecords) /\ given \in Seq(LogRecords)
  /\ live \in Seq(LogRecords) /\ recovered \in Seq(LogRecords)
  /\ acked \in SUBSET LogRecords /\ sure \in SUBSET acked
  /\ answered \in SUBSET LogRecords /\ scarred \in BOOLEAN

(* Which file has which name: the segment, the temporary file, the         *)
(* writer's open handle, and the files that are only in the directory on   *)
(* disk.                                                                   *)
Names ==
  /\ handle = 0 <=> wpc = "closed"
  /\ wpc # "closed" => active # 0
  /\ temp # 0 => temp \notin {active, handle} \union stale
  /\ wpc \in {"cksync", "ckrename"} => temp # 0
  /\ wpc \in AtStart \/ wans = "started" =>
       wbuf = <<>> /\ (wpc # "closed" => handle = active)
  /\ wans = "started" => wpc = "ready"
  /\ wpc = "ckreopen" => stale = {}
  /\ todo # <<>> <=> wpc = "write"
  /\ active = 0 => \A i \in Inodes : file[i] = Empty

(* The BufWriter goes on where the file it writes ends, and holds no more  *)
(* than its capacity.                                                      *)
WBuffered == Joins(DataOf(handle), wbuf) /\ CellsIn(wbuf) <= BufCapacity

(* The types of the log are inductive with Names and WBuffered.            *)
WalInv == WalTypes /\ Names /\ WBuffered

(* The fields of a log record.                                             *)
LEMMA RecordIs ==
  /\ \A r \in Contents : r.lsn \in Nat
  /\ LogRecords \subseteq Contents /\ Header.rec \in Contents
  /\ \A r \in LogRecords : /\ r.lsn \in Nat /\ r.id \in Ids /\ r.ver \in Nat /\ r.blob \in Nat
                           /\ r.lsn > 0 /\ r # Header.rec
  /\ LogRecords \subseteq Records
  BY HeaderIs DEF Contents, LogRecords, Records

(* The frame of a record is one piece, from its first cell to its last.    *)
LEMMA FrameIs ==
  \A r \in LogRecords :
    /\ Frame(r) \in LogPiece /\ Frame(r) \in SegPiece
    /\ Frame(r).rec = r /\ Frame(r).from = 0
    /\ WalCells(r) \in Nat /\ Size(Frame(r)) = WalCells(r)
<1> SUFFICES ASSUME NEW r \in LogRecords
             PROVE  /\ Frame(r) \in LogPiece /\ Frame(r) \in SegPiece
                    /\ Frame(r).rec = r /\ Frame(r).from = 0
                    /\ WalCells(r) \in Nat /\ Size(Frame(r)) = WalCells(r)
  OBVIOUS
<1>1. PICK n \in Nat : n = WalCells(r) /\ n > 0
  BY RecordIs DEF WalCells
<1>2. Frame(r) = [rec |-> r, len |-> n, from |-> 0, to |-> n]
  BY <1>1 DEF Frame, WholePiece
<1>3. PICK p : p = Frame(r)
  OBVIOUS
<1>4. p.rec = r /\ p.len = n /\ p.from = 0 /\ p.to = n
  BY <1>2, <1>3
<1>5. /\ p \in [rec : LogRecords, len : Nat, from : Nat, to : Nat]
      /\ p \in [rec : Contents, len : Nat, from : Nat, to : Nat]
  BY <1>1, <1>2, <1>3, RecordIs
<1>6. p.from < p.to /\ p.to <= p.len
  BY <1>1, <1>4
<1>7. QED
  BY <1>1, <1>3, <1>4, <1>5, <1>6 DEF LogPiece, SegPiece, Whole, Pieces, Size

(* The header is a piece a segment may hold.                               *)
LEMMA HeaderPiece == Header \in SegPiece /\ Header \in Pieces({Header.rec})
<1>1. PICK p : p = Header
  OBVIOUS
<1>2. p.rec = Header.rec /\ p.len = 2 /\ p.from = 0 /\ p.to = 2
  BY <1>1, HeaderIs
<1>3. /\ p \in [rec : {Header.rec}, len : Nat, from : Nat, to : Nat]
      /\ p \in [rec : Contents, len : Nat, from : Nat, to : Nat]
  BY <1>1, HeaderIs, RecordIs
<1>4. p.from < p.to /\ p.to <= p.len
  BY <1>2
<1>5. QED
  BY <1>1, <1>2, <1>3, <1>4 DEF SegPiece, Whole, Pieces

(* What the buffer holds, a segment may hold.                              *)
LEMMA LogPieces == \A ps \in Seq(LogPiece) : ps \in Seq(Pieces(Contents))
<1>1. LogPiece \subseteq Pieces(Contents)
  BY RecordIs DEF LogPiece, Pieces
<1>2. QED
  BY <1>1, SeqMonotonic

(* A sequence of one element.                                              *)
LEMMA One ==
  ASSUME NEW S, NEW x \in S
  PROVE  <<x>> \in Seq(S) /\ Len(<<x>>) = 1 /\ <<x>>[1] = x /\ <<x>> # <<>>
<1>1. <<x>> = Append(<<>>, x) /\ <<>> \in Seq(S) /\ Len(<<>>) = 0
  BY EmptySeq
<1>2. QED
  BY <1>1, AppendProperties

(* An empty buffer goes on anywhere.                                       *)
LEMMA JoinsNone == \A data : Joins(data, <<>>)
<1>1. Len(<<>>) = 0 /\ \A k \in 2..0 : FALSE
  BY EmptySeq
<1>2. QED
  BY <1>1 DEF Joins

(* An empty file is a segment.                                             *)
LEMMA EmptyOf == \A Q : <<>> \in SegmentsOf(Q)
<1>1. /\ \A Q : <<>> \in Seq(Whole(Q \union {Header.rec}))
      /\ \A Q : \A k \in 2..Len(<<>>) : <<>>[k].rec \in Q
  BY EmptySeq
<1>2. QED
  BY <1>1 DEF SegmentsOf

(* A file just created is empty, and so is what is stable of it.           *)
LEMMA EmptyFile == Empty \in File /\ Empty.data = <<>> /\ Empty.hard = <<>>
  BY EmptyOf DEF Empty, File, Segments

(* Where the writer's data are.                                            *)
LEMMA HandleIs ==
  ASSUME WalInv, wpc # "closed"
  PROVE  /\ handle \in Inodes /\ DataOf(handle) = file[handle].data
         /\ DataOf(handle) \in Segments /\ file[handle].hard \in Segments
         /\ active \in Inodes /\ DataOf(active) = file[active].data
         /\ DataOf(active) \in Segments
  BY DEF WalInv, WalTypes, Names, DataOf, File

(* write(2) changes what the operating system has of one file.             *)
LEMMA WriteIs ==
  ASSUME WalTypes, NEW i \in Inodes, NEW d \in Segments, Write(i, d)
  PROVE  /\ file' \in [Inodes -> File]
         /\ file'[i].data = d /\ file'[i].hard = file[i].hard
         /\ \A j \in Inodes : j # i => file'[j] = file[j]
<1>1. file \in [Inodes -> File] /\ file' = [file EXCEPT ![i] = [data |-> d, hard |-> file[i].hard]]
  BY DEF Write, WalTypes
<1>2. [data |-> d, hard |-> file[i].hard] \in File
  BY <1>1 DEF File
<1>3. QED
  BY <1>1, <1>2

(* fsync makes that stable.                                                *)
LEMMA SyncIs ==
  ASSUME WalTypes, NEW i \in Inodes, Sync(i)
  PROVE  /\ file' \in [Inodes -> File]
         /\ file'[i].data = file[i].data /\ file'[i].hard = file[i].data
         /\ \A j \in Inodes : j # i => file'[j] = file[j]
<1>1. /\ file \in [Inodes -> File]
      /\ file' = [file EXCEPT ![i] = [data |-> file[i].data, hard |-> file[i].data]]
  BY DEF Sync, WalTypes
<1>2. [data |-> file[i].data, hard |-> file[i].data] \in File
  BY <1>1 DEF File
<1>3. QED
  BY <1>1, <1>2

(* A file that nothing names any more is gone; the others stay.            *)
LEMMA ReclaimedIs ==
  ASSUME NEW f \in [Inodes -> File], NEW inUse
  PROVE  /\ Reclaimed(f, inUse) \in [Inodes -> File]
         /\ \A j \in Inodes : Reclaimed(f, inUse)[j] = f[j] \/ Reclaimed(f, inUse)[j] = Empty
         /\ \A j \in Inodes : j \in inUse => Reclaimed(f, inUse)[j] = f[j]
  BY EmptyFile DEF Reclaimed

-----------------------------------------------------------------------------
(* Segments over a set of records                                          *)

(* Elements and supersets of SegmentsOf(Q).                                *)
LEMMA PiecesOf ==
  ASSUME NEW Q
  PROVE  /\ \A d \in SegmentsOf(Q) : /\ d \in Seq(Whole(Q \union {Header.rec}))
                                    /\ d \in Seq(Pieces(Q \union {Header.rec}))
         /\ \A ps \in Seq(Pieces(Q)) : ps \in Seq(Pieces(Q \union {Header.rec}))
         /\ \A p \in Pieces(Q) : p.rec \in Q
<1>1. /\ Whole(Q \union {Header.rec}) \subseteq Pieces(Q \union {Header.rec})
      /\ Pieces(Q) \subseteq Pieces(Q \union {Header.rec})
  BY DEF Whole, Pieces
<1>2. QED
  BY <1>1, SeqMonotonic, PieceIs DEF SegmentsOf

(* A segment as a sequence of pieces.                                      *)
LEMMA SegmentIs ==
  \A d \in Segments : d \in Seq(SegPiece) /\ d \in Seq(Whole(Contents)) /\ d \in Seq(Pieces(Contents))
  BY PiecesOf DEF Segments, SegmentsOf, SegPiece, Contents

(* A piece of a log record, among all pieces.                              *)
LEMMA LogPieceIs ==
  \A p \in LogPiece : p \in Pieces(Contents) /\ p.rec \in LogRecords
  BY RecordIs DEF LogPiece, Pieces

(* Writing the end of a frame after its beginning keeps a segment one.     *)
LEMMA ExtendedOf ==
  ASSUME NEW Q, NEW data \in SegmentsOf(Q), NEW ps \in Seq(Pieces(Q)), Joins(data, ps)
  PROVE  Extended(data, ps) \in SegmentsOf(Q)
<1> DEFINE e == Extended(data, ps)
           R == Q \union {Header.rec}
<1>1. data \in Seq(Whole(R)) /\ ps \in Seq(Pieces(R))
  BY PiecesOf
<1> HIDE DEF R
<1>2. /\ Off(data, ps) \in 0..Len(data) /\ e \in Seq(Whole(R))
      /\ Len(e) = Off(data, ps) + Len(ps)
      /\ \A j \in 1..Off(data, ps) : e[j] = data[j]
      /\ \A k \in 1..Len(ps) : e[Off(data, ps) + k] = [ps[k] EXCEPT !.from = 0]
  BY <1>1, ExtendedIs
<1> HIDE DEF e
<1>3. PICK o \in 0..Len(data) : o = Off(data, ps)
  BY <1>2
<1>4. PICK n \in Nat : n = Len(ps)
  OBVIOUS
<1>5. Len(data) \in Nat
  BY <1>1
<1>6. ASSUME NEW k \in 2..Len(e) PROVE e[k].rec \in Q
  <2>1. CASE k <= o
    <3>1. k \in 1..o /\ k \in 2..Len(data)
      BY <1>5, <2>1
    <3>2. e[k] = data[k]
      BY <1>2, <1>3, <3>1
    <3>3. QED
      BY <3>1, <3>2 DEF SegmentsOf
  <2>2. CASE k > o
    <3>1. k - o \in 1..n /\ o + (k - o) = k
      BY <1>2, <1>3, <1>4, <1>5, <2>2
    <3>2. e[k] = [ps[k - o] EXCEPT !.from = 0]
      BY <1>2, <1>3, <1>4, <3>1
    <3>3. ps[k - o] \in Pieces(Q)
      BY <1>4, <3>1
    <3>4. ps[k - o].rec \in Q /\ ps[k - o] \in [rec : Q, len : Nat, from : Nat, to : Nat]
      BY <3>3 DEF Pieces
    <3>5. QED
      BY <3>2, <3>4
  <2>3. QED
    BY <1>5, <2>1, <2>2
<1>7. QED
  BY <1>2, <1>6 DEF SegmentsOf, R, e

(* What reached a file of a write that stopped.                            *)
LEMMA CutIs ==
  ASSUME NEW R, NEW data \in Seq(Whole(R)), NEW s \in Splits(data), Cuts \subseteq Nat
  PROVE  /\ s.done \in Seq(Whole(R)) /\ Len(s.done) \in 0..Len(data)
         /\ \A k \in 1..Len(s.done) :
              s.done[k].rec = data[k].rec /\ s.done[k].len = data[k].len
         /\ \A k \in 1..Len(s.done) : k < Len(s.done) => s.done[k] = data[k]
<1>1. data \in Seq(Pieces(R))
  <2>1. Whole(R) \subseteq Pieces(R)
    BY DEF Whole
  <2>2. QED
    BY <2>1, SeqMonotonic
<1>2. s.done \in Seq(Pieces(R)) /\ \E n, m \in 0..Len(data) : SplitAt(data, s, n, m)
  BY <1>1, SplitIs
<1>3. PICK n, m \in 0..Len(data) : SplitAt(data, s, n, m)
  BY <1>2
<1>4. /\ Len(s.done) = n
      /\ \A k \in 1..n : /\ s.done[k].rec = data[k].rec /\ s.done[k].len = data[k].len
                         /\ s.done[k].from = data[k].from
                         /\ k <= m => s.done[k] = data[k]
      /\ m = n \/ n = m + 1
  BY <1>3 DEF SplitAt
<1>5. Len(data) \in Nat
  BY <1>1
<1>6. ASSUME NEW k \in 1..n PROVE s.done[k] \in Whole(R)
  <2>1. k \in 1..Len(data) /\ k \in 1..Len(s.done)
    BY <1>3, <1>4, <1>5
  <2>2. data[k].from = 0 /\ s.done[k] \in Pieces(R)
    BY <1>2, <2>1 DEF Whole
  <2>3. QED
    BY <1>4, <2>2 DEF Whole
<1>7. s.done \in Seq(Whole(R))
  BY <1>2, <1>4, <1>6, SeqIntro
<1>8. ASSUME NEW k \in 1..n, k < n PROVE s.done[k] = data[k]
  <2>1. k <= m
    BY <1>3, <1>4, <1>5, <1>8
  <2>2. QED
    BY <1>4, <2>1
<1>9. QED
  BY <1>3, <1>4, <1>7, <1>8

(* Cut short anywhere, a segment holds no other records.                   *)
LEMMA CutOf ==
  ASSUME NEW Q, NEW data \in SegmentsOf(Q), NEW s \in Splits(data), Cuts \subseteq Nat
  PROVE  s.done \in SegmentsOf(Q)
<1> DEFINE R == Q \union {Header.rec}
<1>1. data \in Seq(Whole(R))
  BY PiecesOf
<1> HIDE DEF R
<1>2. /\ s.done \in Seq(Whole(R)) /\ Len(s.done) \in 0..Len(data)
      /\ \A k \in 1..Len(s.done) : s.done[k].rec = data[k].rec
  BY <1>1, CutIs
<1>3. Len(data) \in Nat
  BY <1>1
<1>4. \A k \in 2..Len(s.done) : k \in 1..Len(s.done) /\ k \in 2..Len(data)
  BY <1>2, <1>3
<1>5. \A k \in 2..Len(s.done) : s.done[k].rec \in Q
  BY <1>2, <1>4 DEF SegmentsOf
<1>6. QED
  BY <1>2, <1>5 DEF SegmentsOf, R

(* Nor does its readable prefix.                                           *)
LEMMA GoodOf ==
  ASSUME NEW Q, NEW data \in SegmentsOf(Q), HEADER_LEN < U32
  PROVE  Good(data) \in SegmentsOf(Q)
<1> DEFINE R == Q \union {Header.rec}
<1>1. data \in Seq(Whole(R))
  BY PiecesOf
<1> HIDE DEF R
<1>2. /\ Good(data) \in Seq(Whole(R)) /\ Len(Good(data)) \in 0..Len(data)
      /\ \A k \in 1..Len(Good(data)) : Good(data)[k] = data[k]
  BY <1>1, GoodIs
<1>3. Len(data) \in Nat
  BY <1>1
<1>4. \A k \in 2..Len(Good(data)) : k \in 1..Len(Good(data)) /\ k \in 2..Len(data)
  BY <1>2, <1>3
<1>5. \A k \in 2..Len(Good(data)) : Good(data)[k].rec \in Q
  BY <1>2, <1>4 DEF SegmentsOf
<1>6. QED
  BY <1>2, <1>5 DEF SegmentsOf, R

(* Nor the records recover returns.                                        *)
LEMMA LogOf ==
  ASSUME NEW Q, NEW data \in SegmentsOf(Q), HEADER_LEN < U32
  PROVE  Log(data) \in Seq(Q)
<1> DEFINE R == Q \union {Header.rec}
<1>1. data \in Seq(Whole(R))
  BY PiecesOf
<1> HIDE DEF R
<1>2. /\ Log(data) \in Seq(R)
      /\ \A k \in 1..Len(Log(data)) : k + 1 \in 1..Len(data) /\ Log(data)[k] = data[k + 1].rec
  BY <1>1, LogIs
<1>3. \A k \in 1..Len(Log(data)) : k + 1 \in 2..Len(data)
  BY <1>1, <1>2
<1>4. \A k \in 1..Len(Log(data)) : Log(data)[k] \in Q
  BY <1>2, <1>3 DEF SegmentsOf
<1>5. QED
  BY <1>2, <1>4, SeqIntro

(* A new segment is its header.                                            *)
LEMMA OneOf ==
  /\ \A Q : <<Header>> \in SegmentsOf(Q)
  /\ Len(<<Header>>) = 1 /\ <<Header>>[1] = Header
<1>1. Len(<<Header>>) = 1 /\ <<Header>>[1] = Header
  BY HeaderPiece, One
<1>2. ASSUME NEW Q PROVE <<Header>> \in SegmentsOf(Q)
  <2>1. Header \in Whole(Q \union {Header.rec})
    <3>1. Header \in Pieces({Header.rec}) /\ Header.from = 0
      BY HeaderPiece, HeaderIs
    <3>2. Pieces({Header.rec}) \subseteq Pieces(Q \union {Header.rec})
      BY DEF Pieces
    <3>3. QED
      BY <3>1, <3>2 DEF Whole
  <2>2. <<Header>> \in Seq(Whole(Q \union {Header.rec}))
    BY <2>1, One
  <2>3. \A k \in 2..Len(<<Header>>) : <<Header>>[k].rec \in Q
    BY <1>1
  <2>4. QED
    BY <2>2, <2>3 DEF SegmentsOf
<1>3. QED
  BY <1>1, <1>2

(* ExtendedOf, for every log record.                                       *)
LEMMA SegmentExtended ==
  ASSUME NEW data \in Segments, NEW ps \in Seq(LogPiece), Joins(data, ps)
  PROVE  Extended(data, ps) \in Segments
  BY ExtendedOf DEF Segments, LogPiece

(* CutOf, for every log record.                                            *)
LEMMA SegmentCut ==
  ASSUME NEW data \in Segments, NEW s \in Splits(data), Cuts \subseteq Nat
  PROVE  s.done \in Segments
  BY CutOf DEF Segments

(* GoodOf, for every log record.                                           *)
LEMMA SegmentGood ==
  ASSUME NEW data \in Segments, HEADER_LEN < U32
  PROVE  Good(data) \in Segments
  BY GoodOf DEF Segments

(* LogOf, for every log record.                                            *)
LEMMA SegmentLog ==
  ASSUME NEW data \in Segments, HEADER_LEN < U32
  PROVE  Log(data) \in Seq(LogRecords)
  BY LogOf DEF Segments

(* OneOf, for every log record.                                            *)
LEMMA SegmentOne ==
  /\ <<Header>> \in Segments /\ Len(<<Header>>) = 1 /\ <<Header>>[1] = Header
  /\ <<Header>> \in Seq(Pieces({Header.rec}))
  BY OneOf, HeaderPiece, One DEF Segments

(* The temp segment of a checkpoint.                                       *)
LEMMA FramesAre ==
  ASSUME NEW R, R \subseteq LogRecords, NEW recs \in Seq(R)
  PROVE  /\ Frames(recs) \in Seq(Whole(R)) /\ Len(Frames(recs)) = Len(recs)
         /\ \A k \in 1..Len(recs) : Frames(recs)[k] = Frame(recs[k])
<1>1. PICK n \in Nat : n = Len(recs) /\ DOMAIN recs = 1..n
  OBVIOUS
<1>2. Frames(recs) = [k \in 1..n |-> Frame(recs[k])]
  BY <1>1 DEF Frames
<1>3. ASSUME NEW k \in 1..n PROVE Frame(recs[k]) \in Whole(R)
  <2>1. recs[k] \in R /\ recs[k] \in LogRecords
    BY <1>1
  <2>2. /\ Frame(recs[k]) \in LogPiece /\ Frame(recs[k]).rec = recs[k]
        /\ Frame(recs[k]).from = 0
    BY <2>1, FrameIs
  <2>3. PICK p : p = Frame(recs[k])
    OBVIOUS
  <2>4. /\ p \in [rec : LogRecords, len : Nat, from : Nat, to : Nat] /\ p.rec \in R
        /\ p.from < p.to /\ p.to <= p.len /\ p.from = 0
    BY <2>1, <2>2, <2>3 DEF LogPiece, Pieces
  <2>5. p \in [rec : R, len : Nat, from : Nat, to : Nat]
    BY <2>4
  <2>6. QED
    BY <2>3, <2>4, <2>5 DEF Whole, Pieces
<1>4. Frames(recs) \in [1..n -> Whole(R)]
  BY <1>2, <1>3
<1>5. QED
  BY <1>1, <1>2, <1>4

(* The temporary file of a checkpoint: the header, then the frames of the  *)
(* records kept, one by one.                                               *)
LEMMA TempOf ==
  ASSUME NEW Q, Q \subseteq LogRecords, NEW recs \in Seq(Q)
  PROVE  LET d == <<Header>> \o Frames(recs)
         IN  /\ d \in SegmentsOf(Q)
             /\ Len(d) = Len(recs) + 1 /\ d[1] = Header
             /\ \A k \in 1..Len(recs) : d[k + 1] = Frame(recs[k]) /\ d[k + 1].rec = recs[k]
<1> DEFINE d == <<Header>> \o Frames(recs)
           R == Q \union {Header.rec}
<1>1. /\ Frames(recs) \in Seq(Whole(Q)) /\ Len(Frames(recs)) = Len(recs)
      /\ \A k \in 1..Len(recs) : Frames(recs)[k] = Frame(recs[k])
  BY FramesAre
<1>2. Whole(Q) \subseteq Whole(R)
  BY DEF Whole, Pieces
<1>3. /\ <<Header>> \in Seq(Whole(R)) /\ Len(<<Header>>) = 1
      /\ <<Header>>[1] = Header
  BY OneOf DEF SegmentsOf
<1>4. Frames(recs) \in Seq(Whole(R))
  BY <1>1, <1>2, SeqMonotonic
<1> HIDE DEF R
<1>5. /\ d \in Seq(Whole(R)) /\ Len(d) = Len(<<Header>>) + Len(Frames(recs))
      /\ \A i \in 1..(Len(<<Header>>) + Len(Frames(recs))) :
            d[i] = IF i <= Len(<<Header>>) THEN <<Header>>[i]
                   ELSE Frames(recs)[i - Len(<<Header>>)]
  BY <1>3, <1>4, ConcatProperties
<1> HIDE DEF d
<1>6. Len(recs) \in Nat /\ Len(d) = Len(recs) + 1
  BY <1>1, <1>3, <1>5
<1>7. d[1] = Header
  <2>1. 1 \in 1..(Len(<<Header>>) + Len(Frames(recs))) /\ 1 <= Len(<<Header>>)
    BY <1>1, <1>3, <1>6
  <2>2. QED
    BY <1>3, <1>5, <2>1
<1>8. ASSUME NEW k \in 1..Len(recs)
      PROVE  d[k + 1] = Frame(recs[k]) /\ d[k + 1].rec = recs[k]
  <2>1. /\ k + 1 \in 1..(Len(<<Header>>) + Len(Frames(recs)))
        /\ ~(k + 1 <= Len(<<Header>>)) /\ (k + 1) - Len(<<Header>>) = k
    BY <1>1, <1>3, <1>6
  <2>2. d[k + 1] = Frames(recs)[k]
    BY <1>5, <2>1
  <2>3. recs[k] \in LogRecords
    OBVIOUS
  <2>4. QED
    BY <1>1, <2>2, <2>3, FrameIs
<1>9. d \in SegmentsOf(Q)
  <2>1. ASSUME NEW k \in 2..Len(d) PROVE d[k].rec \in Q
    <3>1. k - 1 \in 1..Len(recs) /\ (k - 1) + 1 = k
      BY <1>6
    <3>2. d[k].rec = recs[k - 1]
      BY <1>8, <3>1
    <3>3. QED
      BY <3>1, <3>2
  <2>2. QED
    BY <1>5, <2>1 DEF SegmentsOf, R
<1>10. QED
  BY <1>6, <1>7, <1>8, <1>9 DEF d

(* What a power loss leaves of a file.                                     *)
LEMMA ImagesAre ==
  ASSUME NEW f, NEW d \in Images(f)
  PROVE  d = f.data \/ d = f.hard \/ \E s \in Splits(f.data) : d = s.done
  BY DEF Images

(* What a power loss leaves of a file holds no other records.              *)
LEMMA ImageOf ==
  ASSUME NEW Q, NEW f, f.data \in SegmentsOf(Q), f.hard \in SegmentsOf(Q),
         NEW d \in Images(f), Cuts \subseteq Nat
  PROVE  d \in SegmentsOf(Q)
  BY ImagesAre, CutOf

(* A bound on what is in a segment that holds of more holds still.         *)
LEMMA OfMore ==
  ASSUME NEW Q, NEW R, Q \subseteq R
  PROVE  SegmentsOf(Q) \subseteq SegmentsOf(R) /\ Seq(Q) \subseteq Seq(R)
         /\ Seq(Pieces(Q)) \subseteq Seq(Pieces(R))
<1>1. Pieces(Q) \subseteq Pieces(R) /\ Whole(Q \union {Header.rec}) \subseteq Whole(R \union {Header.rec})
  BY DEF Pieces, Whole
<1>2. QED
  BY <1>1, SeqMonotonic DEF SegmentsOf

(* ImageOf, for every log record.                                          *)
LEMMA ImageSegment ==
  ASSUME NEW f \in File, NEW d \in Images(f), Cuts \subseteq Nat
  PROVE  d \in Segments
  BY ImagesAre, SegmentCut DEF File

(* Writing nothing leaves every piece of the file untouched.               *)
LEMMA ExtendedNone ==
  ASSUME NEW data PROVE Off(data, <<>>) = Len(data)
  BY DEF Off

(* A write that stops and is taken up again where it stopped leaves the    *)
(* same records as one that did not stop.                                  *)
LEMMA SplitJoins ==
  ASSUME NEW R, NEW data \in Seq(Whole(R)), NEW ps \in Seq(Pieces(R)), Joins(data, ps),
         NEW s \in Splits(ps), Cuts \subseteq Nat
  PROVE  LET d == Extended(data, s.done)
             e == Extended(data, ps)
             f == Extended(d, s.rest)
         IN  /\ Joins(data, s.done) /\ Joins(d, s.rest)
             /\ Len(f) = Len(e) /\ \A j \in 1..Len(e) : f[j].rec = e[j].rec
             /\ Len(d) \in 0..Len(e) /\ \A j \in 1..Len(d) : d[j].rec = e[j].rec
             /\ \A k \in 1..Len(s.rest) :
                  \E j \in 1..Len(ps) : s.rest[k].rec = ps[j].rec
<1> DEFINE d == Extended(data, s.done)
           e == Extended(data, ps)
           f == Extended(d, s.rest)
           done == s.done
           rest == s.rest
<1>1. done \in Seq(Pieces(R)) /\ rest \in Seq(Pieces(R))
  BY SplitIs
<1>2. PICK n, m \in 0..Len(ps) : SplitAt(ps, s, n, m)
  BY SplitIs
<1>3. PICK l \in Nat : l = Len(ps)
  OBVIOUS
<1>4. n \in Nat /\ m \in Nat /\ n <= l /\ m <= l
  BY <1>2, <1>3
<1>5. /\ Len(done) = n /\ Len(rest) = l - m
      /\ \A k \in 1..n : /\ done[k].rec = ps[k].rec /\ done[k].len = ps[k].len
                         /\ done[k].from = ps[k].from
                         /\ k <= m => done[k] = ps[k]
      /\ \A k \in 1..(l - m) : /\ rest[k].rec = ps[m + k].rec
                               /\ k > 1 => rest[k] = ps[m + k]
      /\ \/ m = n /\ (m < l => rest[1] = ps[m + 1])
         \/ n = m + 1 /\ done[n].to = rest[1].from /\ rest[1].from > 0
  BY <1>2, <1>3 DEF SplitAt
<1> HIDE DEF done, rest
<1>6. /\ \A k \in 2..l : ps[k].from = 0
      /\ ps # <<>> /\ ps[1].from > 0 =>
           data # <<>> /\ data[Len(data)].rec = ps[1].rec
                       /\ data[Len(data)].to = ps[1].from
  BY <1>3 DEF Joins
<1>7. Joins(data, done)
  <2>1. \A k \in 2..n : k \in 1..n /\ k \in 2..l
    BY <1>4
  <2>2. \A k \in 2..Len(done) : done[k].from = 0
    BY <1>5, <1>6, <2>1
  <2>3. done # <<>> => n > 0
    BY <1>1, <1>5
  <2>4. n > 0 => ps # <<>> /\ 1 \in 1..n
    BY <1>3, <1>4
  <2>5. QED
    BY <1>5, <1>6, <2>2, <2>3, <2>4 DEF Joins
<1>8. /\ Off(data, done) \in 0..Len(data)
      /\ d \in Seq(Whole(R))
      /\ Len(d) = Off(data, done) + Len(done)
      /\ \A j \in 1..Off(data, done) : d[j] = data[j]
      /\ \A k \in 1..Len(done) : d[Off(data, done) + k] = [done[k] EXCEPT !.from = 0]
  <2>1. /\ Off(data, done) \in 0..Len(data)
        /\ Extended(data, done) \in Seq(Whole(R))
        /\ Len(Extended(data, done)) = Off(data, done) + Len(done)
        /\ \A j \in 1..Off(data, done) : Extended(data, done)[j] = data[j]
        /\ \A k \in 1..Len(done) :
             Extended(data, done)[Off(data, done) + k] = [done[k] EXCEPT !.from = 0]
    BY <1>1, <1>7, ExtendedIs
  <2>2. d = Extended(data, done)
    BY DEF done
  <2>3. QED
    BY <2>1, <2>2, Zenon
<1>9. /\ Off(data, ps) \in 0..Len(data)
      /\ e \in Seq(Whole(R))
      /\ Len(e) = Off(data, ps) + Len(ps)
      /\ \A j \in 1..Off(data, ps) : e[j] = data[j]
      /\ \A k \in 1..Len(ps) : e[Off(data, ps) + k] = [ps[k] EXCEPT !.from = 0]
  BY ExtendedIs
<1> HIDE DEF d, e
<1>10. PICK o \in Nat : o = Off(data, ps)
  BY <1>9
<1>11. \A p \in Pieces(R) : /\ [p EXCEPT !.from = 0].rec = p.rec
                            /\ [p EXCEPT !.from = 0].to = p.to
  BY DEF Pieces
<1>12. \A k \in 1..n : done[k] \in Pieces(R)
  BY <1>1, <1>5
<1>13. \A k \in 1..l : ps[k] \in Pieces(R)
  BY <1>3
<1>14. n > 0 => Off(data, done) = o
  <2>1. n > 0 => 1 \in 1..n /\ done # <<>> /\ ps # <<>>
    BY <1>3, <1>4, <1>5, EmptySeq
  <2>2. n > 0 => done[1].from = ps[1].from
    BY <1>5, <2>1
  <2>3. QED
    BY <1>10, <2>1, <2>2 DEF Off
<1>15. ASSUME n > 0
       PROVE  /\ Len(d) = o + n
              /\ \A j \in 1..o : d[j] = data[j]
              /\ \A k \in 1..n : d[o + k].rec = ps[k].rec /\ d[o + k].to = done[k].to
  <2>1. Off(data, done) = o /\ Len(done) = n
    BY <1>5, <1>14, <1>15
  <2>2. /\ Len(d) = o + n /\ \A j \in 1..o : d[j] = data[j]
        /\ \A k \in 1..n : d[o + k] = [done[k] EXCEPT !.from = 0]
    BY <1>8, <2>1
  <2>3. \A k \in 1..n : d[o + k].rec = done[k].rec /\ d[o + k].to = done[k].to
    BY <1>11, <1>12, <2>2
  <2>4. QED
    BY <1>5, <2>2, <2>3
<1>16. ASSUME n = 0
       PROVE  d = data
  <2>1. done = <<>>
    BY <1>1, <1>5, <1>16
  <2>2. Off(data, done) = Len(data)
    BY <2>1 DEF Off
  <2>3. Len(d) = Len(data) /\ \A j \in 1..Len(data) : d[j] = data[j]
    BY <1>5, <1>8, <1>16, <2>2
  <2>4. d \in Seq(Whole(R)) /\ data \in Seq(Whole(R))
    BY <1>8
  <2>5. QED
    BY <2>3, <2>4, SeqEqual
<1>17. n = 0 => m = 0
  BY <1>4, <1>5
<1>18. m < l => rest # <<>> /\ 1 \in 1..(l - m) /\ rest[1] \in Pieces(R)
  BY <1>1, <1>4, <1>5, EmptySeq
<1>19. ~(m < l) => rest = <<>> /\ m = l
  BY <1>1, <1>4, <1>5
<1>20. n = m + 1 => m < l
  BY <1>4
<1>21. Joins(d, rest)
  <2>1. \A k \in 2..(l - m) : k \in 1..(l - m) /\ k > 1 /\ m + k \in 2..l
    BY <1>4
  <2>2. \A k \in 2..Len(rest) : rest[k].from = 0
    BY <1>5, <1>6, <2>1
  <2>3. CASE rest = <<>>
    BY <2>2, <2>3 DEF Joins
  <2>4. CASE rest # <<>> /\ n = m + 1
    <3>1. n > 0 /\ n \in 1..n /\ 1 \in 1..(l - m) /\ m + 1 = n
      BY <1>4, <1>18, <1>20, <2>4
    <3>2. Len(d) = o + n /\ d # <<>>
      BY <1>4, <1>15, <3>1, EmptySeq
    <3>3. d[Len(d)].rec = ps[n].rec /\ d[Len(d)].to = done[n].to
      BY <1>15, <3>1, <3>2
    <3>4. rest[1].rec = ps[n].rec /\ done[n].to = rest[1].from
      BY <1>4, <1>5, <2>4, <3>1
    <3>5. QED
      BY <2>2, <3>2, <3>3, <3>4 DEF Joins
  <2>5. CASE rest # <<>> /\ m = n /\ m > 0
    <3>1. m + 1 \in 2..l /\ rest[1] = ps[m + 1]
      BY <1>4, <1>5, <1>19, <2>5
    <3>2. ~(rest[1].from > 0)
      BY <1>6, <3>1
    <3>3. QED
      BY <2>2, <3>2 DEF Joins
  <2>6. CASE rest # <<>> /\ m = 0 /\ n = 0
    <3>1. rest[1] = ps[1] /\ ps # <<>>
      <4>1. m < l
        BY <1>19, <2>6
      <4>2. ps # <<>>
        BY <1>3, <2>6, <4>1, EmptySeq
      <4>3. rest[1] = ps[m + 1] /\ m + 1 = 1
        BY <1>5, <2>6, <4>1
      <4>4. QED
        BY <4>2, <4>3
    <3>2. QED
      BY <1>6, <1>16, <2>2, <2>6, <3>1 DEF Joins
  <2>7. QED
    BY <1>4, <1>5, <2>3, <2>4, <2>5, <2>6
<1>22. Off(d, rest) = o + m
  <2>1. CASE rest = <<>>
    <3>1. m = l
      BY <1>18, <1>19, <2>1
    <3>2. n = m
      BY <1>4, <1>5, <3>1
    <3>3. CASE n > 0
      BY <1>15, <2>1, <3>2, <3>3 DEF Off
    <3>4. CASE n = 0
      <4>1. ps = <<>>
        <5>1. Len(ps) = 0
          BY <1>3, <3>1, <3>2, <3>4
        <5>2. QED
          BY <5>1
      <4>2. o = Len(data)
        BY <1>10, <4>1 DEF Off
      <4>3. QED
        BY <1>10, <1>16, <2>1, <3>2, <3>4, <4>2 DEF Off
    <3>5. QED
      BY <1>4, <3>3, <3>4
  <2>2. CASE rest # <<>> /\ n = m + 1
    <3>1. n > 0 /\ rest[1].from > 0
      BY <1>4, <1>5, <2>2
    <3>2. Len(d) = o + n
      BY <1>15, <3>1
    <3>3. Off(d, rest) = Len(d) - 1
      BY <2>2, <3>1 DEF Off
    <3>4. QED
      BY <1>4, <2>2, <3>2, <3>3
  <2>3. CASE rest # <<>> /\ m = n /\ m > 0
    <3>1. m + 1 \in 2..l /\ rest[1] = ps[m + 1]
      BY <1>4, <1>5, <1>19, <2>3
    <3>2. ~(rest[1].from > 0)
      BY <1>6, <3>1
    <3>3. QED
      BY <1>15, <2>3, <3>2 DEF Off
  <2>4. CASE rest # <<>> /\ m = 0 /\ n = 0
    <3>1. rest[1] = ps[1] /\ ps # <<>>
      <4>1. m < l
        BY <1>19, <2>4
      <4>2. ps # <<>>
        BY <1>3, <2>4, <4>1, EmptySeq
      <4>3. rest[1] = ps[m + 1] /\ m + 1 = 1
        BY <1>5, <2>4, <4>1
      <4>4. QED
        BY <4>2, <4>3
    <3>2. Off(d, rest) = Off(data, ps)
      BY <1>16, <2>4, <3>1 DEF Off
    <3>3. QED
      BY <1>10, <2>4, <3>2
  <2>5. QED
    BY <1>4, <1>5, <2>1, <2>2, <2>3, <2>4
<1>23. /\ f \in Seq(Whole(R))
       /\ Len(f) = (o + m) + Len(rest)
       /\ \A j \in 1..(o + m) : f[j] = d[j]
       /\ \A k \in 1..Len(rest) : f[(o + m) + k] = [rest[k] EXCEPT !.from = 0]
  <2>1. /\ Extended(d, rest) \in Seq(Whole(R))
        /\ Len(Extended(d, rest)) = Off(d, rest) + Len(rest)
        /\ \A j \in 1..Off(d, rest) : Extended(d, rest)[j] = d[j]
        /\ \A k \in 1..Len(rest) :
             Extended(d, rest)[Off(d, rest) + k] = [rest[k] EXCEPT !.from = 0]
    <3>1. d \in Seq(Whole(R)) /\ rest \in Seq(Pieces(R))
      BY <1>1, <1>8
    <3>2. QED
      BY <1>21, <3>1, ExtendedIs, SMTT(30)
  <2>3. f = Extended(d, rest)
    BY DEF rest, d
  <2>2. QED
    BY <1>22, <2>1, <2>3, Zenon
<1> HIDE DEF f
<1>24. Len(e) = o + l /\ Len(f) = o + l
  <2>1. Len(e) = o + l
    BY <1>3, <1>9, <1>10
  <2>2. (o + m) + (l - m) = o + l
    BY <1>4
  <2>3. QED
    BY <1>5, <1>23, <2>1, <2>2
<1>25. \A j \in 1..o : e[j] = data[j] /\ d[j] = data[j]
  <2>1. o <= Len(data)
    BY <1>9, <1>10
  <2>2. \A j \in 1..o : j \in 1..Len(data)
    BY <2>1
  <2>3. CASE n > 0
    BY <1>9, <1>10, <1>15, <2>3
  <2>4. CASE n = 0
    BY <1>9, <1>10, <1>16, <2>4
  <2>5. QED
    BY <1>4, <2>3, <2>4
<1>26. \A k \in 1..l : e[o + k].rec = ps[k].rec
  BY <1>3, <1>9, <1>10, <1>11, <1>13
<1>27. \A k \in 1..n : d[o + k].rec = ps[k].rec
  <2>1. n = 0 => \A k \in 1..n : FALSE
    OBVIOUS
  <2>2. QED
    BY <1>4, <1>15, <2>1
<1>28. \A k \in 1..(l - m) : f[(o + m) + k].rec = ps[m + k].rec
  <2>1. \A k \in 1..(l - m) : rest[k] \in Pieces(R)
    BY <1>1, <1>5
  <2>2. \A k \in 1..(l - m) : f[(o + m) + k] = [rest[k] EXCEPT !.from = 0]
    BY <1>5, <1>23
  <2>3. \A k \in 1..(l - m) : f[(o + m) + k].rec = rest[k].rec
    BY <1>11, <2>1, <2>2
  <2>4. QED
    BY <1>5, <2>3
<1>29. ASSUME NEW j \in 1..Len(e) PROVE f[j].rec = e[j].rec
  <2>1. CASE j <= o
    <3>1. j \in 1..o /\ j \in 1..(o + m)
      BY <1>4, <2>1
    <3>2. QED
      BY <1>23, <1>25, <3>1
  <2>2. CASE j > o /\ j <= o + m
    <3>1. j \in 1..(o + m) /\ j - o \in 1..n /\ j - o \in 1..l /\ o + (j - o) = j
      BY <1>4, <1>5, <2>2
    <3>2. f[j] = d[j]
      BY <1>23, <3>1
    <3>3. d[o + (j - o)].rec = ps[j - o].rec /\ e[o + (j - o)].rec = ps[j - o].rec
      BY <1>26, <1>27, <3>1
    <3>4. QED
      BY <3>1, <3>2, <3>3
  <2>3. CASE j > o + m
    <3>1. /\ j - (o + m) \in 1..(l - m) /\ (o + m) + (j - (o + m)) = j
          /\ m + (j - (o + m)) \in 1..l /\ o + (m + (j - (o + m))) = j
      BY <1>4, <1>24, <2>3
    <3>2. f[(o + m) + (j - (o + m))].rec = ps[m + (j - (o + m))].rec
      BY <1>28, <3>1
    <3>3. e[o + (m + (j - (o + m)))].rec = ps[m + (j - (o + m))].rec
      BY <1>26, <3>1
    <3>4. QED
      BY <3>1, <3>2, <3>3
  <2>4. QED
    BY <1>4, <1>24, <2>1, <2>2, <2>3
<1>30. Len(d) \in 0..Len(e) /\ \A j \in 1..Len(d) : d[j].rec = e[j].rec
  <2>1. CASE n > 0
    <3>1. Len(d) = o + n /\ o + n \in 0..(o + l)
      BY <1>4, <1>15, <2>1
    <3>2. ASSUME NEW j \in 1..(o + n) PROVE d[j].rec = e[j].rec
      <4>1. CASE j <= o
        BY <1>25, <4>1
      <4>2. CASE j > o
        <5>1. j - o \in 1..n /\ j - o \in 1..l /\ o + (j - o) = j
          BY <1>4, <4>2
        <5>2. d[o + (j - o)].rec = ps[j - o].rec /\ e[o + (j - o)].rec = ps[j - o].rec
          BY <1>26, <1>27, <5>1
        <5>3. QED
          BY <5>1, <5>2
      <4>3. QED
        BY <1>4, <4>1, <4>2
    <3>3. QED
      BY <1>24, <3>1, <3>2
  <2>2. CASE n = 0 /\ ps = <<>>
    <3>1. d = data /\ Off(data, ps) = Len(data) /\ o = Len(data)
      BY <1>10, <1>16, <2>2 DEF Off
    <3>2. l = 0 /\ Len(e) = o
      BY <1>3, <1>24, <2>2, EmptySeq
    <3>3. QED
      BY <1>25, <3>1, <3>2
  <2>3. CASE n = 0 /\ ps # <<>>
    <3>1. d = data /\ l > 0
      BY <1>3, <1>16, <2>3
    <3>2. CASE ps[1].from > 0
      <4>1. o = Len(data) - 1 /\ data # <<>> /\ data[Len(data)].rec = ps[1].rec
        BY <1>6, <1>10, <2>3, <3>2 DEF Off
      <4>2. Len(data) = o + 1 /\ o + 1 \in 0..(o + l) /\ 1 \in 1..l
        BY <1>3, <3>1, <4>1
      <4>3. e[o + 1].rec = data[o + 1].rec
        BY <1>26, <4>1, <4>2
      <4>4. \A j \in 1..(o + 1) : j \in 1..o \/ j = o + 1
        OBVIOUS
      <4>5. \A j \in 1..(o + 1) : d[j].rec = e[j].rec
        BY <1>25, <3>1, <4>3, <4>4
      <4>6. QED
        BY <1>24, <3>1, <4>2, <4>5
    <3>3. CASE ~(ps[1].from > 0)
      <4>1. o = Len(data) /\ o \in 0..(o + l)
        BY <1>4, <1>10, <3>1, <3>3 DEF Off
      <4>2. QED
        BY <1>24, <1>25, <3>1, <4>1
    <3>4. QED
      BY <3>2, <3>3
  <2>4. QED
    BY <1>4, <2>1, <2>2, <2>3
<1>31. ASSUME NEW k \in 1..Len(rest)
       PROVE  \E j \in 1..Len(ps) : rest[k].rec = ps[j].rec
  <2>1. k \in 1..(l - m) /\ m + k \in 1..l
    BY <1>4, <1>5
  <2>2. QED
    BY <1>3, <1>5, <2>1
<1>32. QED
  BY <1>7, <1>21, <1>24, <1>29, <1>30, <1>31 DEF d, e, f, done, rest

-----------------------------------------------------------------------------
(* Each step of the log keeps WalInv (wal.rs)                              *)

(* The file a create_new makes is none of those in use.                    *)
LEMMA FreshIs ==
  Unused # {} =>
    Fresh \in Inodes /\ Fresh \notin stale \union {active, temp, handle}
  BY DEF Fresh, Unused

(* WBuffered, when the buffer is empty.                                    *)
LEMMA BufferNone == ASSUME wbuf' = <<>> PROVE WBuffered'
<1>1. Joins(DataOf(handle)', <<>>)
  BY JoinsNone
<1>2. CellsIn(<<>>) <= BufCapacity
  BY CellsEmpty, FilesAssumption
<1>3. QED
  BY <1>1, <1>2 DEF WBuffered

(* WBuffered, when neither the buffer nor the file changes.                *)
LEMMA BufferSame ==
  ASSUME WBuffered, wbuf' = wbuf, DataOf(handle)' = DataOf(handle)
  PROVE  WBuffered'
  BY DEF WBuffered

(* The values a call leaves behind when it is over.                        *)
LEMMA NoCall == <<>> \in Seq(LogRecords) /\ 0 \in Nat /\ 0 \notin Inodes
  BY EmptySeq, FilesAssumption

(* The highest of some LSNs.                                               *)
LEMMA HighestIs ==
  ASSUME NEW a \in Nat, NEW recs \in Seq(LogRecords)
  PROVE  /\ Max({a} \union LsnsOf(Range(recs))) \in Nat
         /\ a <= Max({a} \union LsnsOf(Range(recs)))
         /\ \A k \in 1..Len(recs) : recs[k].lsn <= Max({a} \union LsnsOf(Range(recs)))
<1> DEFINE S == {a} \union LsnsOf(Range(recs))
           f == [k \in 1..Len(recs) |-> recs[k].lsn]
<1>1. Len(recs) \in Nat /\ DOMAIN recs = 1..Len(recs)
  OBVIOUS
<1>2. \A k \in 1..Len(recs) : recs[k] \in LogRecords /\ recs[k].lsn \in Nat
  BY RecordIs
<1>3. f \in [1..Len(recs) -> Nat]
  BY <1>2
<1>4. Range(recs) = {recs[k] : k \in 1..Len(recs)}
  BY <1>1 DEF Range
<1>5. LsnsOf(Range(recs)) = {recs[k].lsn : k \in 1..Len(recs)}
  BY <1>4 DEF LsnsOf
<1>6. S \subseteq {a} \union {f[k] : k \in 1..Len(recs)} /\ a \in S
  BY <1>5
<1>7. \A k \in 1..Len(recs) : recs[k].lsn \in S
  BY <1>5
<1> HIDE DEF S, f
<1>8. Max(S) \in Nat /\ a <= Max(S) /\ \A x \in S : x <= Max(S)
  BY <1>1, <1>3, <1>6, MaxOfSeq
<1>9. QED
  BY <1>7, <1>8 DEF S

(* Wal::open keeps the types of the log.                                   *)
LEMMA OpenStep == ASSUME WalInv, Open PROVE WalInv'
<1>1. WalTypes'
  BY NoCall, EmptySeq, FreshIs
     DEF WalInv, WalTypes, Open, WalSteps, WGoto, callVars, wHistory, acks, marks
<1>2. Names'
  BY NoCall, FreshIs DEF WalInv, WalTypes, Names, AtStart, Open, WGoto, callVars
<1>3. WBuffered'
  BY BufferNone DEF Open
<1>4. QED
  BY <1>1, <1>2, <1>3 DEF WalInv

(* Writing the header of a new segment keeps them.                         *)
LEMMA WriteHeaderStep == ASSUME WalInv, WriteHeader PROVE WalInv'
<1>1. wpc # "closed" /\ Write(handle, <<Header>>)
  BY DEF WriteHeader
<1>2. file' \in [Inodes -> File]
  BY <1>1, HandleIs, SegmentOne, WriteIs DEF WalInv
<1>3. WalTypes'
  BY <1>2 DEF WalInv, WalTypes, WriteHeader, WalSteps, WGoto, names, writer, callVars,
              wHistory, acks, marks
<1>4. Names'
  BY DEF WalInv, WalTypes, Names, AtStart, WriteHeader, WGoto, names, writer, callVars
<1>5. WBuffered'
  BY BufferNone DEF WriteHeader, WalInv, Names, AtStart, writer
<1>6. QED
  BY <1>3, <1>4, <1>5 DEF WalInv

(* Syncing it keeps them.                                                  *)
LEMMA SyncHeaderStep == ASSUME WalInv, SyncHeader PROVE WalInv'
<1>1. wpc # "closed" /\ Sync(handle)
  BY DEF SyncHeader
<1>2. file' \in [Inodes -> File]
  BY <1>1, HandleIs, SyncIs DEF WalInv
<1>3. WalTypes'
  BY <1>2 DEF WalInv, WalTypes, SyncHeader, WalSteps, WGoto, names, writer, callVars,
              wHistory, acks, marks
<1>4. Names'
  BY DEF WalInv, WalTypes, Names, AtStart, SyncHeader, WGoto, names, writer, callVars
<1>5. WBuffered'
  BY BufferNone DEF SyncHeader, WalInv, Names, AtStart, writer
<1>6. QED
  BY <1>3, <1>4, <1>5 DEF WalInv

(* recover, cutting a torn tail off, keeps them.                           *)
LEMMA RecoverStep == ASSUME WalInv, Recover PROVE WalInv'
<1>1. wpc # "closed" /\ HEADER_LEN < U32
  BY FilesAssumption DEF Recover
<1>2. DataOf(active) \in Segments /\ active \in Inodes
  BY <1>1, HandleIs
<1>3. Good(DataOf(active)) \in Segments /\ Log(DataOf(active)) \in Seq(LogRecords)
  BY <1>1, <1>2, SegmentGood, SegmentLog
<1>4. file' \in [Inodes -> File]
  <2>1. CASE file' = file
    BY <2>1 DEF WalInv, WalTypes
  <2>2. CASE Write(active, Good(DataOf(active)))
    BY <1>2, <1>3, <2>2, WriteIs DEF WalInv
  <2>3. QED
    BY <2>1, <2>2 DEF Recover
<1>5. lastLsn' \in Nat
  <2>1. 0 \in Nat /\ lastLsn' = Max({0} \union LsnsOf(Range(Log(DataOf(active)))))
    BY DEF Recover, OnDisk, Recs
  <2>2. QED
    BY <1>3, <2>1, HighestIs
<1>6. WalTypes'
  BY <1>3, <1>4, <1>5 DEF WalInv, WalTypes, Recover, WalSteps, WGoto, WAnswer, names,
                          writer, callVars, wHistory, acks, marks
<1>7. Names'
  BY DEF WalInv, WalTypes, Names, AtStart, Recover, WGoto, WAnswer, names, writer, callVars
<1>8. WBuffered'
  BY BufferNone DEF Recover, WalInv, Names, AtStart, writer
<1>9. QED
  BY <1>6, <1>7, <1>8 DEF WalInv

(* The sync after the cut keeps them.                                      *)
LEMMA SyncCutStep == ASSUME WalInv, SyncCut PROVE WalInv'
<1>1. wpc # "closed" /\ Sync(active)
  BY DEF SyncCut
<1>2. file' \in [Inodes -> File]
  BY <1>1, HandleIs, SyncIs DEF WalInv
<1>3. WalTypes'
  BY <1>2 DEF WalInv, WalTypes, SyncCut, WalSteps, WGoto, names, writer, callVars,
              wHistory, acks, marks
<1>4. Names'
  BY DEF WalInv, WalTypes, Names, AtStart, SyncCut, WGoto, names, writer, callVars
<1>5. WBuffered'
  BY BufferNone DEF SyncCut, WalInv, Names, AtStart, writer
<1>6. QED
  BY <1>3, <1>4, <1>5 DEF WalInv

(* The sync of the directory after it keeps them.                          *)
LEMMA SyncCutNameStep == ASSUME WalInv, SyncCutName PROVE WalInv'
<1>1. WalTypes'
  BY DEF WalInv, WalTypes, SyncCutName, WalSteps, WAnswer, writer, callVars,
              wHistory, acks, marks
<1>2. Names'
  BY DEF WalInv, WalTypes, Names, AtStart, SyncCutName, WAnswer, writer, callVars
<1>3. WBuffered'
  BY BufferNone DEF SyncCutName, WalInv, Names, AtStart, writer
<1>4. QED
  BY <1>1, <1>2, <1>3 DEF WalInv

(* Calling append_batch keeps the types of the log.                        *)
LEMMA AppendBatchStep ==
  ASSUME WalInv, NEW recs \in Seq(LogRecords), AppendBatch(recs) PROVE WalInv'
<1>1. WalTypes'
  BY DEF WalInv, WalTypes, AppendBatch, WalSteps, WGoto, WAnswer, names, writer,
         wHistory, acks, marks
<1>2. Names'
  BY DEF WalInv, WalTypes, Names, AtStart, AppendBatch, WGoto, WAnswer, names, writer
<1>3. WBuffered'
  BY BufferSame DEF AppendBatch, WalInv, writer, DataOf
<1>4. QED
  BY <1>1, <1>2, <1>3 DEF WalInv

(* Calling flush keeps them.                                               *)
LEMMA FlushCallStep == ASSUME WalInv, FlushCall PROVE WalInv'
<1>1. WalTypes'
  BY DEF WalInv, WalTypes, FlushCall, WalSteps, WGoto, names, writer,
         callVars, wHistory, acks, marks
<1>2. Names'
  BY DEF WalInv, WalTypes, Names, AtStart, FlushCall, WGoto, names, writer, callVars
<1>3. WBuffered'
  BY BufferSame DEF FlushCall, WalInv, writer, DataOf
<1>4. QED
  BY <1>1, <1>2, <1>3 DEF WalInv

(* Calling checkpoint keeps them.                                          *)
LEMMA CheckpointCallStep ==
  ASSUME WalInv, NEW n \in Nat, CheckpointCall(n) PROVE WalInv'
<1>1. WalTypes'
  BY DEF WalInv, WalTypes, CheckpointCall, WalSteps, WGoto, names, writer,
         wHistory, acks, marks
<1>2. Names'
  BY DEF WalInv, WalTypes, Names, AtStart, CheckpointCall, WGoto, names, writer
<1>3. WBuffered'
  BY BufferSame DEF CheckpointCall, WalInv, writer, DataOf
<1>4. QED
  BY <1>1, <1>2, <1>3 DEF WalInv

(* The next record of a batch.                                             *)
LEMMA TodoIs ==
  ASSUME WalTypes, todo # <<>>
  PROVE  /\ Head(todo) \in LogRecords /\ Tail(todo) \in Seq(LogRecords)
         /\ Head(todo) = todo[1] /\ Len(todo) \in Nat \ {0}
         /\ Len(Tail(todo)) = Len(todo) - 1
         /\ \A k \in 1..(Len(todo) - 1) : Tail(todo)[k] = todo[k + 1]
<1>1. todo \in Seq(LogRecords)
  BY DEF WalTypes
<1>2. QED
  BY <1>1, HeadTailProperties

(* The writer's buffer as a sequence of pieces.                            *)
LEMMA BufferIs ==
  ASSUME WalTypes
  PROVE  /\ wbuf \in Seq(LogPiece) /\ wbuf \in Seq(Pieces(Contents))
         /\ wbuf \in Seq(Pieces(LogRecords)) /\ CellsIn(wbuf) \in Nat
<1>1. wbuf \in Seq(LogPiece)
  BY DEF WalTypes
<1>2. wbuf \in Seq(Pieces(Contents)) /\ wbuf \in Seq(Pieces(LogRecords))
  BY <1>1, LogPieces DEF LogPiece
<1>3. CASE wbuf = <<>>
  BY <1>1, <1>2, <1>3, CellsEmpty
<1>4. CASE wbuf # <<>>
  <2>1. PICK u : Counts(u, wbuf) /\ CellsIn(wbuf) = u[Len(wbuf)]
    BY <1>2, CellsCount
  <2>2. Len(wbuf) \in 0..Len(wbuf)
    BY <1>1
  <2>3. QED
    BY <1>1, <1>2, <2>1, <2>2 DEF Counts
<1>5. QED
  BY <1>3, <1>4

(* BufWriter copying a frame keeps the types of the log.                   *)
LEMMA CopyStep == ASSUME WalInv, Copy PROVE WalInv'
<1>1. /\ wpc = "write" /\ todo # <<>> /\ wpc # "closed"
      /\ FitsIn(wbuf, WalCells(Head(todo)))
      /\ wbuf' = Append(wbuf, Frame(Head(todo)))
  BY DEF Copy
<1>2. Head(todo) \in LogRecords /\ Tail(todo) \in Seq(LogRecords)
  BY <1>1, TodoIs DEF WalInv
<1>3. PICK p \in LogPiece : /\ p = Frame(Head(todo)) /\ p.from = 0
                            /\ Size(p) = WalCells(Head(todo)) /\ Size(p) \in Nat
  BY <1>2, FrameIs
<1>4. wbuf \in Seq(LogPiece) /\ wbuf \in Seq(Pieces(LogRecords)) /\ p \in Pieces(LogRecords)
  BY <1>3, BufferIs DEF WalInv, LogPiece
<1>5. /\ wbuf' \in Seq(LogPiece) /\ Len(wbuf') = Len(wbuf) + 1
      /\ \A k \in 1..Len(wbuf) : wbuf'[k] = wbuf[k]
      /\ wbuf'[Len(wbuf) + 1] = p
  BY <1>1, <1>3, <1>4, AppendProperties
<1>6. WalTypes'
  BY <1>2, <1>5 DEF WalInv, WalTypes, Copy, WalSteps, WGoto, names,
         wHistory, acks, marks
<1>7. Names'
  BY <1>1 DEF WalInv, WalTypes, Names, AtStart, Copy, WGoto, names
<1>8. WBuffered'
  <2>1. DataOf(handle)' = DataOf(handle)
    BY DEF Copy, DataOf
  <2>2. Joins(DataOf(handle), wbuf)
    BY DEF WalInv, WBuffered
  <2>3. Len(wbuf) \in Nat
    BY <1>4
  <2>4. \A k \in 2..Len(wbuf') : wbuf'[k].from = 0
    <3>1. \A k \in 2..Len(wbuf') : (k \in 2..Len(wbuf) /\ k \in 1..Len(wbuf)) \/ k = Len(wbuf) + 1
      BY <1>5, <2>3
    <3>2. \A k \in 2..Len(wbuf) : wbuf[k].from = 0
      BY <2>2 DEF Joins
    <3>3. QED
      BY <1>3, <1>5, <3>1, <3>2
  <2>5. ASSUME wbuf'[1].from > 0
        PROVE  /\ DataOf(handle) # <<>>
               /\ DataOf(handle)[Len(DataOf(handle))].rec = wbuf'[1].rec
               /\ DataOf(handle)[Len(DataOf(handle))].to = wbuf'[1].from
    <3>1. CASE Len(wbuf) = 0
      <4>1. wbuf'[1] = p
        BY <1>5, <3>1
      <4>2. QED
        BY <1>3, <2>5, <4>1
    <3>2. CASE Len(wbuf) > 0
      <4>1. wbuf'[1] = wbuf[1] /\ wbuf # <<>>
        BY <1>5, <2>3, <3>2, EmptySeq
      <4>2. QED
        BY <2>2, <2>5, <4>1 DEF Joins
    <3>3. QED
      BY <2>3, <3>1, <3>2
  <2>6. Joins(DataOf(handle)', wbuf')
    BY <2>1, <2>4, <2>5 DEF Joins
  <2>7. CellsIn(wbuf') <= BufCapacity
    <3>1. CellsIn(wbuf) \in Nat /\ CellsIn(Append(wbuf, p)) <= CellsIn(wbuf) + Size(p)
      BY <1>4, CellsAppend
    <3>2. CellsIn(wbuf) + Size(p) <= BufCapacity
      BY <1>1, <1>3 DEF FitsIn
    <3>3. CellsIn(wbuf') = CellsIn(Append(wbuf, p))
      BY <1>1, <1>3
    <3>4. CellsIn(Append(wbuf, p)) \in Nat
      <4>1. wbuf' \in Seq(Pieces(LogRecords))
        BY <1>5 DEF LogPiece
      <4>2. PICK u : Counts(u, wbuf') /\ CellsIn(wbuf') = u[Len(wbuf')]
        BY <4>1, CellsCount
      <4>3. Len(wbuf') \in 0..Len(wbuf')
        BY <4>1
      <4>4. QED
        BY <3>3, <4>2, <4>3 DEF Counts
    <3>5. QED
      BY <1>3, <3>1, <3>2, <3>3, <3>4, FilesAssumption
  <2>8. QED
    BY <2>6, <2>7 DEF WBuffered
<1>9. QED
  BY <1>6, <1>7, <1>8 DEF WalInv

(* The buffer, written to the writer's file.                               *)
LEMMA BufferWritten ==
  ASSUME WalInv, wpc # "closed"
  PROVE  /\ Extended(DataOf(handle), wbuf) \in Segments /\ handle \in Inodes
         /\ Joins(DataOf(handle), wbuf)
         /\ \A s \in Splits(wbuf) :
              /\ Extended(DataOf(handle), s.done) \in Segments
              /\ s.rest \in Seq(LogPiece)
              /\ Joins(Extended(DataOf(handle), s.done), s.rest)
              /\ CellsIn(s.rest) <= BufCapacity
<1>1. /\ DataOf(handle) \in Segments /\ handle \in Inodes /\ wbuf \in Seq(LogPiece)
      /\ wbuf \in Seq(Pieces(Contents)) /\ wbuf \in Seq(Pieces(LogRecords))
      /\ CellsIn(wbuf) \in Nat
  BY HandleIs, BufferIs DEF WalInv
<1>2. Joins(DataOf(handle), wbuf) /\ CellsIn(wbuf) <= BufCapacity
  BY DEF WalInv, WBuffered
<1>3. Cuts \subseteq Nat /\ BufCapacity \in Nat
  BY FilesAssumption
<1>4. DataOf(handle) \in Seq(Whole(Contents))
  BY <1>1, SegmentIs
<1>5. ASSUME NEW s \in Splits(wbuf)
      PROVE  /\ Extended(DataOf(handle), s.done) \in Segments
             /\ s.rest \in Seq(LogPiece)
             /\ Joins(Extended(DataOf(handle), s.done), s.rest)
             /\ CellsIn(s.rest) <= BufCapacity
  <2>1. s.done \in Seq(LogPiece) /\ s.rest \in Seq(LogPiece)
    BY <1>1, <1>3, SplitIs DEF LogPiece
  <2>2. Joins(DataOf(handle), s.done) /\ Joins(Extended(DataOf(handle), s.done), s.rest)
    BY <1>1, <1>2, <1>3, <1>4, SplitJoins
  <2>3. CellsIn(s.rest) <= CellsIn(wbuf)
    BY <1>1, <1>3, CellsRest
  <2>4. CellsIn(s.rest) \in Nat
    <3>1. s.rest \in Seq(Pieces(LogRecords))
      BY <2>1 DEF LogPiece
    <3>2. PICK u : Counts(u, s.rest) /\ CellsIn(s.rest) = u[Len(s.rest)]
      BY <3>1, CellsCount
    <3>3. Len(s.rest) \in 0..Len(s.rest)
      BY <3>1
    <3>4. QED
      BY <3>2, <3>3 DEF Counts
  <2>5. CellsIn(s.rest) <= BufCapacity
    BY <1>1, <1>2, <1>3, <2>3, <2>4
  <2>6. QED
    BY <1>1, <2>1, <2>2, <2>5, SegmentExtended
<1>6. QED
  BY <1>1, <1>2, <1>5, SegmentExtended

(* BufWriter writing itself out to make room keeps them.                   *)
LEMMA SpillStep == ASSUME WalInv, Spill PROVE WalInv'
<1>1. wpc # "closed" /\ wpc = "write" /\ Write(handle, Extended(DataOf(handle), wbuf))
  BY DEF Spill
<1>2. file' \in [Inodes -> File]
  BY <1>1, BufferWritten, WriteIs DEF WalInv
<1>3. WalTypes'
  BY <1>2, EmptySeq DEF WalInv, WalTypes, Spill, WalSteps, WGoto, names, writer,
                        callVars, wHistory, acks, marks
<1>4. Names'
  BY <1>1 DEF WalInv, WalTypes, Names, AtStart, Spill, WGoto, names, callVars
<1>5. WBuffered'
  BY BufferNone DEF Spill
<1>6. QED
  BY <1>3, <1>4, <1>5 DEF WalInv

(* BufWriter::flush keeps them.                                            *)
LEMMA FlushBufferStep == ASSUME WalInv, FlushBuffer PROVE WalInv'
<1>1. wpc # "closed" /\ wpc = "flush" /\ Write(handle, Extended(DataOf(handle), wbuf))
  BY DEF FlushBuffer
<1>2. file' \in [Inodes -> File]
  BY <1>1, BufferWritten, WriteIs DEF WalInv
<1>3. WalTypes'
  BY <1>2, EmptySeq DEF WalInv, WalTypes, FlushBuffer, WalSteps, WGoto, names,
                        callVars, wHistory, acks, marks
<1>4. Names'
  BY <1>1 DEF WalInv, WalTypes, Names, AtStart, FlushBuffer, WGoto, names, callVars
<1>5. WBuffered'
  BY BufferNone DEF FlushBuffer
<1>6. QED
  BY <1>3, <1>4, <1>5 DEF WalInv

(* A failed write keeps them: the part not written stays in the buffer.    *)
LEMMA BufferWriteFailsStep == ASSUME WalInv, BufferWriteFails PROVE WalInv'
<1>1. PICK s \in Stopped(wbuf) :
        Write(handle, Extended(DataOf(handle), s.done)) /\ wbuf' = s.rest
  BY DEF BufferWriteFails
<1>2. wpc # "closed" /\ wpc \in {"write", "flush", "ckflush"}
  BY DEF BufferWriteFails
<1>3. s \in Splits(wbuf)
  BY DEF Stopped
<1>4. /\ Extended(DataOf(handle), s.done) \in Segments /\ handle \in Inodes
      /\ s.rest \in Seq(LogPiece) /\ Joins(Extended(DataOf(handle), s.done), s.rest)
      /\ CellsIn(s.rest) <= BufCapacity
  BY <1>2, <1>3, BufferWritten
<1>5. file' \in [Inodes -> File] /\ file'[handle].data = Extended(DataOf(handle), s.done)
  BY <1>1, <1>4, WriteIs DEF WalInv
<1>6. WalTypes'
  BY <1>1, <1>4, <1>5, NoCall
     DEF WalInv, WalTypes, BufferWriteFails, WFails, WCallEnds, WAnswer, WalSteps,
         names, wHistory, acks, marks
<1>7. Names'
  BY <1>2 DEF WalInv, WalTypes, Names, AtStart, BufferWriteFails, WFails, WCallEnds,
              WAnswer, names
<1>8. WBuffered'
  <2>1. handle' = handle /\ handle # 0
    BY <1>4, NoCall DEF BufferWriteFails
  <2>2. DataOf(handle)' = Extended(DataOf(handle), s.done)
    BY <1>5, <2>1 DEF DataOf
  <2>3. QED
    BY <1>1, <1>4, <2>2 DEF WBuffered
<1>9. QED
  BY <1>6, <1>7, <1>8 DEF WalInv

(* A frame written past the buffer, all or a part of it.                   *)
LEMMA FrameWritten ==
  ASSUME NEW data \in Segments, NEW r \in LogRecords
  PROVE  /\ Append(data, Frame(r)) = Extended(data, <<Frame(r)>>)
         /\ <<Frame(r)>> \in Seq(LogPiece) /\ Joins(data, <<Frame(r)>>)
         /\ Extended(data, <<Frame(r)>>) \in Segments
         /\ \A s \in Splits(<<Frame(r)>>) :
              /\ data \o s.done = Extended(data, s.done)
              /\ Joins(data, s.done) /\ s.done \in Seq(LogPiece)
              /\ Extended(data, s.done) \in Segments
<1>1. PICK ps : ps = <<Frame(r)>>
  OBVIOUS
<1>2. Frame(r) \in LogPiece /\ Frame(r).from = 0
  BY FrameIs
<1>3. ps \in Seq(LogPiece) /\ Len(ps) = 1 /\ ps[1] = Frame(r) /\ ps # <<>>
  BY <1>1, <1>2, One
<1>4. Joins(data, ps)
  <2>1. \A k \in 2..Len(ps) : FALSE
    BY <1>3
  <2>2. ~(ps[1].from > 0)
    BY <1>2, <1>3
  <2>3. QED
    BY <2>1, <2>2 DEF Joins
<1>5. ASSUME NEW qs \in Seq(LogPiece), qs # <<>> => qs[1].from = 0
      PROVE  data \o qs = Extended(data, qs)
  <2>1. qs # <<>> => Head(qs) = qs[1]
    BY HeadTailProperties
  <2>2. ~(qs # <<>> /\ Head(qs).from > 0)
    BY <1>5, <2>1
  <2>3. QED
    BY <2>2 DEF Extended
<1>6. Append(data, Frame(r)) = data \o ps
  BY <1>1, <1>2, AppendIsConcat, RecordIs, FrameIs, SegmentIs
<1>7. data \o ps = Extended(data, ps)
  BY <1>2, <1>3, <1>5
<1>8. Extended(data, ps) \in Segments
  BY <1>3, <1>4, SegmentExtended
<1>9. ASSUME NEW s \in Splits(ps)
      PROVE  /\ data \o s.done = Extended(data, s.done)
             /\ Joins(data, s.done) /\ s.done \in Seq(LogPiece)
             /\ Extended(data, s.done) \in Segments
  <2>1. Cuts \subseteq Nat /\ data \in Seq(Whole(Contents)) /\ ps \in Seq(Pieces(Contents))
    BY <1>3, FilesAssumption, SegmentIs, LogPieces
  <2>2. s.done \in Seq(LogPiece) /\ \E n, m \in 0..Len(ps) : SplitAt(ps, s, n, m)
    BY <1>3, <2>1, SplitIs DEF LogPiece
  <2>3. Joins(data, s.done)
    BY <1>4, <2>1, SplitJoins
  <2>4. s.done # <<>> => s.done[1].from = 0
    <3>1. PICK n, m \in 0..Len(ps) : SplitAt(ps, s, n, m)
      BY <2>2
    <3>2. Len(s.done) = n /\ \A k \in 1..n : s.done[k].from = ps[k].from
      BY <3>1 DEF SplitAt
    <3>3. s.done # <<>> => 1 \in 1..n
      BY <2>2, <3>1, <3>2, <1>3
    <3>4. QED
      BY <1>2, <1>3, <3>2, <3>3
  <2>5. QED
    BY <1>5, <2>2, <2>3, <2>4, SegmentExtended
<1>10. QED
  BY <1>1, <1>3, <1>4, <1>6, <1>7, <1>8, <1>9

(* A frame as large as the buffer, written directly, keeps the types of    *)
(* the log.                                                                *)
LEMMA WriteThroughStep == ASSUME WalInv, WriteThrough PROVE WalInv'
<1>1. /\ wpc # "closed" /\ wpc = "write" /\ todo # <<>> /\ wbuf = <<>>
      /\ Write(handle, Append(DataOf(handle), Frame(Head(todo))))
  BY DEF WriteThrough, Bypasses
<1>2. Head(todo) \in LogRecords /\ Tail(todo) \in Seq(LogRecords)
  BY <1>1, TodoIs DEF WalInv
<1>3. Append(DataOf(handle), Frame(Head(todo))) \in Segments /\ handle \in Inodes
  BY <1>1, <1>2, HandleIs, FrameWritten
<1>4. file' \in [Inodes -> File]
  BY <1>1, <1>3, WriteIs DEF WalInv
<1>5. WalTypes'
  BY <1>2, <1>4 DEF WalInv, WalTypes, WriteThrough, WalSteps, WGoto, names, writer,
                        wHistory, acks, marks
<1>6. Names'
  BY <1>1 DEF WalInv, WalTypes, Names, AtStart, WriteThrough, WGoto, names, writer
<1>7. WBuffered'
  BY <1>1, BufferNone DEF WriteThrough, writer
<1>8. QED
  BY <1>5, <1>6, <1>7 DEF WalInv

(* So it does when the write fails half-way.                               *)
LEMMA WriteThroughFailsStep == ASSUME WalInv, WriteThroughFails PROVE WalInv'
<1>1. wpc # "closed" /\ wpc = "write" /\ todo # <<>> /\ wbuf = <<>>
  BY DEF WriteThroughFails, Bypasses
<1>2. Head(todo) \in LogRecords
  BY <1>1, TodoIs DEF WalInv
<1>3. PICK s \in Stopped(<<Frame(Head(todo))>>) :
        /\ Write(handle, DataOf(handle) \o s.done)
        /\ scarred' = (scarred \/ s.done # <<>>)
  BY DEF WriteThroughFails
<1>4. s \in Splits(<<Frame(Head(todo))>>)
  BY DEF Stopped
<1>5. DataOf(handle) \o s.done \in Segments /\ handle \in Inodes
  BY <1>1, <1>2, <1>4, HandleIs, FrameWritten
<1>6. file' \in [Inodes -> File]
  BY <1>3, <1>5, WriteIs DEF WalInv
<1>7. WalTypes'
  BY <1>3, <1>6, NoCall
     DEF WalInv, WalTypes, WriteThroughFails, WFails, WCallEnds, WAnswer, WalSteps,
         names, writer, acks, marks
<1>8. Names'
  BY <1>1 DEF WalInv, WalTypes, Names, AtStart, WriteThroughFails, WFails, WCallEnds,
              WAnswer, names, writer
<1>9. WBuffered'
  BY <1>1, BufferNone DEF WriteThroughFails, writer
<1>10. QED
  BY <1>7, <1>8, <1>9 DEF WalInv

(* The elements of a sequence of S are in S.                               *)
LEMMA RangeIs ==
  ASSUME NEW S, NEW s \in Seq(S) PROVE Range(s) \in SUBSET S
<1>1. DOMAIN s = 1..Len(s)
  OBVIOUS
<1>2. QED
  BY <1>1 DEF Range

(* The end of append_batch keeps the types of the log.                     *)
LEMMA CommitStep == ASSUME WalInv, Commit PROVE WalInv'
<1>1. wpc # "closed" /\ wpc = "sync" /\ handle \in Inodes
  BY HandleIs DEF Commit
<1>2. file' \in [Inodes -> File] /\ file'[handle].data = file[handle].data
  <2>1. CASE file' = file
    BY <2>1 DEF WalInv, WalTypes
  <2>2. CASE Sync(handle)
    BY <1>1, <2>2, SyncIs DEF WalInv
  <2>3. QED
    BY <2>1, <2>2 DEF Commit
<1>3. given \in Seq(LogRecords) /\ lastLsn \in Nat
  BY DEF WalInv, WalTypes
<1>4. Range(given) \in SUBSET LogRecords /\ lastLsn' \in Nat
  BY <1>3, RangeIs, HighestIs DEF Commit
<1>5. acked' \in SUBSET LogRecords /\ sure' \in SUBSET acked' /\ answered' \in SUBSET LogRecords
  BY <1>4 DEF Commit, Acknowledged, WalInv, WalTypes
<1>6. WalTypes'
  BY <1>2, <1>4, <1>5, NoCall
     DEF WalInv, WalTypes, Commit, WCallEnds, WAnswer, WalSteps, names, writer, marks
<1>7. Names'
  BY <1>1 DEF WalInv, WalTypes, Names, AtStart, Commit, WCallEnds,
              WAnswer, names, writer
<1>8. WBuffered'
  <2>1. DataOf(handle)' = DataOf(handle)
    BY <1>1, <1>2, NoCall DEF DataOf, Commit, writer
  <2>2. QED
    BY <2>1, BufferSame DEF Commit, writer, WalInv
<1>9. QED
  BY <1>6, <1>7, <1>8 DEF WalInv

(* A step of a call that fails keeps them.                                 *)
LEMMA StepFailsStep == ASSUME WalInv, StepFails PROVE WalInv'
<1>1. WalTypes'
  BY NoCall DEF WalInv, WalTypes, StepFails, WFails, WCallEnds, WAnswer, WalSteps,
                names, writer, acks, marks
<1>2. Names'
  BY DEF WalInv, WalTypes, Names, AtStart, StepFails, WFails, WCallEnds,
         WAnswer, names, writer
<1>3. WBuffered'
  BY BufferSame DEF StepFails, writer, WalInv, DataOf
<1>4. QED
  BY <1>1, <1>2, <1>3 DEF WalInv

(* collect_live keeps them.                                                *)
LEMMA CollectStep == ASSUME WalInv, Collect PROVE WalInv'
<1>1. wpc # "closed" /\ wpc = "ckflush" /\ Write(handle, Extended(DataOf(handle), wbuf))
  BY DEF Collect
<1>2. Extended(DataOf(handle), wbuf) \in Segments /\ DataOf(active) \in Segments /\ handle \in Inodes
  BY <1>1, BufferWritten, HandleIs
<1>3. file' \in [Inodes -> File]
  BY <1>1, <1>2, WriteIs DEF WalInv
<1>4. live' \in Seq(LogRecords)
  <2>1. PICK data \in Segments : live' = Survivors(data, upTo)
    <3>1. CASE active = handle
      <4>1. live' = Survivors(Extended(DataOf(handle), wbuf), upTo)
        BY <3>1 DEF Collect
      <4>2. QED
        BY <1>2, <4>1
    <3>2. CASE active # handle
      <4>1. live' = Survivors(DataOf(active), upTo)
        BY <3>2 DEF Collect
      <4>2. QED
        BY <1>2, <4>1
    <3>3. QED
      BY <3>1, <3>2
  <2>2. /\ data \in Seq(Whole(Contents)) /\ HEADER_LEN < U32
        /\ \A r \in Contents : r.lsn \in Nat
    BY SegmentIs, RecordIs, FilesAssumption
  <2>3. /\ live' \in Seq(Contents)
        /\ \A k \in 1..Len(live') : \E j \in 1..Len(Log(data)) : live'[k] = Log(data)[j]
    BY <2>1, <2>2, SurvivorsAre
  <2>4. Log(data) \in Seq(LogRecords)
    BY <2>2, SegmentLog
  <2>7. \A j \in 1..Len(Log(data)) : Log(data)[j] \in LogRecords
    BY <2>4
  <2>5. \A k \in 1..Len(live') : live'[k] \in LogRecords
    BY <2>3, <2>7
  <2>6. QED
    BY <2>3, <2>5, SeqIntro
<1>5. WalTypes'
  BY <1>3, <1>4, EmptySeq DEF WalInv, WalTypes, Collect, WalSteps, WGoto, names,
                        wHistory, acks, marks
<1>6. Names'
  BY <1>1 DEF WalInv, WalTypes, Names, AtStart, Collect, WGoto, names
<1>7. WBuffered'
  BY BufferNone DEF Collect
<1>8. QED
  BY <1>5, <1>6, <1>7 DEF WalInv

(* Where WriteTemp writes.                                                 *)
LEMMA TempStep ==
  ASSUME WalInv, WriteTemp
  PROVE  /\ temp' \in Inodes /\ temp' \notin {active, handle} \union stale
         /\ <<Header>> \o Frames(live) \in Segments
         /\ file' \in [Inodes -> File]
         /\ file'[temp'] = [data |-> <<Header>> \o Frames(live), hard |-> <<>>]
         /\ \A j \in Inodes : j # temp' => file'[j] = file[j]
<1>1. temp' \in Inodes /\ temp' \notin {active, handle} \union stale
  BY NoCall, FreshIs DEF WriteTemp, WalInv, WalTypes, Names
<1>2. live \in Seq(LogRecords)
  BY DEF WalInv, WalTypes
<1>3. <<Header>> \o Frames(live) \in Segments
  BY <1>2, TempOf DEF Segments
<1>4. PICK f : f = [data |-> <<Header>> \o Frames(live), hard |-> <<>>]
  OBVIOUS
<1>5. f \in File
  BY <1>3, <1>4, EmptyFile DEF File, Empty
<1>6. file' = [file EXCEPT ![temp'] = f] /\ file \in [Inodes -> File]
  BY <1>4 DEF WriteTemp, WalInv, WalTypes
<1>7. QED
  BY <1>1, <1>3, <1>4, <1>5, <1>6

(* Writing the temporary file keeps them.                                  *)
LEMMA WriteTempStep == ASSUME WalInv, WriteTemp PROVE WalInv'
<1>1. wpc # "closed" /\ handle \in Inodes /\ wpc = "ckwrite"
  BY HandleIs DEF WriteTemp
<1>2. WalTypes'
  BY TempStep DEF WalInv, WalTypes, WriteTemp, WalSteps, WGoto, writer, callVars,
                  wHistory, acks, marks
<1>3. Names'
  BY <1>1, NoCall, TempStep
     DEF WalInv, WalTypes, Names, AtStart, WriteTemp, WGoto, writer, callVars
<1>4. WBuffered'
  <2>1. DataOf(handle)' = DataOf(handle)
    BY <1>1, NoCall, TempStep DEF DataOf, WriteTemp, writer
  <2>2. QED
    BY <2>1, BufferSame DEF WriteTemp, writer, WalInv
<1>5. QED
  BY <1>2, <1>3, <1>4 DEF WalInv

(* Syncing it keeps them.                                                  *)
LEMMA SyncTempStep == ASSUME WalInv, SyncTemp PROVE WalInv'
<1>1. wpc # "closed" /\ handle \in Inodes /\ wpc = "cksync"
  BY HandleIs DEF SyncTemp
<1>2. temp \in Inodes /\ Sync(temp)
  BY <1>1 DEF WalInv, WalTypes, Names, SyncTemp
<1>3. file' \in [Inodes -> File] /\ \A j \in Inodes : file'[j].data = file[j].data
  BY <1>2, SyncIs DEF WalInv
<1>4. WalTypes'
  BY <1>3 DEF WalInv, WalTypes, SyncTemp, WalSteps, WGoto, names, writer, callVars,
              wHistory, acks, marks
<1>5. Names'
  BY <1>1 DEF WalInv, WalTypes, Names, AtStart, SyncTemp, WGoto, names, writer, callVars
<1>6. WBuffered'
  <2>1. DataOf(handle)' = DataOf(handle)
    BY <1>1, <1>3, NoCall DEF DataOf, SyncTemp, writer
  <2>2. QED
    BY <2>1, BufferSame DEF SyncTemp, writer, WalInv
<1>7. QED
  BY <1>4, <1>5, <1>6 DEF WalInv

(* The higher of two watermarks.                                           *)
LEMMA HigherIs ==
  \A a, b \in Nat : HigherOf(a, b) \in Nat /\ a <= HigherOf(a, b) /\ b <= HigherOf(a, b)
                    /\ HigherOf(a, b) \in {a, b}
  BY DEF HigherOf

(* rename over the segment keeps the types of the log.                     *)
LEMMA RenameStep == ASSUME WalInv, Rename PROVE WalInv'
<1>1. wpc # "closed" /\ handle \in Inodes /\ wpc = "ckrename" /\ temp # 0
  BY HandleIs DEF Rename, WalInv, Names
<1>2. floor' \in Nat
  BY HigherIs DEF Rename, WalInv, WalTypes
<1>3. WalTypes'
  <2>1. active' \in Inodes \union {0} /\ temp' \in Inodes \union {0}
        /\ stale' \in SUBSET (Inodes \union {0})
    BY DEF WalInv, WalTypes, Rename
  <2>2. QED
    BY <1>2, <2>1 DEF WalInv, WalTypes, Rename, WalSteps, WGoto, writer, callVars, acks
<1>4. Names'
  BY <1>1 DEF WalInv, WalTypes, Names, AtStart, Rename, WGoto, writer, callVars
<1>5. WBuffered'
  BY BufferSame DEF Rename, writer, WalInv, DataOf
<1>6. QED
  BY <1>3, <1>4, <1>5 DEF WalInv

(* Syncing the directory keeps them.                                       *)
LEMMA SyncDirStep == ASSUME WalInv, SyncDir PROVE WalInv'
<1>1. wpc # "closed" /\ handle \in Inodes /\ wpc = "ckdir"
  BY HandleIs DEF SyncDir
<1>2. file \in [Inodes -> File] /\ file' = Reclaimed(file, {active, handle})
  BY DEF SyncDir, WalInv, WalTypes
<1>3. file' \in [Inodes -> File] /\ file'[handle] = file[handle]
  BY <1>1, <1>2, ReclaimedIs
<1>4. WalTypes'
  BY <1>3 DEF WalInv, WalTypes, SyncDir, WalSteps, WGoto, writer, callVars,
              wHistory, acks, marks
<1>5. Names'
  BY <1>1 DEF WalInv, WalTypes, Names, AtStart, SyncDir, WGoto, writer, callVars
<1>6. WBuffered'
  <2>1. DataOf(handle)' = DataOf(handle)
    BY <1>1, <1>3, NoCall DEF DataOf, SyncDir, writer
  <2>2. QED
    BY <2>1, BufferSame DEF SyncDir, writer, WalInv
<1>7. QED
  BY <1>4, <1>5, <1>6 DEF WalInv

(* Opening the new segment keeps them.                                     *)
LEMMA ReopenStep == ASSUME WalInv, Reopen PROVE WalInv'
<1>1. wpc # "closed" /\ active \in Inodes /\ wpc = "ckreopen"
  BY HandleIs DEF Reopen
<1>2. file \in [Inodes -> File] /\ file' = Reclaimed(file, {active} \union stale)
  BY DEF Reopen, WalInv, WalTypes
<1>3. file' \in [Inodes -> File]
  BY <1>2, ReclaimedIs
<1>4. lastLsn' \in Nat /\ trimmed' \in Nat
  BY HigherIs, HighestIs DEF Reopen, WalInv, WalTypes
<1>5. WalTypes'
  BY <1>3, <1>4, NoCall, EmptySeq DEF WalInv, WalTypes, Reopen, WalSteps, WAnswer, WCallEnds, names,
              acks
<1>6. Names'
  BY <1>1, NoCall DEF WalInv, WalTypes, Names, AtStart, Reopen, WAnswer, WCallEnds, names
<1>7. WBuffered'
  BY BufferNone DEF Reopen
<1>8. QED
  BY <1>5, <1>6, <1>7 DEF WalInv

(* What a crash leaves of the log's memory.                                *)
LEMMA WriterGoneTypes ==
  ASSUME WriterGone
  PROVE  /\ handle' = 0 /\ wbuf' = <<>> /\ wbuf' \in Seq(LogPiece) /\ lastLsn' = 0
         /\ wpc' = "closed" /\ wans' = "none" /\ scarred' = FALSE /\ upTo' = 0
         /\ todo' = <<>> /\ given' = <<>> /\ live' = <<>> /\ recovered' = <<>>
         /\ todo' \in Seq(LogRecords) /\ given' \in Seq(LogRecords)
         /\ live' \in Seq(LogRecords) /\ recovered' \in Seq(LogRecords)
  BY EmptySeq DEF WriterGone, WCallEnds

(* What a kill leaves of the write under way.                              *)
LEMMA WritingIs ==
  ASSUME WalInv, handle # 0, NEW s \in Splits(Writing)
  PROVE  LET base == IF wpc = "header" THEN <<>> ELSE DataOf(handle)
         IN  /\ handle \in Inodes /\ Extended(base, s.done) \in Segments
             /\ base \in Segments
             /\ Writing \in Seq(Pieces(Contents)) /\ Joins(base, Writing)
<1> DEFINE base == IF wpc = "header" THEN <<>> ELSE DataOf(handle)
<1>1. wpc # "closed" /\ handle \in Inodes /\ DataOf(handle) \in Segments
  BY HandleIs DEF WalInv, Names
<1>2. Cuts \subseteq Nat
  BY FilesAssumption
<1>3. <<>> \in Segments /\ <<>> \in Seq(LogPiece)
  BY EmptyFile, EmptySeq DEF Empty, File
<1>4. CASE wpc = "header"
  <2>1. base = <<>> /\ Writing = <<Header>>
    BY <1>4 DEF Writing
  <2>2. <<Header>> \in Segments /\ Header.from = 0 /\ Len(<<Header>>) = 1 /\ <<Header>>[1] = Header
    BY SegmentOne, HeaderIs
  <2>3. Joins(<<>>, <<Header>>)
    <3>1. \A k \in 2..Len(<<Header>>) : FALSE
      BY <2>2
    <3>2. ~(<<Header>>[1].from > 0)
      BY <2>2
    <3>3. QED
      BY <3>1, <3>2 DEF Joins
  <2>4. s.done \in Segments
    BY <1>2, <2>1, <2>2, SegmentCut
  <2>5. Extended(<<>>, s.done) = s.done
    <3>1. s.done \in Seq(SegPiece)
      BY <2>4, SegmentIs
    <3>2. s.done # <<>> => Head(s.done).from = 0
      BY <3>1, HeadTailProperties DEF SegPiece, Whole
    <3>3. ~(s.done # <<>> /\ Head(s.done).from > 0)
      BY <3>2
    <3>4. Extended(<<>>, s.done) = <<>> \o s.done
      BY <3>3 DEF Extended
    <3>5. QED
      BY <3>1, <3>4, ConcatEmptySeq
  <2>6. <<Header>> \in Seq(Pieces(Contents))
    BY <2>2, SegmentIs
  <2>7. QED
    BY <1>1, <1>3, <2>1, <2>3, <2>4, <2>5, <2>6
<1>5. CASE wpc # "header"
  <2>1. base = DataOf(handle)
    BY <1>5
  <2>2. CASE Writing = wbuf
    <3>1. Extended(DataOf(handle), s.done) \in Segments
      BY <1>1, <2>2, BufferWritten
    <3>2. wbuf \in Seq(Pieces(Contents)) /\ Joins(DataOf(handle), wbuf)
      BY <1>1, BufferIs, BufferWritten DEF WalInv
    <3>3. QED
      BY <1>1, <2>1, <2>2, <3>1, <3>2
  <2>3. CASE Writing = <<Frame(Head(todo))>> /\ todo # <<>>
    <3>1. Head(todo) \in LogRecords
      BY <2>3, TodoIs DEF WalInv
    <3>2. /\ Extended(DataOf(handle), s.done) \in Segments
          /\ Writing \in Seq(LogPiece) /\ Joins(DataOf(handle), Writing)
      BY <1>1, <2>3, <3>1, FrameWritten
    <3>3. QED
      BY <1>1, <2>1, <3>2, LogPieces
  <2>4. CASE Writing = <<>>
    <3>1. Joins(DataOf(handle), <<>>)
      BY JoinsNone
    <3>2. <<>> \in Seq(Pieces(Contents)) /\ DataOf(handle) \in Seq(Whole(Contents))
      BY <1>1, <1>3, LogPieces, SegmentIs
    <3>3. s.done \in Seq(LogPiece) /\ Joins(DataOf(handle), s.done)
      BY <1>2, <1>3, <2>4, <3>1, <3>2, SplitIs, SplitJoins DEF LogPiece
    <3>4. QED
      BY <1>1, <2>1, <2>4, <3>1, <3>2, <3>3, SegmentExtended
  <2>5. wpc = "write" => todo # <<>>
    BY DEF WalInv, Names
  <2>6. QED
    BY <1>5, <2>2, <2>3, <2>4, <2>5 DEF Writing
<1>6. QED
  BY <1>4, <1>5

(* A killed process may have written part of what it was writing.          *)
LEMMA WKillFiles ==
  ASSUME WalInv, WKill
  PROVE  file' \in [Inodes -> File]
<1>1. PICK s \in Splits(Writing) :
        LET base == IF wpc = "header" THEN <<>> ELSE DataOf(handle)
            f    == IF handle = 0 \/ s.done = <<>> THEN file
                    ELSE [file EXCEPT ![handle] = [data |-> Extended(base, s.done),
                                                   hard |-> @.hard]]
        IN  file' = Reclaimed(f, {active, temp} \union stale)
  BY DEF WKill
<1>2. file \in [Inodes -> File]
  BY DEF WalInv, WalTypes
<1>3. CASE handle = 0 \/ s.done = <<>>
  <2>1. file' = Reclaimed(file, {active, temp} \union stale)
    BY <1>1, <1>3
  <2>2. QED
    BY <1>2, <2>1, ReclaimedIs
<1>4. CASE ~(handle = 0 \/ s.done = <<>>)
  <2> DEFINE base == IF wpc = "header" THEN <<>> ELSE DataOf(handle)
  <2>1. handle \in Inodes /\ Extended(base, s.done) \in Segments
    BY <1>4, WritingIs
  <2>2. PICK g : g = [data |-> Extended(base, s.done), hard |-> file[handle].hard]
    OBVIOUS
  <2>3. g \in File
    BY <1>2, <2>1, <2>2 DEF File
  <2>4. PICK f : f = [file EXCEPT ![handle] = g]
    OBVIOUS
  <2>5. f \in [Inodes -> File]
    BY <1>2, <2>1, <2>3, <2>4
  <2>6. file' = Reclaimed(f, {active, temp} \union stale)
    BY <1>1, <1>4, <2>2, <2>4
  <2>7. QED
    BY <2>5, <2>6, ReclaimedIs
<1>5. QED
  BY <1>3, <1>4

(* A kill keeps the types of the log.                                      *)
LEMMA WKillStep == ASSUME WalInv, WKill PROVE WalInv'
<1>1. WriterGone /\ UNCHANGED <<names, acks, marks>>
  BY DEF WKill
<1>2. WalTypes'
  BY <1>1, NoCall, WriterGoneTypes, WKillFiles
     DEF WalInv, WalTypes, WalSteps, names, acks, marks
<1>3. Names'
  <2>1. ASSUME active' = 0, NEW i \in Inodes PROVE file'[i] = Empty
    <3>1. active = 0 /\ \A j \in Inodes : file[j] = Empty
      BY <1>1, <2>1 DEF WalInv, Names, names
    <3>2. handle = 0
      BY <3>1 DEF WalInv, Names
    <3>3. file' = Reclaimed(file, {active, temp} \union stale)
      BY <3>2 DEF WKill
    <3>4. QED
      BY <3>1, <3>3 DEF Reclaimed
  <2>2. QED
    BY <1>1, <2>1, WriterGoneTypes DEF WalInv, Names, AtStart, names
<1>4. WBuffered'
  BY <1>1, WriterGoneTypes, BufferNone
<1>5. QED
  BY <1>2, <1>3, <1>4 DEF WalInv

(* A power loss keeps them.                                                *)
LEMMA WPowerLossStep == ASSUME WalInv, WPowerLoss PROVE WalInv'
<1>1. PICK i \in stale \union {active} :
        \E d \in (IF i = 0 THEN {<<>>} ELSE Images(file[i])) :
         /\ active' = i
         /\ file' = [j \in Inodes |-> IF j = i THEN [data |-> d, hard |-> d] ELSE Empty]
  BY DEF WPowerLoss
<1>2. PICK d \in (IF i = 0 THEN {<<>>} ELSE Images(file[i])) :
         /\ active' = i
         /\ file' = [j \in Inodes |-> IF j = i THEN [data |-> d, hard |-> d] ELSE Empty]
  BY <1>1
<1>3. i \in Inodes \union {0} /\ file \in [Inodes -> File]
  BY DEF WalInv, WalTypes
<1>4. d \in Segments
  <2>1. CASE i = 0
    BY <1>2, <2>1, EmptyFile DEF Empty, File
  <2>2. CASE i # 0
    <3>1. file[i] \in File /\ d \in Images(file[i]) /\ Cuts \subseteq Nat
      BY <1>2, <1>3, <2>2, FilesAssumption
    <3>2. QED
      BY <3>1, ImageSegment
  <2>3. QED
    BY <2>1, <2>2
<1>5. file' \in [Inodes -> File]
  <2>1. PICK g : g = [data |-> d, hard |-> d]
    OBVIOUS
  <2>2. g \in File
    BY <1>4, <2>1 DEF File
  <2>3. file' = [j \in Inodes |-> IF j = i THEN g ELSE Empty]
    BY <1>2, <2>1
  <2>4. QED
    BY <2>2, <2>3, EmptyFile
<1>6. WriterGone /\ stale' = {} /\ temp' = 0 /\ acked' = sure
      /\ UNCHANGED <<sure, answered, floor, trimmed>>
  BY DEF WPowerLoss
<1>7. WalTypes'
  BY <1>2, <1>3, <1>5, <1>6, NoCall, WriterGoneTypes DEF WalInv, WalTypes, WalSteps
<1>8. Names'
  <2>1. ASSUME active' = 0, NEW j \in Inodes PROVE file'[j] = Empty
    <3>1. i = 0 /\ j # i
      BY <1>2, <2>1, NoCall
    <3>2. QED
      BY <1>2, <3>1
  <2>2. QED
    BY <1>6, <2>1, WriterGoneTypes DEF Names, AtStart
<1>9. WBuffered'
  BY <1>6, WriterGoneTypes, BufferNone
<1>10. QED
  BY <1>7, <1>8, <1>9 DEF WalInv

(* The engine taking the recovered records keeps them.                     *)
LEMMA StartedWal == ASSUME WalInv, Started PROVE WalInv'
<1>1. WalTypes'
  BY NoCall DEF WalInv, WalTypes, Started, LsnsRestart, WalSteps, names, writer, callVars
<1>2. Names'
  BY DEF WalInv, Names, AtStart, Started, names, writer, callVars
<1>3. WBuffered'
  BY BufferSame DEF Started, WalInv, writer, DataOf
<1>4. QED
  BY <1>1, <1>2, <1>3 DEF WalInv

(* The types of the log hold before the first start.                       *)
LEMMA WalInitially == ASSUME WInit PROVE WalInv
<1>1. PICK g : g = [data |-> <<Header>>, hard |-> <<Header>>]
  OBVIOUS
<1>2. g \in File
  BY <1>1, SegmentOne DEF File
<1>3. \/ file = [i \in Inodes |-> Empty]
      \/ file = [i \in Inodes |-> IF i = 1 THEN g ELSE Empty]
  BY <1>1 DEF WInit
<1>4. file \in [Inodes -> File]
  BY <1>2, <1>3, EmptyFile
<1>5. active \in Inodes \union {0}
  BY FilesAssumption DEF WInit
<1>6. WalTypes
  BY <1>4, <1>5, NoCall, EmptySeq DEF WInit, WalTypes, WalSteps
<1>7. Names
  BY DEF WInit, Names, AtStart
<1>8. WBuffered
  BY JoinsNone, CellsEmpty, FilesAssumption DEF WInit, WBuffered
<1>9. QED
  BY <1>6, <1>7, <1>8 DEF WalInv

(* They hold as long as no variable of the log changes.                    *)
LEMMA WalSame == ASSUME WalInv, UNCHANGED walVars PROVE WalInv'
<1>1. WalTypes'
  BY DEF WalInv, WalTypes, walVars, names, writer, callVars, wHistory, acks, marks
<1>2. Names'
  BY DEF WalInv, Names, AtStart, walVars, names, writer, callVars
<1>3. WBuffered'
  BY BufferSame DEF walVars, WalInv, writer, DataOf
<1>4. QED
  BY <1>1, <1>2, <1>3 DEF WalInv

-----------------------------------------------------------------------------
(* The disk store (disk_kv_store.rs)                                       *)

(* The store's file: what the operating system has, and what is stable.    *)
DiskFile == [data : Seq(Whole(Value)), hard : Seq(Whole(Value))]

(* The types of the store's variables.                                     *)
DiskTypes ==
  /\ dfile \in DiskFile
  /\ dbuf \in Seq(Pieces(Value))
  /\ index \in [Ids -> Nat]
  /\ dpc \in {"closed", "cut", "ready", "write", "flush", "sync"}
  /\ dtodo \in Seq(Value) /\ dgiven \in Seq(Value)

(* What the buffer and the batch under way hold, step by step.             *)
DiskShape ==
  /\ dpc \in {"closed", "cut"} => dbuf = <<>>
  /\ dpc = "write" => dtodo # <<>>

(* WBuffered, for the store's file.                                        *)
DBuffered == Joins(dfile.data, dbuf) /\ CellsIn(dbuf) <= BufCapacity

(* The types of the store are inductive with these two.                    *)
DiskInv == DiskTypes /\ DiskShape /\ DBuffered

(* The frame of a value is one piece.                                      *)
LEMMA DFrameIs ==
  \A r \in Value :
    /\ DFrame(r) \in Whole(Value) /\ DFrame(r) \in Pieces(Value) /\ DFrame(r).from = 0
    /\ RecordCells(r) \in Nat /\ Size(DFrame(r)) = RecordCells(r)
<1> SUFFICES ASSUME NEW r \in Value
             PROVE  /\ DFrame(r) \in Whole(Value) /\ DFrame(r) \in Pieces(Value)
                    /\ DFrame(r).from = 0
                    /\ RecordCells(r) \in Nat /\ Size(DFrame(r)) = RecordCells(r)
  OBVIOUS
<1>1. PICK n \in Nat : n = RecordCells(r) /\ n > 0
  BY DEF RecordCells, Value
<1>2. PICK p : p = DFrame(r)
  OBVIOUS
<1>3. p = [rec |-> r, len |-> n, from |-> 0, to |-> n]
  BY <1>1, <1>2 DEF DFrame, WholePiece
<1>4. p.rec = r /\ p.len = n /\ p.from = 0 /\ p.to = n
  BY <1>3
<1>5. p \in [rec : Value, len : Nat, from : Nat, to : Nat]
  BY <1>1, <1>3
<1>6. p.from < p.to /\ p.to <= p.len
  BY <1>1, <1>4
<1>7. QED
  BY <1>1, <1>2, <1>4, <1>5, <1>6 DEF Whole, Pieces, Size

(* The values an open or a crash resets the store to.                      *)
LEMMA DNothing ==
  /\ <<>> \in Seq(Value) /\ <<>> \in Seq(Pieces(Value)) /\ <<>> \in Seq(Whole(Value))
  /\ NoVersions \in [Ids -> Nat] /\ Cuts \subseteq Nat /\ BufCapacity \in Nat
  BY EmptySeq, FilesAssumption DEF NoVersions

(* The parts of the store's file.                                          *)
LEMMA DFileIs ==
  ASSUME DiskTypes
  PROVE  dfile.data \in Seq(Whole(Value)) /\ dfile.hard \in Seq(Whole(Value))
  BY DEF DiskTypes, DiskFile

(* write(2) changes what the operating system has of the file.             *)
LEMMA DWriteIs ==
  ASSUME DiskTypes, NEW d \in Seq(Whole(Value)), DWrite(d)
  PROVE  dfile' \in DiskFile /\ dfile'.data = d /\ dfile'.hard = dfile.hard
  BY DEF DWrite, DiskTypes, DiskFile

(* fsync makes that stable.                                                *)
LEMMA DSyncIs ==
  ASSUME DiskTypes, DSync
  PROVE  dfile' \in DiskFile /\ dfile'.data = dfile.data /\ dfile'.hard = dfile.data
  BY DEF DSync, DiskTypes, DiskFile

(* DBuffered, when the buffer is empty.                                    *)
LEMMA DBufferNone == ASSUME dbuf' = <<>> PROVE DBuffered'
<1>1. Joins(dfile'.data, <<>>)
  BY JoinsNone
<1>2. CellsIn(<<>>) <= BufCapacity
  BY CellsEmpty, FilesAssumption
<1>3. QED
  BY <1>1, <1>2 DEF DBuffered

(* DBuffered, when neither the buffer nor the file changes.                *)
LEMMA DBufferSame ==
  ASSUME DBuffered, dbuf' = dbuf, dfile'.data = dfile.data
  PROVE  DBuffered'
  BY DEF DBuffered

(* The cells of a buffer are a natural number.                             *)
LEMMA CellsNat ==
  ASSUME NEW R, NEW ps \in Seq(Pieces(R)) PROVE CellsIn(ps) \in Nat
<1>1. PICK u : Counts(u, ps) /\ CellsIn(ps) = u[Len(ps)]
  BY CellsCount
<1>2. Len(ps) \in 0..Len(ps)
  OBVIOUS
<1>3. QED
  BY <1>1, <1>2 DEF Counts

(* A frame added to a buffer.                                              *)
LEMMA JoinsAppend ==
  ASSUME NEW R, NEW ps \in Seq(Pieces(R)), NEW data, Joins(data, ps),
         NEW p \in Pieces(R), p.from = 0
  PROVE  /\ Append(ps, p) \in Seq(Pieces(R)) /\ Joins(data, Append(ps, p))
         /\ Len(Append(ps, p)) = Len(ps) + 1 /\ Append(ps, p)[Len(ps) + 1] = p
         /\ \A k \in 1..Len(ps) : Append(ps, p)[k] = ps[k]
         /\ CellsIn(Append(ps, p)) \in Nat
         /\ \A n \in Nat : CellsIn(ps) + Size(p) <= n => CellsIn(Append(ps, p)) <= n
<1> DEFINE q == Append(ps, p)
<1>1. /\ q \in Seq(Pieces(R)) /\ Len(q) = Len(ps) + 1
      /\ \A k \in 1..Len(ps) : q[k] = ps[k]
      /\ q[Len(ps) + 1] = p
  BY AppendProperties
<1>2. CellsIn(ps) \in Nat /\ CellsIn(q) \in Nat /\ CellsIn(q) <= CellsIn(ps) + Size(p)
  BY <1>1, CellsAppend, CellsNat
<1>3. Len(ps) \in Nat /\ Size(p) \in Nat
  BY SizeIs
<1> HIDE DEF q
<1>4. \A k \in 2..Len(q) : q[k].from = 0
  <2>1. \A k \in 2..Len(q) : (k \in 2..Len(ps) /\ k \in 1..Len(ps)) \/ k = Len(ps) + 1
    BY <1>1, <1>3
  <2>2. \A k \in 2..Len(ps) : ps[k].from = 0
    BY DEF Joins
  <2>3. QED
    BY <1>1, <2>1, <2>2
<1>5. ASSUME q[1].from > 0
      PROVE  data # <<>> /\ data[Len(data)].rec = q[1].rec /\ data[Len(data)].to = q[1].from
  <2>1. CASE Len(ps) = 0
    <3>1. q[1] = p
      BY <1>1, <2>1
    <3>2. QED
      BY <1>5, <3>1
  <2>2. CASE Len(ps) > 0
    <3>1. q[1] = ps[1] /\ ps # <<>>
      BY <1>1, <1>3, <2>2, EmptySeq
    <3>2. QED
      BY <1>5, <3>1 DEF Joins
  <2>3. QED
    BY <1>3, <2>1, <2>2
<1>6. Joins(data, q)
  BY <1>4, <1>5 DEF Joins
<1>7. \A n \in Nat : CellsIn(ps) + Size(p) <= n => CellsIn(q) <= n
  BY <1>2, <1>3
<1>8. QED
  BY <1>1, <1>2, <1>6, <1>7 DEF q

(* The file after the buffer, or the part of it a failed write got to, was *)
(* written.                                                                *)
LEMMA DBufferWritten ==
  ASSUME DiskInv
  PROVE  /\ Extended(dfile.data, dbuf) \in Seq(Whole(Value))
         /\ \A s \in Splits(dbuf) :
              /\ Extended(dfile.data, s.done) \in Seq(Whole(Value))
              /\ s.rest \in Seq(Pieces(Value))
              /\ Joins(Extended(dfile.data, s.done), s.rest)
              /\ CellsIn(s.rest) <= BufCapacity
<1>1. /\ dfile.data \in Seq(Whole(Value)) /\ dbuf \in Seq(Pieces(Value))
      /\ Joins(dfile.data, dbuf) /\ CellsIn(dbuf) <= BufCapacity
  BY DFileIs DEF DiskInv, DiskTypes, DBuffered
<1>2. ASSUME NEW s \in Splits(dbuf)
      PROVE  /\ Extended(dfile.data, s.done) \in Seq(Whole(Value))
             /\ s.rest \in Seq(Pieces(Value))
             /\ Joins(Extended(dfile.data, s.done), s.rest)
             /\ CellsIn(s.rest) <= BufCapacity
  <2>1. s.done \in Seq(Pieces(Value)) /\ s.rest \in Seq(Pieces(Value))
    BY <1>1, DNothing, SplitIs
  <2>2. Joins(dfile.data, s.done) /\ Joins(Extended(dfile.data, s.done), s.rest)
    BY <1>1, DNothing, SplitJoins
  <2>3. CellsIn(s.rest) <= CellsIn(dbuf) /\ CellsIn(s.rest) \in Nat /\ CellsIn(dbuf) \in Nat
    BY <1>1, <2>1, DNothing, CellsRest, CellsNat
  <2>4. CellsIn(s.rest) <= BufCapacity
    BY <1>1, <2>3, DNothing
  <2>5. QED
    BY <1>1, <2>1, <2>2, <2>4, ExtendedIs
<1>3. QED
  BY <1>1, <1>2, ExtendedIs

(* The file after a frame, or part of one, was written directly.           *)
LEMMA DFrameWritten ==
  ASSUME NEW data \in Seq(Whole(Value)), NEW r \in Value
  PROVE  /\ Append(data, DFrame(r)) \in Seq(Whole(Value))
         /\ <<DFrame(r)>> \in Seq(Pieces(Value)) /\ Joins(data, <<DFrame(r)>>)
         /\ \A s \in Splits(<<DFrame(r)>>) :
              /\ data \o s.done \in Seq(Whole(Value))
              /\ Extended(data, s.done) \in Seq(Whole(Value))
<1>1. PICK ps : ps = <<DFrame(r)>>
  OBVIOUS
<1>2. /\ DFrame(r) \in Pieces(Value) /\ DFrame(r).from = 0
      /\ DFrame(r) \in Whole(Value)
  BY DFrameIs
<1>3. /\ ps \in Seq(Pieces(Value)) /\ ps \in Seq(Whole(Value))
      /\ Len(ps) = 1 /\ ps[1] = DFrame(r)
  BY <1>1, <1>2, One
<1>4. Joins(data, ps)
  <2>1. \A k \in 2..Len(ps) : FALSE
    BY <1>3
  <2>2. ~(ps[1].from > 0)
    BY <1>2, <1>3
  <2>3. QED
    BY <2>1, <2>2 DEF Joins
<1>5. ASSUME NEW s \in Splits(ps)
      PROVE  /\ data \o s.done \in Seq(Whole(Value))
             /\ Extended(data, s.done) \in Seq(Whole(Value))
  <2>1. s.done \in Seq(Whole(Value)) /\ s.done \in Seq(Pieces(Value))
    BY <1>3, DNothing, CutIs, SplitIs
  <2>2. Joins(data, s.done)
    BY <1>3, <1>4, DNothing, SplitJoins
  <2>3. QED
    BY <2>1, <2>2, ConcatProperties, ExtendedIs
<1>6. Append(data, DFrame(r)) \in Seq(Whole(Value))
  BY <1>2, AppendProperties
<1>7. QED
  BY <1>1, <1>3, <1>4, <1>5, <1>6

(* The next record of the batch under way.                                 *)
LEMMA DTodoIs ==
  ASSUME DiskInv, dpc = "write"
  PROVE  Head(dtodo) \in Value /\ Tail(dtodo) \in Seq(Value)
  BY HeadTailProperties DEF DiskInv, DiskTypes, DiskShape

(* DiskKvStore::open, cutting a torn tail off, keeps the types of the      *)
(* store.                                                                  *)
LEMMA DOpenStep == ASSUME DiskInv, DOpen PROVE DiskInv'
<1>1. dpc = "closed" /\ dbuf = <<>> /\ dbuf' = dbuf
  BY DEF DOpen, DiskInv, DiskShape
<1>2. DGood(dfile.data) \in Seq(Whole(Value)) /\ Replay(dfile.data) \in [Ids -> Nat]
  BY DFileIs, ReplayIs DEF DiskInv
<1>3. dfile' \in DiskFile
  BY <1>2, DWriteIs DEF DOpen, DiskInv, DiskTypes
<1>4. DiskTypes' /\ DiskShape'
  BY <1>1, <1>2, <1>3 DEF DiskInv, DiskTypes, DiskShape, DOpen
<1>5. DBuffered'
  BY <1>1, DBufferNone
<1>6. QED
  BY <1>4, <1>5 DEF DiskInv

(* The sync after the cut keeps them.                                      *)
LEMMA DSyncCutStep == ASSUME DiskInv, DSyncCut PROVE DiskInv'
<1>1. dfile' \in DiskFile /\ dbuf' = <<>>
  BY DSyncIs DEF DSyncCut, DiskInv, DiskShape
<1>2. DiskTypes' /\ DiskShape'
  BY <1>1 DEF DiskInv, DiskTypes, DiskShape, DSyncCut, DGoto
<1>3. QED
  BY <1>1, <1>2, DBufferNone DEF DiskInv

(* Calling persist_batch keeps them.                                       *)
LEMMA PersistBatchStep ==
  ASSUME DiskInv, NEW states \in Seq(Value), PersistBatch(states) PROVE DiskInv'
<1>1. DiskTypes' /\ DiskShape'
  BY DNothing DEF DiskInv, DiskTypes, DiskShape, PersistBatch, DGoto, DAnswer
<1>2. DBuffered'
  BY DBufferSame DEF PersistBatch, DiskInv
<1>3. QED
  BY <1>1, <1>2 DEF DiskInv

(* BufWriter copying a record keeps them.                                  *)
LEMMA DCopyStep == ASSUME DiskInv, DCopy PROVE DiskInv'
<1>1. /\ dpc = "write" /\ FitsIn(dbuf, RecordCells(Head(dtodo)))
      /\ dbuf' = Append(dbuf, DFrame(Head(dtodo))) /\ dtodo' = Tail(dtodo)
      /\ dfile' = dfile
  BY DEF DCopy
<1>2. Head(dtodo) \in Value /\ Tail(dtodo) \in Seq(Value)
  BY <1>1, DTodoIs
<1>3. PICK p \in Pieces(Value) : /\ p = DFrame(Head(dtodo)) /\ p.from = 0
                                 /\ Size(p) = RecordCells(Head(dtodo))
  BY <1>2, DFrameIs
<1>4. dbuf \in Seq(Pieces(Value)) /\ Joins(dfile.data, dbuf) /\ CellsIn(dbuf) + Size(p) <= BufCapacity
  BY <1>1, <1>3 DEF DiskInv, DiskTypes, DBuffered, FitsIn
<1>5. /\ Append(dbuf, p) \in Seq(Pieces(Value)) /\ Joins(dfile.data, Append(dbuf, p))
      /\ CellsIn(Append(dbuf, p)) <= BufCapacity
  BY <1>3, <1>4, DNothing, JoinsAppend
<1>6. dbuf' = Append(dbuf, p)
  BY <1>1, <1>3
<1>7. DBuffered'
  BY <1>1, <1>5, <1>6 DEF DBuffered
<1>8. DiskTypes' /\ DiskShape'
  BY <1>1, <1>2, <1>5, <1>6 DEF DiskInv, DiskTypes, DiskShape, DCopy, DGoto
<1>9. QED
  BY <1>7, <1>8 DEF DiskInv

(* BufWriter writing itself out to make room keeps them.                   *)
LEMMA DSpillStep == ASSUME DiskInv, DSpill PROVE DiskInv'
<1>1. dfile' \in DiskFile /\ dbuf' = <<>>
  BY DBufferWritten, DWriteIs DEF DSpill, DiskInv
<1>2. DiskTypes' /\ DiskShape'
  BY <1>1, DNothing DEF DiskInv, DiskTypes, DiskShape, DSpill
<1>3. QED
  BY <1>1, <1>2, DBufferNone DEF DiskInv

(* BufWriter::flush keeps them.                                            *)
LEMMA DFlushBufferStep == ASSUME DiskInv, DFlushBuffer PROVE DiskInv'
<1>1. dfile' \in DiskFile /\ dbuf' = <<>>
  BY DBufferWritten, DWriteIs DEF DFlushBuffer, DiskInv
<1>2. DiskTypes' /\ DiskShape'
  BY <1>1, DNothing DEF DiskInv, DiskTypes, DiskShape, DFlushBuffer, DGoto
<1>3. QED
  BY <1>1, <1>2, DBufferNone DEF DiskInv

(* A failed write keeps them: the part not written stays in the buffer.    *)
LEMMA DBufferWriteFailsStep == ASSUME DiskInv, DBufferWriteFails PROVE DiskInv'
<1>1. PICK s \in Stopped(dbuf) : DWrite(Extended(dfile.data, s.done)) /\ dbuf' = s.rest
  BY DEF DBufferWriteFails
<1>2. s \in Splits(dbuf)
  BY DEF Stopped
<1>3. /\ Extended(dfile.data, s.done) \in Seq(Whole(Value))
      /\ s.rest \in Seq(Pieces(Value))
      /\ Joins(Extended(dfile.data, s.done), s.rest)
      /\ CellsIn(s.rest) <= BufCapacity
  BY <1>2, DBufferWritten
<1>4. dfile' \in DiskFile /\ dfile'.data = Extended(dfile.data, s.done)
  BY <1>1, <1>3, DWriteIs DEF DiskInv
<1>5. DBuffered'
  BY <1>1, <1>3, <1>4 DEF DBuffered
<1>6. DiskTypes' /\ DiskShape'
  BY <1>1, <1>3, <1>4, DNothing
     DEF DiskInv, DiskTypes, DiskShape, DBufferWriteFails, DFails, DAnswer
<1>7. QED
  BY <1>5, <1>6 DEF DiskInv

(* A record as large as the buffer, written directly, keeps them.          *)
LEMMA DWriteThroughStep == ASSUME DiskInv, DWriteThrough PROVE DiskInv'
<1>1. dpc = "write" /\ dbuf = <<>> /\ dbuf' = dbuf
  BY DEF DWriteThrough, Bypasses
<1>2. Head(dtodo) \in Value /\ Tail(dtodo) \in Seq(Value)
  BY <1>1, DTodoIs
<1>3. dfile' \in DiskFile
  BY <1>2, DFileIs, DFrameWritten, DWriteIs DEF DWriteThrough, DiskInv
<1>4. DiskTypes' /\ DiskShape'
  BY <1>1, <1>2, <1>3 DEF DiskInv, DiskTypes, DiskShape, DWriteThrough, DGoto
<1>5. QED
  BY <1>1, <1>4, DBufferNone DEF DiskInv

(* So it does when the write fails half-way.                               *)
LEMMA DWriteThroughFailsStep == ASSUME DiskInv, DWriteThroughFails PROVE DiskInv'
<1>1. dpc = "write" /\ dbuf = <<>> /\ dbuf' = dbuf
  BY DEF DWriteThroughFails, Bypasses
<1>2. Head(dtodo) \in Value
  BY <1>1, DTodoIs
<1>3. PICK s \in Stopped(<<DFrame(Head(dtodo))>>) : DWrite(dfile.data \o s.done)
  BY DEF DWriteThroughFails
<1>4. dfile.data \o s.done \in Seq(Whole(Value))
  BY <1>2, DFileIs, DFrameWritten DEF DiskInv, Stopped
<1>5. dfile' \in DiskFile
  BY <1>3, <1>4, DWriteIs DEF DiskInv
<1>6. DiskTypes' /\ DiskShape'
  BY <1>1, <1>5, DNothing DEF DiskInv, DiskTypes, DiskShape, DWriteThroughFails, DFails, DAnswer
<1>7. QED
  BY <1>1, <1>6, DBufferNone DEF DiskInv

(* The index update at the end of persist_batch keeps them.                *)
LEMMA IndexStep == ASSUME DiskInv, Index PROVE DiskInv'
<1>1. dfile' \in DiskFile /\ dfile'.data = dfile.data
  BY DSyncIs DEF Index, DiskInv
<1>2. Absorbed(index, dgiven) \in [Ids -> Nat]
  BY AbsorbedIs DEF DiskInv, DiskTypes
<1>3. DiskTypes' /\ DiskShape'
  BY <1>1, <1>2, DNothing DEF DiskInv, DiskTypes, DiskShape, Index, DAnswer
<1>4. DBuffered'
  BY <1>1, DBufferSame DEF Index, DiskInv
<1>5. QED
  BY <1>3, <1>4 DEF DiskInv

(* A failed sync keeps them.                                               *)
LEMMA DSyncFailsStep == ASSUME DiskInv, DSyncFails PROVE DiskInv'
<1>1. DiskTypes' /\ DiskShape'
  BY DNothing DEF DiskInv, DiskTypes, DiskShape, DSyncFails, DFails, DAnswer
<1>2. DBuffered'
  BY DBufferSame DEF DSyncFails, DiskInv
<1>3. QED
  BY <1>1, <1>2 DEF DiskInv

(* Losing the store's memory keeps them, if the file is a file.            *)
LEMMA DClosedStep ==
  ASSUME DiskInv, dfile' \in DiskFile, DClosed PROVE DiskInv'
<1>1. DiskTypes' /\ DiskShape'
  BY DNothing DEF DiskTypes, DiskShape, DClosed
<1>2. DBuffered'
  BY DBufferNone DEF DClosed
<1>3. QED
  BY <1>1, <1>2 DEF DiskInv

(* A kill keeps the types of the store.                                    *)
LEMMA DKillStep == ASSUME DiskInv, DKill PROVE DiskInv'
<1>1. PICK s \in Splits(DWriting) : DWrite(Extended(dfile.data, s.done))
  BY DEF DKill
<1>2. dfile.data \in Seq(Whole(Value))
  BY DFileIs DEF DiskInv
<1>3. Extended(dfile.data, s.done) \in Seq(Whole(Value))
  <2>1. CASE DWriting = dbuf
    BY <2>1, DBufferWritten
  <2>2. CASE DWriting = <<DFrame(Head(dtodo))>> /\ dpc = "write"
    BY <1>2, <2>2, DTodoIs, DFrameWritten
  <2>3. CASE DWriting = <<>>
    <3>1. Joins(dfile.data, <<>>)
      BY JoinsNone
    <3>2. Joins(dfile.data, s.done) /\ s.done \in Seq(Pieces(Value))
      BY <1>2, <2>3, <3>1, DNothing, SplitIs, SplitJoins
    <3>3. QED
      BY <1>2, <3>2, ExtendedIs
  <2>4. QED
    BY <2>1, <2>2, <2>3 DEF DWriting
<1>4. dfile' \in DiskFile
  BY <1>1, <1>3, DWriteIs DEF DiskInv
<1>5. QED
  BY <1>4, DClosedStep DEF DKill

(* A power loss keeps them.                                                *)
LEMMA DPowerLossStep == ASSUME DiskInv, DPowerLoss PROVE DiskInv'
<1>1. CASE \E d \in Images(dfile) : dfile' = [data |-> d, hard |-> d]
  <2>1. PICK d \in Images(dfile) : dfile' = [data |-> d, hard |-> d]
    BY <1>1
  <2>2. d \in Seq(Whole(Value))
    BY DFileIs, DNothing, ImagesAre, CutIs DEF DiskInv
  <2>3. QED
    BY <2>1, <2>2, DClosedStep DEF DiskFile, DPowerLoss
<1>2. CASE dfile' = Empty
  BY <1>2, DNothing, DClosedStep DEF Empty, DiskFile, DPowerLoss
<1>3. QED
  BY <1>1, <1>2 DEF DPowerLoss

(* The types of the store hold before the first open.                      *)
LEMMA DiskInitially == ASSUME DInit PROVE DiskInv
<1>1. DiskTypes
  BY DNothing DEF DInit, DiskTypes, DiskFile, Empty
<1>2. DiskShape
  BY DEF DInit, DiskShape
<1>3. DBuffered
  BY JoinsNone, CellsEmpty, FilesAssumption DEF DInit, DBuffered
<1>4. QED
  BY <1>1, <1>2, <1>3 DEF DiskInv

(* They hold as long as no variable of the store changes.                  *)
LEMMA DiskSame == ASSUME DiskInv, UNCHANGED diskVars PROVE DiskInv'
<1>1. DiskTypes' /\ DiskShape'
  BY DEF DiskInv, DiskTypes, DiskShape, diskVars
<1>2. DBuffered'
  BY DBufferSame DEF diskVars, DiskInv
<1>3. QED
  BY <1>1, <1>2 DEF DiskInv

-----------------------------------------------------------------------------
(* The engine, and the system                                              *)

(* What the engine is doing.                                               *)
Steps == {"starting", "idle", "flush", "durable", "persist", "trim"}

(* The types of the engine's variables.                                    *)
EngineTypes ==
  /\ step \in Steps
  /\ unsent \subseteq Plain \union Durable
  /\ dirty \in [Ids -> Value \union {None}]
  /\ batch \in Seq(LogRecords)
  /\ nextLsn \in Nat \ {0}

(* The types of the log, of the store and of the engine.                   *)
TypeInv == WalInv /\ DiskInv /\ EngineTypes

(* The writes that callers submit are values, and so is what a log record  *)
(* says.                                                                   *)
LEMMA WritesAre ==
  /\ Plain \union Durable \subseteq Value
  /\ \A w \in Value : w.id \in Ids /\ w.ver \in Nat /\ w.blob \in Nat
  /\ \A r \in LogRecords : r.id \in Ids /\ r.ver \in Nat /\ r.blob \in Nat /\ State(r) \in Value
<1>1. Plain \union Durable \subseteq Value
  BY WritesAssumption DEF Value
<1>2. \A r \in Records : r.id \in Ids /\ r.ver \in Nat /\ r.blob \in Nat
  BY DEF Records
<1>3. \A r \in LogRecords : State(r) \in Value
  BY <1>2, RecordIs DEF Value, State
<1>4. QED
  BY <1>1, <1>2, <1>3, RecordIs DEF Value

(* A batch with its LSNs is made of log records.                           *)
LEMMA StampedLogs ==
  ASSUME NEW ws \in Seq(Value), nextLsn \in Nat \ {0}
  PROVE  /\ Stamped(ws) \in Seq(LogRecords) /\ Len(Stamped(ws)) = Len(ws)
         /\ \A k \in 1..Len(ws) : Stamped(ws)[k].lsn = nextLsn + k - 1
<1>1. /\ Stamped(ws) \in Seq(Records) /\ Len(Stamped(ws)) = Len(ws)
      /\ \A k \in 1..Len(ws) : Stamped(ws)[k].lsn = nextLsn + k - 1
  BY StampedIs
<1>2. \A k \in 1..Len(ws) : nextLsn + k - 1 > 0 /\ Stamped(ws)[k] \in Records
  BY <1>1
<1>3. \A k \in 1..Len(Stamped(ws)) : Stamped(ws)[k] \in LogRecords
  BY <1>1, <1>2 DEF LogRecords
<1>4. QED
  BY <1>1, <1>3, SeqIntro

(* Every step of the log's start keeps the types of the log.               *)
LEMMA WStartingStep == ASSUME WalInv, WStarting PROVE WalInv'
  BY OpenStep, WriteHeaderStep, SyncHeaderStep, RecoverStep, SyncCutStep, SyncCutNameStep
     DEF WStarting

(* Every step of append_batch and of checkpoint keeps them.                *)
LEMMA LogWorksStep == ASSUME WalInv, WAppending \/ WCheckpointing PROVE WalInv'
  BY CopyStep, SpillStep, WriteThroughStep, FlushBufferStep, CommitStep,
     BufferWriteFailsStep, WriteThroughFailsStep, StepFailsStep, CollectStep,
     WriteTempStep, SyncTempStep, RenameStep, SyncDirStep, ReopenStep
     DEF WAppending, WCheckpointing

(* Every step of persist_batch keeps the types of the store.               *)
LEMMA DPersistingStep == ASSUME DiskInv, DPersisting PROVE DiskInv'
  BY DCopyStep, DSpillStep, DWriteThroughStep, DFlushBufferStep, IndexStep,
     DBufferWriteFailsStep, DWriteThroughFailsStep, DSyncFailsStep
     DEF DPersisting

(* Dirty entries stay entries when recovered records or a failed batch are *)
(* put back.                                                               *)
LEMMA DirtyPut ==
  ASSUME EngineTypes, NEW ws \in Seq(LogRecords)
  PROVE  PutAll(dirty, ws) \in [Ids -> Value \union {None}]
<1>1. \A k \in 1..Len(ws) : ws[k].id \in Ids /\ ws[k].ver \in Nat /\ ws[k].blob \in Nat
  BY WritesAre
<1>2. dirty \in [Ids -> Value \union {None}]
  BY DEF EngineTypes
<1>3. QED
  BY <1>1, <1>2, PutAllIs

(* What flush_batch hands to the store are values.                         *)
LEMMA BatchStates ==
  ASSUME EngineTypes
  PROVE  [k \in DOMAIN batch |-> State(batch[k])] \in Seq(Value)
<1>1. batch \in Seq(LogRecords)
  BY DEF EngineTypes
<1>2. PICK n \in Nat : DOMAIN batch = 1..n /\ n = Len(batch)
  BY <1>1
<1>3. \A k \in 1..n : State(batch[k]) \in Value
  BY <1>1, <1>2, WritesAre
<1>4. QED
  BY <1>2, <1>3, IsASeq

(* What the engine logs: of a flush the dirty writes, of a durable submit  *)
(* the one write.                                                          *)
LEMMA LoggedWrites ==
  ASSUME TypeInv, Flush \/ \E w \in Plain \union Durable : SubmitDurable(w)
  PROVE  \E ws \in Seq(Value), call \in {"flush", "durable"} :
           /\ step = "idle" /\ LogBatch(ws, call) /\ ws # <<>>
           /\ dirty' \in [Ids -> Value \union {None}]
           /\ unsent' \subseteq Plain \union Durable
           /\ (call = "durable" => dirty' = dirty)
<1>1. CASE Flush
  <2>1. PICK taken \in SUBSET Dirty :
          /\ taken # {} /\ LogBatch(SetToSeq(taken), "flush")
          /\ dirty' = [i \in Ids |-> IF dirty[i] \in taken THEN None ELSE dirty[i]]
    BY <1>1 DEF Flush
  <2>2. dirty \in [Ids -> Value \union {None}]
    BY DEF TypeInv, EngineTypes
  <2>3. SetToSeq(taken) \in Seq(Value) /\ SetToSeq(taken) # <<>>
    BY <2>1, <2>2, DirtyListed, WritesAssumption
  <2>4. dirty' \in [Ids -> Value \union {None}]
    BY <2>1, <2>2
  <2>5. QED
    BY <1>1, <2>1, <2>3, <2>4 DEF Flush, TypeInv, EngineTypes
<1>2. CASE \E w \in Plain \union Durable : SubmitDurable(w)
  <2>1. PICK w \in Plain \union Durable : SubmitDurable(w)
    BY <1>2
  <2>2. <<w>> \in Seq(Value) /\ <<w>> # <<>>
    BY One, WritesAre
  <2>3. QED
    BY <2>1, <2>2 DEF SubmitDurable, TypeInv, EngineTypes
<1>3. QED
  BY <1>1, <1>2

(* The types hold initially.                                               *)
LEMMA TypeInitially == ASSUME Init PROVE TypeInv
<1>1. EngineTypes
  BY EmptySeq DEF Init, EngineTypes, Steps
<1>2. QED
  BY <1>1, WalInitially, DiskInitially DEF Init, TypeInv

(* Every step keeps the types.                                             *)
LEMMA TypeStep == ASSUME TypeInv, [Next]_vars PROVE TypeInv'
<1> USE DEF TypeInv
<1>1. CASE UNCHANGED vars
  BY <1>1, WalSame, DiskSame DEF vars, engineVars, EngineTypes
<1>2. CASE StartStore
  BY <1>2, WalSame, DOpenStep, DSyncCutStep DEF StartStore, DStarting, engineVars, EngineTypes
<1>3. CASE StartLog
  BY <1>3, WStartingStep, DiskSame DEF StartLog, engineVars, EngineTypes
<1>4. CASE Started
  <2>1. WalInv' /\ DiskInv'
    BY <1>4, StartedWal, DiskSame DEF Started
  <2>2. recovered \in Seq(LogRecords) /\ lastLsn \in Nat
    BY DEF WalInv, WalTypes
  <2>3. EngineTypes'
    BY <1>4, <2>2, DirtyPut DEF Started, EngineTypes, Steps
  <2>4. QED
    BY <2>1, <2>3
<1>5. ASSUME NEW w \in Plain \union Durable, Accept(w) PROVE TypeInv'
  <2>1. WalInv' /\ DiskInv'
    BY <1>5, WalSame, DiskSame DEF Accept
  <2>2. w.id \in Ids /\ w.ver \in Nat /\ w.blob \in Nat
    BY WritesAre
  <2>3. dirty' \in [Ids -> Value \union {None}]
    BY <1>5, <2>2, PutIs DEF Accept, EngineTypes
  <2>4. QED
    BY <1>5, <2>1, <2>3 DEF Accept, EngineTypes
<1>6. CASE Flush \/ \E w \in Plain \union Durable : SubmitDurable(w)
  <2>1. PICK ws \in Seq(Value), call \in {"flush", "durable"} :
           /\ LogBatch(ws, call)
           /\ dirty' \in [Ids -> Value \union {None}]
           /\ unsent' \subseteq Plain \union Durable
    BY <1>6, LoggedWrites
  <2>2. Stamped(ws) \in Seq(LogRecords) /\ Len(ws) \in Nat /\ nextLsn \in Nat \ {0}
    BY StampedLogs DEF EngineTypes
  <2>3. WalInv' /\ DiskInv'
    BY <2>1, <2>2, AppendBatchStep, DiskSame DEF LogBatch
  <2>4. EngineTypes'
    BY <2>1, <2>2 DEF LogBatch, EngineTypes, Steps
  <2>5. QED
    BY <2>3, <2>4
<1>7. CASE DurableAnswered
  <2>1. WalInv' /\ DiskInv'
    BY <1>7, WalSame, DiskSame DEF DurableAnswered
  <2>2. PutAll(dirty, batch) \in [Ids -> Value \union {None}]
    BY DirtyPut DEF EngineTypes
  <2>3. QED
    BY <1>7, <2>1, <2>2, EmptySeq DEF DurableAnswered, EngineTypes, Steps
<1>8. CASE Logged
  <2>1. WalInv' /\ DiskInv'
    BY <1>8, WalSame, BatchStates, PersistBatchStep DEF Logged
  <2>2. QED
    BY <1>8, <2>1 DEF Logged, EngineTypes, Steps
<1>9. CASE Requeue
  <2>1. WalInv' /\ DiskInv'
    BY <1>9, WalSame, DiskSame DEF Requeue
  <2>2. PutAll(dirty, batch) \in [Ids -> Value \union {None}]
    BY DirtyPut DEF EngineTypes
  <2>3. QED
    BY <1>9, <2>1, <2>2, EmptySeq DEF Requeue, EngineTypes, Steps
<1>10. CASE Retry
  <2>1. WalInv' /\ DiskInv'
    BY <1>10, WalSame, BatchStates, PersistBatchStep DEF Retry
  <2>2. QED
    BY <1>10, <2>1 DEF Retry, EngineTypes, engineVars
<1>11. CASE Persisted
  <2>1. PICK n \in 0..(nextLsn - 1) : CheckpointCall(n)
    BY <1>11 DEF Persisted
  <2>2. n \in Nat
    BY DEF EngineTypes
  <2>3. WalInv' /\ DiskInv'
    BY <1>11, <2>1, <2>2, CheckpointCallStep, DiskSame DEF Persisted
  <2>4. QED
    BY <1>11, <2>3, EmptySeq DEF Persisted, EngineTypes, Steps
<1>12. CASE FlushLog
  <2>1. WalInv' /\ DiskInv'
    BY <1>12, FlushCallStep, DiskSame DEF FlushLog
  <2>2. QED
    BY <1>12, <2>1 DEF FlushLog, EngineTypes, Steps
<1>13. CASE Trimmed
  <2>1. WalInv' /\ DiskInv'
    BY <1>13, WalSame, DiskSame DEF Trimmed
  <2>2. QED
    BY <1>13, <2>1 DEF Trimmed, EngineTypes, Steps
<1>14. CASE LogWorks
  BY <1>14, LogWorksStep, DiskSame DEF LogWorks, engineVars, EngineTypes
<1>15. CASE StoreWorks
  BY <1>15, DPersistingStep, WalSame DEF StoreWorks, engineVars, EngineTypes
<1>16. CASE Kill
  <2>1. WalInv' /\ DiskInv'
    BY <1>16, WKillStep, DKillStep DEF Kill
  <2>2. QED
    BY <1>16, <2>1, EmptySeq DEF Kill, EngineGone, EngineTypes, Steps
<1>17. CASE PowerLoss
  <2>1. WalInv' /\ DiskInv'
    BY <1>17, WPowerLossStep, DPowerLossStep DEF PowerLoss
  <2>2. QED
    BY <1>17, <2>1, EmptySeq DEF PowerLoss, EngineGone, EngineTypes, Steps
<1> HIDE DEF TypeInv
<1>18. QED
  BY <1>1, <1>2, <1>3, <1>4, <1>5, <1>6, <1>7, <1>8, <1>9, <1>10, <1>11, <1>12,
     <1>13, <1>14, <1>15, <1>16, <1>17 DEF Next

(* The inductive invariant is stronger than the property.                  *)
LEMMA TypeInvGives == TypeInv => TypeOK
<1> SUFFICES ASSUME TypeInv PROVE TypeOK
  OBVIOUS
<1> USE DEF TypeInv
<1>1. WalTypes /\ Names
  BY DEF WalInv
<1>2. ASSUME NEW i \in Inodes, NEW k \in DOMAIN file[i].data
      PROVE  LET p == file[i].data[k]
             IN  /\ p.rec = Header.rec \/ p.rec \in Records
                 /\ p.from = 0 /\ 0 < p.to /\ p.to <= p.len
  <2>1. file[i].data \in Seq(SegPiece)
    BY <1>1, SegmentIs DEF WalTypes, File
  <2>2. file[i].data[k] \in SegPiece
    BY <2>1
  <2>3. PICK p : p = file[i].data[k]
    OBVIOUS
  <2>4. /\ p \in [rec : Contents, len : Nat, from : Nat, to : Nat]
        /\ p.from = 0 /\ p.from < p.to /\ p.to <= p.len
    BY <2>2, <2>3 DEF SegPiece, Whole, Pieces
  <2>5. p.rec \in Contents /\ 0 < p.to
    BY <2>4
  <2>6. p.rec = Header.rec \/ p.rec \in Records
    BY <2>5, RecordIs DEF Contents
  <2>7. QED
    BY <2>3, <2>4, <2>5, <2>6
<1>3. {active, temp, handle} \union stale \subseteq Inodes \union {0}
  BY <1>1 DEF WalTypes
<1>4. (handle = 0) = (wpc = "closed")
  BY <1>1 DEF Names
<1>5. temp # 0 => temp \notin {active, handle} \union stale
  BY <1>1 DEF Names
<1>6. CellsIn(wbuf) <= BufCapacity /\ CellsIn(dbuf) <= BufCapacity
  BY DEF WalInv, WBuffered, DiskInv, DBuffered
<1>7. acked \union answered \subseteq Records /\ sure \subseteq acked /\ lastLsn \in Nat
  BY <1>1, RecordIs DEF WalTypes
<1>8. index \in [Ids -> Nat]
  BY DEF DiskInv, DiskTypes
<1>9. QED
  BY <1>2, <1>3, <1>4, <1>5, <1>6, <1>7, <1>8 DEF TypeOK

(* The variables of the log (wal.rs), of the disk store (disk_kv_store.rs) *)
(* and of the engine between them stay in their types, whatever the        *)
(* crashes, the failed calls and the half-finished writes.                 *)
THEOREM StorageTyped == Spec => []TypeOK
<1>1. Init => TypeInv
  BY TypeInitially
<1>2. TypeInv /\ [Next]_vars => TypeInv'
  BY TypeStep
<1>3. QED
  BY <1>1, <1>2, TypeInvGives, PTL DEF Spec
=============================================================================
