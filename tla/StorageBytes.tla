---------------------------- MODULE StorageBytes ----------------------------
(***************************************************************************)
(* Proof that the decoders of Codec, run over the bytes of a segment or of *)
(* a data file, find what Wal and DiskKv say they find (BytesAgree): no    *)
(* torn or overlong frame passes for a record, wherever a write was cut    *)
(* and whatever was written behind it.                                     *)
(*                                                                         *)
(* A file is laid out frame after frame, each piece the beginning of its   *)
(* frame (Laid); a checksum cell is found only at the end of a whole frame *)
(* (Cellular, LaidCells). At the place of a piece, decode passes when the  *)
(* piece is whole and its length fits a u32 (DecodesWhole), and only then  *)
(* (DecodesOnly): whatever would pass from a torn frame on ends in a       *)
(* checksum, which covers cells from the beginning of its own frame, not   *)
(* from there. So the scan goes from piece to piece and stops at the first *)
(* that cannot be read (ScanIs). The recursive functions of Joined and     *)
(* Scan are shown to exist by the least place at which they would not      *)
(* (JoinExists, WalkExists). That every frame in a file is as long as its  *)
(* record makes it (Measures, DMeasures) is inductive.                     *)
(***************************************************************************)
EXTENDS StorageJournal

-----------------------------------------------------------------------------
(* The cells of one frame                                                  *)

(* A concatenation, place by place.                                        *)
Both(c, s, t) ==
  /\ Len(c) = Len(s) + Len(t)
  /\ \A k \in 1..Len(s) : c[k] = s[k]
  /\ \A k \in 1..Len(t) : c[Len(s) + k] = t[k]

(* Every concatenation is so.                                              *)
LEMMA ConcatAt ==
  ASSUME NEW S, NEW s \in Seq(S), NEW t \in Seq(S)
  PROVE  s \o t \in Seq(S) /\ Both(s \o t, s, t)
<1>1. PICK m \in Nat : m = Len(s)
  OBVIOUS
<1>2. PICK n \in Nat : n = Len(t)
  OBVIOUS
<1>3. /\ s \o t \in Seq(S) /\ Len(s \o t) = m + n
      /\ \A i \in 1..(m + n) : (s \o t)[i] = IF i <= m THEN s[i] ELSE t[i - m]
  BY <1>1, <1>2, ConcatProperties
<1>4. ASSUME NEW k \in 1..m PROVE (s \o t)[k] = s[k]
  <2>1. k \in 1..(m + n) /\ k <= m
    OBVIOUS
  <2>2. QED
    BY <1>3, <2>1
<1>5. ASSUME NEW k \in 1..n PROVE (s \o t)[m + k] = t[k]
  <2>1. m + k \in 1..(m + n) /\ ~(m + k <= m) /\ (m + k) - m = k
    OBVIOUS
  <2>2. QED
    BY <1>3, <2>1
<1>6. QED
  BY <1>1, <1>2, <1>3, <1>4, <1>5 DEF Both

(* A part of a sequence, place by place.                                   *)
LEMMA PartAt ==
  ASSUME NEW S, NEW s \in Seq(S), NEW l \in Nat, Len(s) = l,
         NEW a \in Nat, NEW b \in Nat, a <= b, b <= l
  PROVE  /\ SubSeq(s, a + 1, b) \in Seq(S) /\ Len(SubSeq(s, a + 1, b)) = b - a
         /\ \A k \in 1..(b - a) : SubSeq(s, a + 1, b)[k] = s[a + k]
<1>1. \A i \in (a + 1)..b : s[i] \in S
  <2>1. \A i \in (a + 1)..b : i \in 1..l
    OBVIOUS
  <2>2. \A i \in 1..l : s[i] \in S
    OBVIOUS
  <2>3. QED
    BY <2>1, <2>2
<1>2. /\ SubSeq(s, a + 1, b) \in Seq(S)
      /\ Len(SubSeq(s, a + 1, b)) = IF a + 1 <= b THEN b - (a + 1) + 1 ELSE 0
      /\ \A i \in 1..(b - (a + 1) + 1) : SubSeq(s, a + 1, b)[i] = s[(a + 1) + i - 1]
  <2>1. a + 1 \in Int /\ b \in Int
    OBVIOUS
  <2> DEFINE m == a + 1
  <2>2. \A i \in m..b : s[i] \in S
    BY <1>1
  <2>3. m \in Int
    OBVIOUS
  <2> HIDE DEF m
  <2>4. /\ SubSeq(s, m, b) \in Seq(S)
        /\ Len(SubSeq(s, m, b)) = IF m <= b THEN b - m + 1 ELSE 0
        /\ \A i \in 1..(b - m + 1) : SubSeq(s, m, b)[i] = s[m + i - 1]
    BY <2>1, <2>2, <2>3, SubSeqProperties
  <2>5. QED
    BY <2>4 DEF m
<1>3. Len(SubSeq(s, a + 1, b)) = b - a
  BY <1>2
<1>4. ASSUME NEW k \in 1..(b - a) PROVE SubSeq(s, a + 1, b)[k] = s[a + k]
  <2>1. k \in 1..(b - (a + 1) + 1) /\ (a + 1) + k - 1 = a + k
    OBVIOUS
  <2>2. QED
    BY <1>2, <2>1
<1>5. QED
  BY <1>2, <1>3, <1>4

(* Two sequences of one length that agree everywhere are one.              *)
LEMMA SameSeq ==
  ASSUME NEW S, NEW T, NEW s \in Seq(S), NEW t \in Seq(T), NEW l \in Nat,
         Len(s) = l, Len(t) = l, \A k \in 1..l : s[k] = t[k]
  PROVE  s = t
<1>1. s = [k \in 1..l |-> s[k]]
  <2>1. s \in [1..l -> S]
    BY LenProperties
  <2>2. QED
    BY <2>1
<1>2. t = [k \in 1..l |-> t[k]]
  <2>1. t \in [1..l -> T]
    BY LenProperties
  <2>2. QED
    BY <2>1
<1>3. QED
  BY <1>1, <1>2

(* A sequence of its own values.                                           *)
LEMMA SeqOfFun ==
  ASSUME NEW n \in Nat, NEW S, NEW f, f = [k \in 1..n |-> f[k]], \A k \in 1..n : f[k] \in S
  PROVE  f \in Seq(S) /\ Len(f) = n
<1>1. f \in [1..n -> S]
  OBVIOUS
<1>2. f \in Seq(S)
  BY <1>1, SeqDef
<1>3. QED
  BY <1>1, <1>2

-----------------------------------------------------------------------------
(* What every frame looks like, whatever it encodes: WalRecord::encode and *)
(* encode_record.                                                          *)
FrameLike(F, magic, n) ==
  /\ \E T : F \in Seq(T)
  /\ Len(F) \in Nat /\ 4 + n <= Len(F)
  /\ F[1] = <<"magic", magic>> /\ F[2] = Num(Len(F) % U32)
  /\ F[3 + n] = Num((Len(F) - 4 - n) % U32)
  /\ F[Len(F)] = Crc(SubSeq(F, 1, Len(F) - 1))

(* Its fields and the length of its blob.                                  *)
Carries(F, fields, blob) ==
  LET n == Len(fields)
  IN  /\ Len(F) = 4 + n + blob
      /\ \A k \in 1..n : F[2 + k] = fields[k]
      /\ \A k \in 1..blob : F[3 + n + k] = <<"blob", k>>

(* Framed, put together step by step: each cell at its place.              *)
LEMMA FramedIs ==
  ASSUME NEW magic, NEW S, NEW fields \in Seq(S), NEW blob \in Nat
  PROVE  /\ FrameLike(Framed(magic, fields, blob), magic, Len(fields))
         /\ Carries(Framed(magic, fields, blob), fields, blob)
<1>0. PICK n \in Nat : n = Len(fields)
  OBVIOUS
<1>1. PICK len \in Nat : len = 4 + n + blob
  OBVIOUS
<1> DEFINE a == <<<<"magic", magic>>, Num(len % U32)>>
           d == [k \in 1..blob |-> <<"blob", k>>]
           x == <<Num(blob % U32)>>
           body == a \o fields \o x \o d
<1>2. Framed(magic, fields, blob) = Append(body, Crc(body))
  <2>1. 3 + Len(fields) + blob + 1 = len
    BY <1>0, <1>1
  <2>2. QED
    BY <1>0, <2>1 DEF Framed
<1>3. PICK T : T = {<<"magic", magic>>, Num(len % U32), Num(blob % U32)}
                   \union S \union {<<"blob", k>> : k \in 1..blob}
  OBVIOUS
<1>4. a \in Seq(T) /\ Len(a) = 2 /\ a[1] = <<"magic", magic>> /\ a[2] = Num(len % U32)
  <2>1. \A y, z \in T : <<y, z>> \in Seq(T)
    OBVIOUS
  <2>2. QED
    BY <1>3, <2>1
<1>5. fields \in Seq(T) /\ x \in Seq(T) /\ Len(x) = 1 /\ x[1] = Num(blob % U32)
  <2>1. \A y \in T : <<y>> \in Seq(T)
    OBVIOUS
  <2>2. \A k \in 1..Len(fields) : fields[k] \in T
    BY <1>3
  <2>3. fields \in Seq(T)
    BY <2>2, SeqIntro
  <2>4. QED
    BY <1>3, <2>1, <2>3
<1>6. d \in Seq(T) /\ Len(d) = blob /\ \A k \in 1..blob : d[k] = <<"blob", k>>
  <2>1. \A k \in 1..blob : d[k] \in T /\ d[k] = <<"blob", k>>
    BY <1>3
  <2>2. d = [k \in 1..blob |-> d[k]]
    OBVIOUS
  <2> HIDE DEF d
  <2>3. QED
    BY <2>1, <2>2, SeqOfFun
<1>7. PICK b : b = a \o fields
  OBVIOUS
<1>8. PICK c : c = b \o x
  OBVIOUS
<1>9. PICK e : e = c \o d
  OBVIOUS
<1>10. body = e
  BY <1>7, <1>8, <1>9
<1> HIDE DEF a, d, x, body
<1>11. /\ b \in Seq(T) /\ Len(b) = 2 + n
       /\ \A k \in 1..2 : b[k] = a[k]
       /\ \A k \in 1..n : b[2 + k] = fields[k]
  <2>1. a \in Seq(T) /\ fields \in Seq(T) /\ Len(a) = 2 /\ Len(fields) = n
    BY <1>0, <1>4, <1>5
  <2>2. a \o fields \in Seq(T) /\ Both(a \o fields, a, fields)
    BY <2>1, ConcatAt, Zenon
  <2>3. QED
    BY <1>7, <2>1, <2>2 DEF Both
<1>12. /\ c \in Seq(T) /\ Len(c) = (2 + n) + 1
       /\ \A k \in 1..(2 + n) : c[k] = b[k]
       /\ \A k \in 1..1 : c[(2 + n) + k] = x[k]
  <2>1. b \in Seq(T) /\ x \in Seq(T) /\ Len(b) = 2 + n /\ Len(x) = 1
    BY <1>5, <1>11
  <2>2. b \o x \in Seq(T) /\ Both(b \o x, b, x)
    BY <2>1, ConcatAt, Zenon
  <2>3. QED
    BY <1>8, <2>1, <2>2 DEF Both
<1>13. /\ e \in Seq(T) /\ Len(e) = (3 + n) + blob
       /\ \A k \in 1..(3 + n) : e[k] = c[k]
       /\ \A k \in 1..blob : e[(3 + n) + k] = d[k]
  <2>1. c \in Seq(T) /\ d \in Seq(T) /\ Len(c) = 3 + n /\ Len(d) = blob
    BY <1>6, <1>12
  <2>2. c \o d \in Seq(T) /\ Both(c \o d, c, d)
    BY <2>1, ConcatAt, Zenon
  <2>3. QED
    BY <1>9, <2>1, <2>2 DEF Both
<1>14. PICK U : U = T \union {Crc(e)}
  OBVIOUS
<1>15. PICK F : F = Append(e, Crc(e))
  OBVIOUS
<1>16. Len(e) = len - 1 /\ e \in Seq(U)
  <2>1. Len(e) = len - 1
    BY <1>1, <1>13
  <2>2. \A k \in 1..Len(e) : e[k] \in U
    BY <1>13, <1>14
  <2>3. QED
    BY <1>13, <2>1, <2>2, SeqIntro
<1>17. /\ F \in Seq(U) /\ Len(F) = len /\ F[len] = Crc(e)
       /\ \A k \in 1..(len - 1) : F[k] = e[k]
  <2>1. Crc(e) \in U /\ (len - 1) + 1 = len
    BY <1>1, <1>14
  <2>2. /\ Append(e, Crc(e)) \in Seq(U) /\ Len(Append(e, Crc(e))) = Len(e) + 1
        /\ \A i \in 1..Len(e) : Append(e, Crc(e))[i] = e[i]
        /\ Append(e, Crc(e))[Len(e) + 1] = Crc(e)
    BY <1>16, <2>1, AppendProperties
  <2>3. QED
    BY <1>15, <1>16, <2>1, <2>2
<1>18. SubSeq(F, 1, len - 1) = e
  <2>1. len - 1 \in Nat /\ 0 \in Nat /\ 0 <= len - 1 /\ len - 1 <= len /\ 0 + 1 = 1
        /\ (len - 1) - 0 = len - 1 /\ \A k \in 1..(len - 1) : 0 + k = k
    BY <1>1
  <2>2. PICK z : z = len - 1
    OBVIOUS
  <2>3. /\ SubSeq(F, 0 + 1, z) \in Seq(U) /\ Len(SubSeq(F, 0 + 1, z)) = z - 0
        /\ \A k \in 1..(z - 0) : SubSeq(F, 0 + 1, z)[k] = F[0 + k]
    BY <1>1, <1>17, <2>1, <2>2, PartAt
  <2>4. \A k \in 1..(len - 1) : SubSeq(F, 1, len - 1)[k] = e[k]
    BY <1>17, <2>1, <2>2, <2>3
  <2>5. SubSeq(F, 1, len - 1) \in Seq(U) /\ Len(SubSeq(F, 1, len - 1)) = len - 1
    BY <2>1, <2>2, <2>3
  <2>6. QED
    BY <1>16, <2>1, <2>4, <2>5, SameSeq
<1>19. F = Framed(magic, fields, blob)
  BY <1>2, <1>10, <1>15
<1>20. F[1] = <<"magic", magic>> /\ F[2] = Num(len % U32)
  <2>1. 1 \in 1..(len - 1) /\ 2 \in 1..(len - 1) /\ 1 \in 1..(3 + n) /\ 2 \in 1..(3 + n)
        /\ 1 \in 1..(2 + n) /\ 2 \in 1..(2 + n) /\ 1 \in 1..2 /\ 2 \in 1..2
    BY <1>1
  <2>2. QED
    BY <1>4, <1>11, <1>12, <1>13, <1>17, <2>1
<1>21. ASSUME NEW k \in 1..n PROVE F[2 + k] = fields[k]
  <2>1. 2 + k \in 1..(len - 1) /\ 2 + k \in 1..(3 + n) /\ 2 + k \in 1..(2 + n)
    BY <1>1
  <2>2. QED
    BY <1>11, <1>12, <1>13, <1>17, <2>1
<1>22. F[3 + n] = Num(blob % U32)
  <2>1. 3 + n \in 1..(len - 1) /\ 3 + n \in 1..(3 + n) /\ 1 \in 1..1 /\ (2 + n) + 1 = 3 + n
    BY <1>1
  <2>2. QED
    BY <1>5, <1>12, <1>13, <1>17, <2>1
<1>23. ASSUME NEW k \in 1..blob PROVE F[3 + n + k] = <<"blob", k>>
  <2>1. 3 + n + k \in 1..(len - 1) /\ (3 + n) + k = 3 + n + k
    BY <1>1
  <2>2. QED
    BY <1>6, <1>13, <1>17, <2>1
<1>24. F[len] = Crc(SubSeq(F, 1, len - 1))
  BY <1>17, <1>18
<1>25. len - 4 - n = blob /\ 4 + n <= len
  BY <1>1
<1>26. QED
  <2>1. FrameLike(F, magic, n)
    BY <1>1, <1>17, <1>20, <1>22, <1>24, <1>25 DEF FrameLike
  <2>2. Carries(F, fields, blob)
    BY <1>0, <1>1, <1>17, <1>21, <1>23 DEF Carries
  <2>3. QED
    BY <1>0, <1>19, <2>1, <2>2

(* A checksum is the last cell of what it covers, and the numbers of a     *)
(* frame are naturals.                                                     *)
Cellular(F) ==
  \A k \in 1..Len(F) :
    /\ F[k][1] = "crc" => k = Len(F) /\ F[k] = Crc(SubSeq(F, 1, k - 1))
    /\ F[k][1] = "num" => F[k][2] \in Nat

(* So are the cells of every frame (WalRecord::encode, encode_record).     *)
LEMMA FramedCellular ==
  ASSUME NEW magic, NEW S, NEW fields \in Seq(S), NEW blob \in Nat, NEW n \in Nat,
         n = Len(fields), U32 \in Nat, HEADER_LEN < U32,
         \A k \in 1..n : /\ fields[k][1] \in {"num", "id"}
                         /\ fields[k][1] = "num" => fields[k][2] \in Nat
  PROVE  Cellular(Framed(magic, fields, blob))
<1>1. PICK F : F = Framed(magic, fields, blob)
  OBVIOUS
<1>2. PICK len \in Nat : len = 4 + n + blob
  OBVIOUS
<1>3. FrameLike(F, magic, n) /\ Len(F) = len
      /\ (\A k \in 1..n : F[2 + k] = fields[k])
      /\ \A k \in 1..blob : F[3 + n + k] = <<"blob", k>>
  <2>1. FrameLike(F, magic, Len(fields)) /\ Carries(F, fields, blob)
    BY <1>1, FramedIs, Zenon
  <2>2. QED
    BY <1>2, <2>1 DEF Carries
<1>4. \A x \in Int : x % U32 \in Nat
  BY HeaderIs
<1>5. F[1] = <<"magic", magic>> /\ F[2] = Num(len % U32) /\ F[3 + n] = Num((len - 4 - n) % U32)
      /\ F[len] = Crc(SubSeq(F, 1, len - 1))
  BY <1>3 DEF FrameLike
<1>6. F[1][1] = "magic" /\ F[2][1] = "num" /\ F[2][2] \in Nat
      /\ F[3 + n][1] = "num" /\ F[3 + n][2] \in Nat /\ F[len][1] = "crc"
  <2>1. PICK x \in Nat : x = len % U32
    BY <1>4
  <2>2. len - 4 - n \in Int
    BY <1>2
  <2>3. PICK y \in Nat : y = (len - 4 - n) % U32
    BY <1>4, <2>2
  <2>4. F[2] = <<"num", x>> /\ F[3 + n] = <<"num", y>>
    BY <1>5, <2>1, <2>3 DEF Num
  <2>5. F[len][1] = "crc"
    BY <1>5 DEF Crc
  <2>6. F[2][1] = "num" /\ F[2][2] = x /\ F[3 + n][1] = "num" /\ F[3 + n][2] = y
    BY <2>4
  <2>7. QED
    BY <1>5, <2>5, <2>6
<1>7. ASSUME NEW k \in 1..len, k # len
      PROVE  F[k][1] # "crc" /\ (F[k][1] = "num" => F[k][2] \in Nat)
  <2>1. CASE k = 1 \/ k = 2 \/ k = 3 + n
    BY <1>6, <2>1
  <2>2. CASE k \in 3..(2 + n)
    <3>1. k - 2 \in 1..n /\ 2 + (k - 2) = k
      BY <2>2
    <3>2. F[k] = fields[k - 2]
      BY <1>3, <3>1
    <3>3. QED
      BY <3>1, <3>2
  <2>3. CASE k \in (4 + n)..(len - 1)
    <3>1. k - 3 - n \in 1..blob /\ 3 + n + (k - 3 - n) = k
      BY <1>2, <2>3
    <3>2. F[k] = <<"blob", k - 3 - n>>
      BY <1>3, <3>1
    <3>3. F[k][1] = "blob"
      BY <3>2
    <3>4. QED
      BY <3>3
  <2>4. QED
    BY <1>2, <1>7, <2>1, <2>2, <2>3
<1>8. QED
  BY <1>1, <1>3, <1>5, <1>6, <1>7 DEF Cellular

(* The frame of a log record: WalRecord::encode.                           *)
LEMMA EncodeWalIs ==
  ASSUME NEW r \in LogRecords, U32 \in Nat, HEADER_LEN < U32
  PROVE  LET F == EncodeWal(r)
         IN  /\ FrameLike(F, "FLXR", 3) /\ Cellular(F) /\ Len(F) = WalCells(r)
             /\ F[3] = Num(r.lsn) /\ F[4] = <<"id", r.id>> /\ F[5] = Num(r.ver)
<1>1. r.lsn \in Nat /\ r.ver \in Nat /\ r.blob \in Nat
  BY RecordIs
<1> DEFINE f == <<Num(r.lsn), <<"id", r.id>>, Num(r.ver)>>
<1>2. PICK S : S = {Num(r.lsn), <<"id", r.id>>, Num(r.ver)}
  OBVIOUS
<1>3. f \in Seq(S) /\ Len(f) = 3 /\ f[1] = Num(r.lsn) /\ f[2] = <<"id", r.id>> /\ f[3] = Num(r.ver)
  <2>1. \A x, y, z \in S : <<x, y, z>> \in Seq(S)
    OBVIOUS
  <2>2. QED
    BY <1>2, <2>1
<1>4. EncodeWal(r) = Framed("FLXR", f, r.blob)
  BY DEF EncodeWal
<1>5. /\ f[1][1] = "num" /\ f[1][2] \in Nat /\ f[2][1] = "id" /\ f[3][1] = "num" /\ f[3][2] \in Nat
  BY <1>1, <1>3 DEF Num
<1> HIDE DEF f
<1>6. \A k \in 1..3 : f[k][1] \in {"num", "id"} /\ (f[k][1] = "num" => f[k][2] \in Nat)
  <2>1. \A k \in 1..3 : k = 1 \/ k = 2 \/ k = 3
    OBVIOUS
  <2>2. QED
    BY <1>5, <2>1
<1>7. PICK F : F = Framed("FLXR", f, r.blob)
  OBVIOUS
<1>8. FrameLike(F, "FLXR", 3) /\ Len(F) = 4 + 3 + r.blob /\ \A k \in 1..3 : F[2 + k] = f[k]
  <2>1. f \in Seq(S) /\ r.blob \in Nat
    BY <1>1, <1>3
  <2>2. FrameLike(F, "FLXR", Len(f)) /\ Carries(F, f, r.blob)
    BY <1>7, <2>1, FramedIs, Zenon
  <2>3. QED
    BY <1>3, <2>2 DEF Carries
<1>9. Cellular(F)
  BY <1>1, <1>3, <1>6, <1>7, FramedCellular
<1>10. F[3] = f[1] /\ F[4] = f[2] /\ F[5] = f[3]
  <2>1. 1 \in 1..3 /\ 2 \in 1..3 /\ 3 \in 1..3 /\ 2 + 1 = 3 /\ 2 + 2 = 4 /\ 2 + 3 = 5
    OBVIOUS
  <2>2. QED
    BY <1>8, <2>1
<1>11. Len(F) = WalCells(r)
  BY <1>1, <1>8 DEF WalCells
<1>12. QED
  BY <1>3, <1>4, <1>7, <1>8, <1>9, <1>10, <1>11

(* The frame of a state: encode_record.                                    *)
LEMMA EncodeRecordIs ==
  ASSUME NEW s \in Value, U32 \in Nat, HEADER_LEN < U32
  PROVE  LET F == EncodeRecord(s)
         IN  /\ FrameLike(F, "DBVK", 2) /\ Cellular(F) /\ Len(F) = RecordCells(s)
             /\ F[3] = <<"id", s.id>> /\ F[4] = Num(s.ver)
<1>1. s.ver \in Nat /\ s.blob \in Nat
  BY DEF Value
<1> DEFINE f == <<<<"id", s.id>>, Num(s.ver)>>
<1>2. PICK S : S = {<<"id", s.id>>, Num(s.ver)}
  OBVIOUS
<1>3. f \in Seq(S) /\ Len(f) = 2 /\ f[1] = <<"id", s.id>> /\ f[2] = Num(s.ver)
  <2>1. \A x, y \in S : <<x, y>> \in Seq(S)
    OBVIOUS
  <2>2. QED
    BY <1>2, <2>1
<1>4. EncodeRecord(s) = Framed("DBVK", f, s.blob)
  BY DEF EncodeRecord
<1>5. /\ f[1][1] = "id" /\ f[2][1] = "num" /\ f[2][2] \in Nat
  BY <1>1, <1>3 DEF Num
<1> HIDE DEF f
<1>6. \A k \in 1..2 : f[k][1] \in {"num", "id"} /\ (f[k][1] = "num" => f[k][2] \in Nat)
  <2>1. \A k \in 1..2 : k = 1 \/ k = 2
    OBVIOUS
  <2>2. QED
    BY <1>5, <2>1
<1>7. PICK F : F = Framed("DBVK", f, s.blob)
  OBVIOUS
<1>8. FrameLike(F, "DBVK", 2) /\ Len(F) = 4 + 2 + s.blob /\ \A k \in 1..2 : F[2 + k] = f[k]
  <2>1. f \in Seq(S) /\ s.blob \in Nat
    BY <1>1, <1>3
  <2>2. FrameLike(F, "DBVK", Len(f)) /\ Carries(F, f, s.blob)
    BY <1>7, <2>1, FramedIs, Zenon
  <2>3. QED
    BY <1>3, <2>2 DEF Carries
<1>9. Cellular(F)
  BY <1>1, <1>3, <1>6, <1>7, FramedCellular
<1>10. F[3] = f[1] /\ F[4] = f[2]
  <2>1. 1 \in 1..2 /\ 2 \in 1..2 /\ 2 + 1 = 3 /\ 2 + 2 = 4
    OBVIOUS
  <2>2. QED
    BY <1>8, <2>1
<1>11. Len(F) = RecordCells(s)
  BY <1>1, <1>8 DEF RecordCells
<1>12. QED
  BY <1>3, <1>4, <1>7, <1>8, <1>9, <1>10, <1>11

(* The magic of a segment is of another kind.                              *)
LEMMA MagicIs ==
  /\ Cellular(HEADER_MAGIC) /\ Len(HEADER_MAGIC) = 2
  /\ HEADER_MAGIC[1] = <<"file", 1>> /\ HEADER_MAGIC[2] = <<"file", 2>>
  /\ \E T : HEADER_MAGIC \in Seq(T)
<1>1. Len(HEADER_MAGIC) = 2 /\ HEADER_MAGIC[1] = <<"file", 1>> /\ HEADER_MAGIC[2] = <<"file", 2>>
  BY DEF HEADER_MAGIC
<1>2. PICK T : T = {<<"file", 1>>, <<"file", 2>>}
  OBVIOUS
<1>3. HEADER_MAGIC \in Seq(T)
  <2>1. \A x, y \in T : <<x, y>> \in Seq(T)
    OBVIOUS
  <2>2. QED
    BY <1>2, <2>1 DEF HEADER_MAGIC
<1>4. \A k \in 1..2 : HEADER_MAGIC[k][1] = "file"
  <2>1. \A k \in 1..2 : k = 1 \/ k = 2
    OBVIOUS
  <2>2. QED
    BY <1>1, <2>1
<1>5. QED
  BY <1>1, <1>3, <1>4 DEF Cellular

-----------------------------------------------------------------------------
(* The cells of a file                                                     *)

(* The pieces lie one after the other ...                                  *)
LEMMA CountsRise ==
  ASSUME NEW R, NEW ps \in Seq(Pieces(R)), NEW u, Counts(u, ps)
  PROVE  \A j, k \in 0..Len(ps) : j < k => u[j] < u[k]
<1>1. PICK l \in Nat : l = Len(ps)
  OBVIOUS
<1>2. /\ u \in [0..l -> Nat]
      /\ \A k \in 1..l : Size(ps[k]) \in Nat \ {0} /\ u[k] = u[k - 1] + Size(ps[k])
  <2>1. \A k \in 1..l : ps[k] \in Pieces(R)
    BY <1>1
  <2>2. QED
    BY <1>1, <2>1, SizeIs DEF Counts
<1>3. ASSUME NEW j \in 0..l PROVE \A k \in 0..l : j < k => u[j] < u[k]
  <2> DEFINE Failing == {k \in 0..l : j < k /\ ~(u[j] < u[k])}
  <2>1. Failing \in SUBSET Nat
    OBVIOUS
  <2>2. ASSUME Failing # {} PROVE FALSE
    <3>1. PICK n \in Failing : \A m \in Failing : n <= m
      <4> HIDE DEF Failing
      <4>1. QED
        BY <2>1, <2>2, Least
    <3>2. n \in 0..l /\ j < n /\ ~(u[j] < u[n])
      BY <3>1
    <3>3. n \in 1..l /\ n - 1 \in 0..l /\ n - 1 < n /\ (n - 1 = j \/ j < n - 1)
      BY <3>2
    <3>4. n - 1 \notin Failing
      <4> HIDE DEF Failing
      <4>1. QED
        BY <2>1, <3>1, <3>3
    <3>5. u[j] <= u[n - 1]
      <4>1. u[j] \in Nat /\ u[n - 1] \in Nat
        BY <1>2, <3>3
      <4>2. CASE n - 1 = j
        BY <4>1, <4>2
      <4>3. CASE j < n - 1
        <5>1. u[j] < u[n - 1]
          BY <3>3, <3>4, <4>3
        <5>2. QED
          BY <4>1, <5>1
      <4>4. QED
        BY <3>3, <4>2, <4>3
    <3>6. u[n] = u[n - 1] + Size(ps[n]) /\ Size(ps[n]) \in Nat \ {0}
          /\ u[j] \in Nat /\ u[n - 1] \in Nat
      BY <1>2, <3>3
    <3>7. QED
      BY <3>2, <3>5, <3>6
  <2>3. QED
    BY <2>2
<1>4. QED
  BY <1>1, <1>3

(* ... without a gap.                                                      *)
LEMMA CountsLocate ==
  ASSUME NEW R, NEW ps \in Seq(Pieces(R)), NEW u, Counts(u, ps),
         NEW q \in Nat \ {0}, q <= u[Len(ps)]
  PROVE  \E k \in 1..Len(ps) : q - u[k - 1] \in 1..Size(ps[k])
<1>1. PICK l \in Nat : l = Len(ps)
  OBVIOUS
<1>2. u \in [0..l -> Nat] /\ u[0] = 0
      /\ \A k \in 1..l : Size(ps[k]) \in Nat \ {0} /\ u[k] = u[k - 1] + Size(ps[k])
  <2>1. \A k \in 1..l : ps[k] \in Pieces(R)
    BY <1>1
  <2>2. QED
    BY <1>1, <2>1, SizeIs DEF Counts
<1> DEFINE Past == {k \in 0..l : q <= u[k]}
<1>3. Past \in SUBSET Nat /\ l \in Past
  BY <1>1
<1>4. PICK n \in Past : \A m \in Past : n <= m
  <2> HIDE DEF Past
  <2>1. QED
    BY <1>3, Least
<1>5. n \in 0..l /\ q <= u[n]
  BY <1>4
<1>6. n \in 1..l /\ n - 1 \in 0..l /\ n - 1 < n
  BY <1>2, <1>5
<1>7. n - 1 \notin Past
  <2> HIDE DEF Past
  <2>1. QED
    BY <1>3, <1>4, <1>6
<1>8. u[n - 1] < q
  <2>1. u[n - 1] \in Nat /\ ~(q <= u[n - 1])
    BY <1>2, <1>6, <1>7
  <2>2. QED
    BY <2>1
<1>9. u[n] = u[n - 1] + Size(ps[n]) /\ Size(ps[n]) \in Nat \ {0} /\ u[n - 1] \in Nat /\ u[n] \in Nat
  BY <1>2, <1>6
<1>10. q - u[n - 1] \in 1..Size(ps[n])
  BY <1>5, <1>8, <1>9
<1>11. QED
  BY <1>1, <1>6, <1>10

(* Cells put together of parts as long as the pieces ps.                   *)
Placed(cells, parts, ps, u) ==
  /\ Len(cells) = u[Len(ps)]
  /\ \A k \in 1..Len(ps) : \A o \in 1..Size(ps[k]) : cells[u[k - 1] + o] = parts[k][o]

(* Joined, its recursive function known to exist.                          *)
JoinOf(parts, f) ==
  f = [k \in 0..Len(parts) |-> IF k = 0 THEN <<>> ELSE f[k - 1] \o parts[k]]

(* Such a function exists.                                                 *)
LEMMA JoinExists ==
  ASSUME NEW S, NEW parts \in Seq(S)
  PROVE  \E f : JoinOf(parts, f)
<1>1. PICK l \in Nat : l = Len(parts)
  OBVIOUS
<1> DEFINE JoinsUpto(f, m) == f = [k \in 0..m |-> IF k = 0 THEN <<>> ELSE f[k - 1] \o parts[k]]
           Failing == {m \in 0..l : ~ \E f : JoinsUpto(f, m)}
<1>2. Failing \in SUBSET Nat
  <2> HIDE DEF JoinsUpto
  <2>1. QED
    OBVIOUS
<1>3. ASSUME Failing # {} PROVE FALSE
  <2>1. PICK m \in Failing : \A j \in Failing : m <= j
    <3> HIDE DEF Failing
    <3>1. QED
      BY <1>2, <1>3, Least
  <2>2. m # 0
    <3> DEFINE g == [k \in 0..0 |-> <<>>]
    <3>1. \A k \in 0..0 : k = 0
      OBVIOUS
    <3>2. JoinsUpto(g, 0)
      BY <3>1
    <3> HIDE DEF JoinsUpto, g
    <3>3. QED
      BY <3>2
  <2>3. m \in 1..l /\ m - 1 \in 0..l /\ m - 1 < m
    BY <2>2
  <2>4. m - 1 \notin Failing
    <3> HIDE DEF Failing
    <3>1. QED
      BY <1>2, <2>1, <2>3
  <2>5. PICK f : JoinsUpto(f, m - 1)
    BY <2>3, <2>4
  <2> DEFINE g == [k \in 0..m |-> IF k = 0 THEN <<>> ELSE f[k - 1] \o parts[k]]
  <2>6. \A k \in 0..(m - 1) : g[k] = f[k]
    <3>1. ASSUME NEW k \in 0..(m - 1) PROVE g[k] = f[k]
      <4>1. k \in 0..m
        BY <2>3
      <4>2. QED
        BY <2>5, <4>1
    <3>2. QED
      BY <3>1
  <2>7. \A k \in 1..m : k - 1 \in 0..(m - 1)
    BY <2>3
  <2>8. JoinsUpto(g, m)
    <3>1. \A k \in 0..m : k = 0 \/ k \in 1..m
      OBVIOUS
    <3>2. \A k \in 1..m : g[k - 1] = f[k - 1]
      BY <2>6, <2>7
    <3>3. \A k \in 0..m : g[k] = IF k = 0 THEN <<>> ELSE g[k - 1] \o parts[k]
      BY <3>1, <3>2
    <3>4. g = [k \in 0..m |-> g[k]]
      OBVIOUS
    <3> HIDE DEF g
    <3>5. QED
      BY <3>3, <3>4
  <2> HIDE DEF JoinsUpto, g
  <2>9. QED
    BY <2>1, <2>8
<1>4. \E f : JoinsUpto(f, l)
  <2> HIDE DEF JoinsUpto
  <2>1. l \in 0..l
    OBVIOUS
  <2>2. QED
    BY <1>3, <2>1
<1>5. QED
  BY <1>1, <1>4 DEF JoinOf

(* Joined puts every part at its place.                                    *)
LEMMA JoinedIs ==
  ASSUME NEW T, NEW parts \in Seq(Seq(T)), NEW R, NEW ps \in Seq(Pieces(R)), NEW u,
         Counts(u, ps), Len(parts) = Len(ps),
         \A k \in 1..Len(ps) : Len(parts[k]) = Size(ps[k])
  PROVE  Joined(parts) \in Seq(T) /\ Placed(Joined(parts), parts, ps, u)
<1>1. PICK l \in Nat : l = Len(ps)
  OBVIOUS
<1> DEFINE f == CHOOSE g : JoinOf(parts, g)
<1>2. Joined(parts) = f[l]
  BY <1>1 DEF Joined, JoinOf
<1>3. JoinOf(parts, f)
  BY JoinExists
<1> HIDE DEF f
<1>4. f[0] = <<>> /\ \A k \in 1..l : f[k] = f[k - 1] \o parts[k] /\ parts[k] \in Seq(T)
  <2>1. \A k \in 1..l : k \in 0..l /\ k # 0 /\ parts[k] \in Seq(T)
    BY <1>1
  <2>2. 0 \in 0..l
    OBVIOUS
  <2>3. f = [k \in 0..l |-> IF k = 0 THEN <<>> ELSE f[k - 1] \o parts[k]]
    BY <1>1, <1>3 DEF JoinOf
  <2>4. QED
    BY <2>1, <2>2, <2>3
<1>5. u \in [0..l -> Nat] /\ u[0] = 0
      /\ \A k \in 1..l : Size(ps[k]) \in Nat \ {0} /\ u[k] = u[k - 1] + Size(ps[k])
                         /\ Len(parts[k]) = Size(ps[k])
  <2>1. \A k \in 1..l : ps[k] \in Pieces(R)
    BY <1>1
  <2>2. QED
    BY <1>1, <2>1, SizeIs DEF Counts
<1>6. \A j, k \in 0..l : j <= k => u[j] <= u[k]
  <2>1. \A j, k \in 0..l : j < k => u[j] < u[k]
    BY <1>1, CountsRise
  <2>2. \A j \in 0..l : u[j] \in Nat
    BY <1>5
  <2>3. QED
    BY <2>1, <2>2
<1> DEFINE Ok(m) == /\ f[m] \in Seq(T) /\ Len(f[m]) = u[m]
                    /\ \A k \in 1..m : \A o \in 1..Size(ps[k]) :
                         f[m][u[k - 1] + o] = parts[k][o]
           Failing == {m \in 0..l : ~Ok(m)}
<1>7. Failing \in SUBSET Nat
  <2> HIDE DEF Ok
  <2>1. QED
    OBVIOUS
<1>8. ASSUME Failing # {} PROVE FALSE
  <2>1. PICK m \in Failing : \A j \in Failing : m <= j
    <3> HIDE DEF Failing
    <3>1. QED
      BY <1>7, <1>8, Least
  <2>2. m # 0
    <3>1. f[0] \in Seq(T) /\ Len(f[0]) = 0
      BY <1>4, EmptySeq
    <3>2. Ok(0)
      BY <1>5, <3>1
    <3> HIDE DEF Ok
    <3>3. QED
      BY <3>2
  <2>3. m \in 1..l /\ m - 1 \in 0..l /\ m - 1 < m
    BY <2>2
  <2>4. m - 1 \notin Failing
    <3> HIDE DEF Failing
    <3>1. QED
      BY <1>7, <2>1, <2>3
  <2>5. Ok(m - 1)
    BY <2>3, <2>4
  <2>6. PICK g \in Seq(T) : g = f[m - 1]
    BY <2>5
  <2>7. PICK p \in Seq(T) : p = parts[m]
    BY <1>4, <2>3
  <2>8. Len(g) = u[m - 1] /\ Len(p) = Size(ps[m]) /\ u[m - 1] \in Nat /\ Size(ps[m]) \in Nat
        /\ u[m] = u[m - 1] + Size(ps[m])
    BY <1>5, <2>3, <2>5, <2>6, <2>7
  <2>9. f[m] = g \o p
    BY <1>4, <2>3, <2>6, <2>7
  <2>10. f[m] \in Seq(T) /\ Both(f[m], g, p)
    BY <2>9, ConcatAt, Zenon
  <2>11. Len(f[m]) = u[m]
    BY <2>8, <2>10 DEF Both
  <2>12. ASSUME NEW k \in 1..m, NEW o \in 1..Size(ps[k])
         PROVE  f[m][u[k - 1] + o] = parts[k][o]
    <3>1. CASE k = m
      BY <2>7, <2>8, <2>10, <2>12, <3>1 DEF Both
    <3>2. CASE k # m
      <4> HIDE DEF Ok, Failing
      <4>1. k \in 1..(m - 1) /\ k \in 1..l /\ k \in 0..l /\ k <= m - 1 /\ k - 1 \in 0..l
        BY <2>3, <3>2
      <4>2. u[k] = u[k - 1] + Size(ps[k]) /\ u[k] <= u[m - 1] /\ u[k - 1] \in Nat
            /\ Size(ps[k]) \in Nat
        BY <1>5, <1>6, <2>3, <4>1
      <4>3. u[k - 1] + o \in 1..u[m - 1]
        <5>1. PICK a \in Nat, b \in Nat, e \in Nat :
                a = u[k - 1] /\ b = Size(ps[k]) /\ e = u[m - 1]
          BY <2>8, <4>2
        <5>2. a + b <= e /\ o \in 1..b
          BY <2>12, <4>2, <5>1
        <5>3. a + o \in 1..e
          BY <5>1, <5>2, SMTT(30)
        <5>4. QED
          BY <5>1, <5>3
      <4>4. f[m][u[k - 1] + o] = g[u[k - 1] + o]
        BY <2>8, <2>10, <4>3 DEF Both
      <4>5. g[u[k - 1] + o] = parts[k][o]
        BY <2>5, <2>6, <4>1 DEF Ok
      <4>6. QED
        BY <4>4, <4>5
    <3>3. QED
      BY <3>1, <3>2
  <2>13. Ok(m)
    BY <2>10, <2>11, <2>12
  <2>14. QED
    BY <2>1, <2>13
<1>9. Ok(l)
  <2> HIDE DEF Ok
  <2>1. l \in 0..l
    OBVIOUS
  <2>2. QED
    BY <1>8, <2>1
<1>10. QED
  BY <1>1, <1>2, <1>9 DEF Placed

-----------------------------------------------------------------------------
(* Decoding at a place of a file                                           *)

(* What WalRecord::decode and decode_record check.                         *)
Passes(magic, n, cells) ==
  LET len == AsNum(cells[2])
  IN  /\ ~(Len(cells) < 3 + n)
      /\ cells[1] = <<"magic", magic>>
      /\ ~(len < (3 + n) + 1) /\ ~(Len(cells) < len)
      /\ len = (3 + n) + AsNum(cells[3 + n]) + 1
      /\ cells[len] = Crc(SubSeq(cells, 1, len - 1))

(* What they take from a frame that passes.                                *)
Reads(d, n, cells) ==
  /\ d.fields = SubSeq(cells, 3, (3 + n) - 1)
  /\ d.blob = AsNum(cells[3 + n]) /\ d.used = AsNum(cells[2])

(* The error paths of decode are just the frames that do not pass.         *)
LEMMA UnframedIs ==
  ASSUME NEW magic, NEW n, NEW cells
  PROVE  /\ Unframed(magic, n, cells).why = "ok" <=> Passes(magic, n, cells)
         /\ Passes(magic, n, cells) => Reads(Unframed(magic, n, cells), n, cells)
<1> DEFINE len == AsNum(cells[2])
           ok  == [why |-> "ok", fields |-> SubSeq(cells, 3, (3 + n) - 1),
                   blob |-> AsNum(cells[3 + n]), used |-> len]
<1>1. PICK d : d = Unframed(magic, n, cells)
  OBVIOUS
<1>2. d = IF Len(cells) < 3 + n THEN Bad("Truncated")
          ELSE IF cells[1] # <<"magic", magic>> THEN Bad("BadMagic")
          ELSE IF len < (3 + n) + 1 \/ Len(cells) < len
                  \/ len # (3 + n) + AsNum(cells[3 + n]) + 1
               THEN Bad("Truncated")
          ELSE IF cells[len] # Crc(SubSeq(cells, 1, len - 1)) THEN Bad("BadCrc")
          ELSE ok
  BY <1>1 DEF Unframed
<1>3. ok.why = "ok" /\ ok.fields = SubSeq(cells, 3, (3 + n) - 1)
      /\ ok.blob = AsNum(cells[3 + n]) /\ ok.used = len
  OBVIOUS
<1>4. Bad("Truncated").why # "ok" /\ Bad("BadMagic").why # "ok" /\ Bad("BadCrc").why # "ok"
  BY DEF Bad
<1>5. Passes(magic, n, cells) <=>
        /\ ~(Len(cells) < 3 + n)
        /\ cells[1] = <<"magic", magic>>
        /\ ~(len < (3 + n) + 1) /\ ~(Len(cells) < len)
        /\ len = (3 + n) + AsNum(cells[3 + n]) + 1
        /\ cells[len] = Crc(SubSeq(cells, 1, len - 1))
  BY DEF Passes
<1> DEFINE p1 == Len(cells) < 3 + n
           p2 == cells[1] = <<"magic", magic>>
           p3 == len < (3 + n) + 1
           p4 == Len(cells) < len
           p5 == len = (3 + n) + AsNum(cells[3 + n]) + 1
           p6 == cells[len] = Crc(SubSeq(cells, 1, len - 1))
<1>6. d = IF p1 THEN Bad("Truncated")
          ELSE IF ~p2 THEN Bad("BadMagic")
          ELSE IF p3 \/ p4 \/ ~p5 THEN Bad("Truncated")
          ELSE IF ~p6 THEN Bad("BadCrc")
          ELSE ok
  BY <1>2
<1>7. Passes(magic, n, cells) <=> ~p1 /\ p2 /\ ~p3 /\ ~p4 /\ p5 /\ p6
  BY <1>5
<1> HIDE DEF p1, p2, p3, p4, p5, p6, ok
<1>8. d.why = "ok" <=> Passes(magic, n, cells)
  BY <1>3, <1>4, <1>6, <1>7
<1>9. d.why = "ok" => d = ok
  BY <1>4, <1>6
<1>10. Passes(magic, n, cells) => Reads(d, n, cells)
  BY <1>3, <1>8, <1>9 DEF Reads
<1>11. QED
  BY <1>1, <1>8, <1>10

(* The cells of a file: its pieces one after the other, each the beginning *)
(* of the frame it is a piece of.                                          *)
Laid(cells, F, ps, u) ==
  /\ Counts(u, ps) /\ Len(cells) = u[Len(ps)]
  /\ \A k \in 1..Len(ps) :
       /\ Len(F[k]) = ps[k].len /\ Cellular(F[k])
       /\ \A o \in 1..Size(ps[k]) : cells[u[k - 1] + o] = F[k][o]

(* Its numbers are naturals, and a checksum in it ends a whole frame.      *)
LEMMA LaidCells ==
  ASSUME NEW T, NEW cells \in Seq(T), NEW R, NEW ps \in Seq(Whole(R)), NEW F, NEW u,
         Laid(cells, F, ps, u), NEW q \in 1..Len(cells)
  PROVE  /\ cells[q][1] = "num" => cells[q][2] \in Nat
         /\ cells[q][1] = "crc" =>
              \E k \in 1..Len(ps) : /\ IsWhole(ps[k]) /\ q = u[k]
                                    /\ cells[q] = Crc(SubSeq(F[k], 1, ps[k].len - 1))
<1>1. ps \in Seq(Pieces(R))
  <2>1. \A k \in 1..Len(ps) : ps[k] \in Pieces(R)
    BY DEF Whole
  <2>2. QED
    BY <2>1, SeqIntro
<1>2. q \in Nat \ {0} /\ q <= u[Len(ps)] /\ Counts(u, ps)
  BY DEF Laid
<1>3. PICK k \in 1..Len(ps) : q - u[k - 1] \in 1..Size(ps[k])
  BY <1>1, <1>2, CountsLocate
<1>4. /\ ps[k] \in Whole(R) /\ ps[k] \in Pieces(R) /\ ps[k].from = 0
      /\ ps[k].to \in Nat /\ ps[k].len \in Nat /\ ps[k].to <= ps[k].len
      /\ Size(ps[k]) = ps[k].to
  <2>1. ps[k] \in Whole(R)
    OBVIOUS
  <2>2. QED
    BY <2>1, PieceIs DEF Whole, Size
<1>5. u[k - 1] \in Nat /\ u[k] = u[k - 1] + ps[k].to
  <2>1. u \in [0..Len(ps) -> Nat] /\ u[k] = u[k - 1] + Size(ps[k])
    BY <1>2 DEF Counts
  <2>2. k - 1 \in 0..Len(ps)
    OBVIOUS
  <2>3. QED
    BY <1>4, <2>1, <2>2
<1>6. PICK o \in 1..Size(ps[k]) : o = q - u[k - 1]
  BY <1>3
<1>7. q = u[k - 1] + o /\ o \in 1..ps[k].len
  BY <1>4, <1>5, <1>6
<1>8. cells[q] = F[k][o] /\ Len(F[k]) = ps[k].len /\ Cellular(F[k])
  BY <1>6, <1>7 DEF Laid
<1>9. /\ F[k][o][1] = "crc" => o = Len(F[k]) /\ F[k][o] = Crc(SubSeq(F[k], 1, o - 1))
      /\ F[k][o][1] = "num" => F[k][o][2] \in Nat
  BY <1>7, <1>8 DEF Cellular
<1>10. ASSUME cells[q][1] = "crc"
       PROVE  IsWhole(ps[k]) /\ q = u[k] /\ cells[q] = Crc(SubSeq(F[k], 1, ps[k].len - 1))
  <2>1. o = ps[k].len /\ cells[q] = Crc(SubSeq(F[k], 1, o - 1))
    BY <1>8, <1>9, <1>10
  <2>2. ps[k].to = ps[k].len
    BY <1>4, <1>6, <2>1
  <2>3. QED
    BY <1>4, <1>5, <1>7, <2>1, <2>2 DEF IsWhole
<1>11. QED
  BY <1>8, <1>9, <1>10

(* A part of anything has the length asked for.                            *)
LEMMA PartLen ==
  ASSUME NEW s, NEW b \in Nat
  PROVE  Len(SubSeq(s, 1, b)) = b
<1>1. PICK S : S = {s[i] : i \in 1..b}
  OBVIOUS
<1>2. \A i \in 1..b : s[i] \in S
  BY <1>1
<1>3. 1 \in Int /\ b \in Int
  OBVIOUS
<1>4. Len(SubSeq(s, 1, b)) = IF 1 <= b THEN b - 1 + 1 ELSE 0
  BY <1>2, <1>3, SubSeqProperties
<1>5. QED
  BY <1>4

(* A length below U32 is written as it is.                                 *)
LEMMA Unwrapped ==
  ASSUME U32 \in Nat, 0 < U32, NEW x \in Nat
  PROVE  /\ x % U32 \in Nat /\ x % U32 < U32
         /\ x < U32 => x % U32 = x
  OBVIOUS

(* A number reads back as itself.                                          *)
LEMMA Numbers ==
  ASSUME NEW x
  PROVE  Num(x)[1] = "num" /\ AsNum(Num(x)) = x
  BY DEF Num, AsNum

(* A checksum tells what it covers, and is no number.                      *)
LEMMA Sums == \A x, y : Crc(x)[1] = "crc" /\ (Crc(x) = Crc(y) => x = y)
  BY DEF Crc

(* A frame that decodes has a length, and ends within the file.            *)
Ahead(c, n, cells, pos) ==
  /\ \A k \in 1..(Len(cells) - pos) : c[k] = cells[pos + k]
  /\ AsNum(c[2]) \in (4 + n)..(Len(cells) - pos)

(* What passes for a frame is not empty, so that the scan moves on.        *)
LEMMA UsedIs ==
  ASSUME NEW T, NEW cells \in Seq(T), NEW R, NEW ps \in Seq(Whole(R)), NEW F, NEW u,
         Laid(cells, F, ps, u), NEW N \in Nat, N = Len(cells), NEW pos \in 0..N,
         NEW magic, NEW n \in Nat, U32 \in Nat,
         Passes(magic, n, SubSeq(cells, pos + 1, N))
  PROVE  Ahead(SubSeq(cells, pos + 1, N), n, cells, pos)
<1>1. PICK c : c = SubSeq(cells, pos + 1, N)
  OBVIOUS
<1>2. c \in Seq(T) /\ Len(c) = N - pos /\ \A k \in 1..(N - pos) : c[k] = cells[pos + k]
  <2>1. pos \in Nat /\ pos <= N /\ N <= N
    OBVIOUS
  <2>2. QED
    BY <1>1, <2>1, PartAt
<1>3. Passes(magic, n, c)
  BY <1>1
<1>4. \A k \in 1..(N - pos) : AsNum(c[k]) \in Nat
  <2>1. ASSUME NEW k \in 1..(N - pos) PROVE AsNum(c[k]) \in Nat
    <3>1. pos + k \in 1..Len(cells) /\ c[k] = cells[pos + k]
      BY <1>2
    <3>2. c[k][1] = "num" => c[k][2] \in Nat
      BY <3>1, LaidCells
    <3>3. QED
      BY <3>2 DEF AsNum
  <2>2. QED
    BY <2>1
<1>5. ~(N - pos < 3 + n)
  BY <1>2, <1>3 DEF Passes
<1>6. 2 \in 1..(N - pos) /\ 3 + n \in 1..(N - pos)
  BY <1>5
<1>7. AsNum(c[2]) \in Nat /\ AsNum(c[3 + n]) \in Nat
  BY <1>4, <1>6
<1>8. ~(AsNum(c[2]) < (3 + n) + 1) /\ ~(N - pos < AsNum(c[2]))
  BY <1>2, <1>3 DEF Passes
<1>9. AsNum(c[2]) \in (4 + n)..(N - pos)
  BY <1>7, <1>8
<1>10. QED
  BY <1>1, <1>2, <1>9 DEF Ahead

(* What the scan finds where a piece begins: its frame, if it is whole and *)
(* its length fits its field; nothing that passes for a frame, if not.     *)
Found(d, F, n) ==
  /\ d.used = Len(F) /\ d.blob = Len(F) - 4 - n
  /\ \A k \in 1..n : d.fields[k] = F[2 + k]

(* A piece of a file begins its record and is not empty.                   *)
LEMMA PieceAt ==
  ASSUME NEW R, NEW ps \in Seq(Whole(R)), NEW j \in 1..Len(ps)
  PROVE  /\ ps[j].from = 0 /\ ps[j].to \in Nat \ {0} /\ ps[j].len \in Nat
         /\ ps[j].to <= ps[j].len /\ Size(ps[j]) = ps[j].to
<1>1. ps[j] \in Whole(R)
  OBVIOUS
<1>2. QED
  BY <1>1 DEF Whole, Pieces, Size

(* Where a piece lies, and that no other begins there.                     *)
LEMMA PlaceIs ==
  ASSUME NEW R, NEW ps \in Seq(Whole(R)), NEW u, Counts(u, ps), NEW j \in 1..Len(ps)
  PROVE  /\ ps \in Seq(Pieces(R))
         /\ ps[j].from = 0 /\ ps[j].to \in Nat \ {0} /\ ps[j].len \in Nat
         /\ ps[j].to <= ps[j].len /\ Size(ps[j]) = ps[j].to
         /\ u[j - 1] \in Nat /\ u[j] = u[j - 1] + ps[j].to /\ u[j] <= u[Len(ps)]
         /\ u[Len(ps)] \in Nat
         /\ \A k \in 1..Len(ps) : u[k - 1] = u[j - 1] => k = j
<1>1. PICK l \in Nat : l = Len(ps)
  OBVIOUS
<1>2. ps \in Seq(Pieces(R))
  <2>1. \A k \in 1..l : ps[k] \in Pieces(R)
    BY <1>1 DEF Whole
  <2>2. QED
    BY <1>1, <2>1, SeqIntro
<1>3. /\ ps[j].from = 0 /\ ps[j].to \in Nat \ {0} /\ ps[j].len \in Nat
      /\ ps[j].to <= ps[j].len /\ Size(ps[j]) = ps[j].to
  <2>1. ps[j] \in Whole(R)
    OBVIOUS
  <2>2. QED
    BY <2>1, PieceIs DEF Whole, Size
<1>4. u \in [0..l -> Nat] /\ u[j] = u[j - 1] + Size(ps[j])
  BY <1>1 DEF Counts
<1>5. j \in 0..l /\ j - 1 \in 0..l /\ l \in 0..l /\ j <= l
  BY <1>1
<1>6. \A i, k \in 0..l : i < k => u[i] < u[k]
  BY <1>1, <1>2, CountsRise
<1>7. u[j - 1] \in Nat /\ u[j] \in Nat /\ u[l] \in Nat
  BY <1>4, <1>5
<1>8. u[j] <= u[l]
  <2>1. CASE j = l
    BY <1>7, <2>1
  <2>2. CASE j < l
    <3>1. u[j] < u[l]
      BY <1>5, <1>6, <2>2
    <3>2. QED
      BY <1>7, <3>1
  <2>3. QED
    BY <1>5, <2>1, <2>2
<1>9. ASSUME NEW k \in 1..l, u[k - 1] = u[j - 1] PROVE k = j
  <2>1. k - 1 \in 0..l /\ u[k - 1] \in Nat
    BY <1>4
  <2>2. ~(u[k - 1] < u[j - 1]) /\ ~(u[j - 1] < u[k - 1])
    BY <1>7, <1>9, <2>1
  <2>3. ~(k - 1 < j - 1) /\ ~(j - 1 < k - 1)
    BY <1>5, <1>6, <2>1, <2>2
  <2>4. QED
    BY <2>3, <1>1
<1>10. QED
  BY <1>1, <1>2, <1>3, <1>4, <1>7, <1>8, <1>9

(* A whole frame whose length fits its field decodes, with its fields.     *)
LEMMA DecodesWhole ==
  ASSUME NEW T, NEW cells \in Seq(T), NEW R, NEW ps \in Seq(Whole(R)), NEW F, NEW u,
         Laid(cells, F, ps, u), NEW N \in Nat, N = Len(cells),
         NEW j \in 1..Len(ps), U32 \in Nat, 0 < U32,
         NEW magic, NEW n \in Nat, FrameLike(F[j], magic, n), ReadableAt(ps, j)
  PROVE  Passes(magic, n, SubSeq(cells, u[j - 1] + 1, N))
         /\ Found(Unframed(magic, n, SubSeq(cells, u[j - 1] + 1, N)), F[j], n)
<1>1. PICK L \in Nat : L = ps[j].len
  BY PlaceIs DEF Laid
<1>2. /\ Len(F[j]) = L /\ 4 + n <= L /\ L < U32 /\ Size(ps[j]) = L
      /\ \A o \in 1..L : cells[u[j - 1] + o] = F[j][o]
  <2>1. Size(ps[j]) = L /\ L < U32
    BY <1>1, PlaceIs DEF Laid, ReadableAt, IsWhole
  <2>2. Len(F[j]) = L /\ \A o \in 1..L : cells[u[j - 1] + o] = F[j][o]
    BY <1>1, <2>1 DEF Laid
  <2>3. QED
    BY <2>1, <2>2 DEF FrameLike
<1>3. PICK pos \in Nat : pos = u[j - 1]
  BY PlaceIs DEF Laid
<1>4. pos + L <= N /\ pos \in 0..N
  <2>1. u[j] = u[j - 1] + ps[j].to /\ u[j] <= N /\ ps[j].to = L
    BY <1>1, PlaceIs DEF Laid, ReadableAt, IsWhole
  <2>2. QED
    BY <1>3, <2>1
<1>5. PICK c : c = SubSeq(cells, pos + 1, N)
  OBVIOUS
<1>6. c \in Seq(T) /\ Len(c) = N - pos /\ \A k \in 1..L : c[k] = F[j][k]
  <2>1. c \in Seq(T) /\ Len(c) = N - pos /\ \A k \in 1..(N - pos) : c[k] = cells[pos + k]
    <3>1. pos <= N /\ N <= N
      BY <1>4
    <3>2. /\ SubSeq(cells, pos + 1, N) \in Seq(T) /\ Len(SubSeq(cells, pos + 1, N)) = N - pos
          /\ \A k \in 1..(N - pos) : SubSeq(cells, pos + 1, N)[k] = cells[pos + k]
      BY <3>1, PartAt, SMTT(30)
    <3>3. QED
      BY <1>5, <3>2
  <2>2. \A k \in 1..L : k \in 1..(N - pos)
    BY <1>4
  <2>3. QED
    BY <1>2, <1>3, <2>1, <2>2
<1>7. PICK G : F[j] \in Seq(G)
  BY DEF FrameLike
<1>8. /\ F[j][1] = <<"magic", magic>> /\ F[j][2] = Num(L % U32)
      /\ F[j][3 + n] = Num((L - 4 - n) % U32)
      /\ F[j][L] = Crc(SubSeq(F[j], 1, L - 1))
  BY <1>2 DEF FrameLike
<1>9. 1 \in 1..L /\ 2 \in 1..L /\ 3 + n \in 1..L /\ L \in 1..L
  BY <1>2
<1>10. L % U32 = L /\ (L - 4 - n) % U32 = L - 4 - n
  <2>1. L - 4 - n \in Nat /\ L - 4 - n < U32
    BY <1>2
  <2>2. PICK y \in Nat : y = L - 4 - n
    BY <2>1
  <2>3. y % U32 = y
    BY <2>1, <2>2, Unwrapped
  <2>4. L % U32 = L
    BY <1>2, Unwrapped
  <2>5. QED
    BY <2>2, <2>3, <2>4
<1>11. AsNum(c[2]) = L /\ AsNum(c[3 + n]) = L - 4 - n
  BY <1>6, <1>8, <1>9, <1>10, Numbers
<1>12. SubSeq(c, 1, L - 1) = SubSeq(F[j], 1, L - 1)
  <2>1. PICK l \in Nat : l = L - 1
    BY <1>2
  <2>2. /\ 0 \in Nat /\ 0 <= l /\ l <= L /\ l <= N - pos /\ 0 + 1 = 1 /\ l - 0 = l
        /\ N - pos \in Nat
        /\ \A k \in 1..l : 0 + k = k /\ k \in 1..L
    BY <1>4, <2>1
  <2>3. /\ SubSeq(c, 0 + 1, l) \in Seq(T) /\ Len(SubSeq(c, 0 + 1, l)) = l - 0
        /\ \A k \in 1..(l - 0) : SubSeq(c, 0 + 1, l)[k] = c[0 + k]
    BY <1>6, <2>2, PartAt
  <2>4. /\ SubSeq(F[j], 0 + 1, l) \in Seq(G) /\ Len(SubSeq(F[j], 0 + 1, l)) = l - 0
        /\ \A k \in 1..(l - 0) : SubSeq(F[j], 0 + 1, l)[k] = F[j][0 + k]
    BY <1>2, <1>7, <2>2, PartAt
  <2>5. PICK s \in Seq(T), t \in Seq(G) : s = SubSeq(c, 1, l) /\ t = SubSeq(F[j], 1, l)
    BY <2>2, <2>3, <2>4
  <2>6. Len(s) = l /\ Len(t) = l /\ \A k \in 1..l : s[k] = t[k]
    BY <1>6, <2>2, <2>3, <2>4, <2>5
  <2>7. s = t
    BY <2>6, SameSeq
  <2>8. QED
    BY <2>1, <2>5, <2>7
<1>13. Passes(magic, n, c)
  <2>1. ~(N - pos < 3 + n) /\ ~(L < (3 + n) + 1) /\ ~(N - pos < L)
        /\ L = (3 + n) + (L - 4 - n) + 1
    <3>1. 4 + n <= L
      BY <1>2
    <3>2. QED
      BY <1>4, <3>1
  <2>2. c[1] = <<"magic", magic>> /\ c[L] = Crc(SubSeq(c, 1, L - 1))
    BY <1>6, <1>8, <1>9, <1>12
  <2>3. QED
    BY <1>6, <1>11, <2>1, <2>2 DEF Passes
<1>14. PICK d : d = Unframed(magic, n, c)
  OBVIOUS
<1>15. d.fields = SubSeq(c, 3, (3 + n) - 1) /\ d.blob = L - 4 - n /\ d.used = L
  <2>1. Reads(d, n, c)
    BY <1>13, <1>14, UnframedIs, Zenon
  <2>2. QED
    BY <1>11, <2>1 DEF Reads
<1>16. ASSUME NEW k \in 1..n PROVE d.fields[k] = F[j][2 + k]
  <2>1. PICK e \in Nat : e = 2 + n
    OBVIOUS
  <2>2. /\ 2 \in Nat /\ 2 <= e /\ e <= N - pos /\ 2 + 1 = 3 /\ (3 + n) - 1 = e
        /\ N - pos \in Nat /\ k \in 1..(e - 2) /\ 2 + k \in 1..L
    BY <1>2, <1>4, <2>1
  <2>3. \A i \in 1..(e - 2) : SubSeq(c, 2 + 1, e)[i] = c[2 + i]
    BY <1>6, <2>2, PartAt
  <2>4. SubSeq(c, 2 + 1, e)[k] = c[2 + k]
    BY <2>2, <2>3
  <2>5. d.fields[k] = c[2 + k]
    BY <1>15, <2>2, <2>4
  <2>6. QED
    BY <1>6, <2>2, <2>5
<1>17. Found(d, F[j], n)
  BY <1>2, <1>15, <1>16 DEF Found
<1>18. QED
  BY <1>3, <1>5, <1>13, <1>14, <1>17

(* And nothing else does: what begins where a torn or overlong frame does, *)
(* and passes, would end in the checksum of a frame that it does not       *)
(* cover.                                                                  *)
LEMMA DecodesOnly ==
  ASSUME NEW T, NEW cells \in Seq(T), NEW R, NEW ps \in Seq(Whole(R)), NEW F, NEW u,
         Laid(cells, F, ps, u), NEW N \in Nat, N = Len(cells),
         NEW j \in 1..Len(ps), U32 \in Nat, 0 < U32,
         NEW magic, NEW n \in Nat, FrameLike(F[j], magic, n),
         Passes(magic, n, SubSeq(cells, u[j - 1] + 1, N))
  PROVE  ReadableAt(ps, j)
<1>1. PICK pos \in Nat : pos = u[j - 1]
  BY PlaceIs DEF Laid
<1>2. pos \in 0..N
  <2>1. u[j] = u[j - 1] + ps[j].to /\ u[j] <= N /\ ps[j].to \in Nat
    BY PlaceIs DEF Laid
  <2>2. QED
    BY <1>1, <2>1
<1>3. PICK c : c = SubSeq(cells, pos + 1, N)
  OBVIOUS
<1>4. PICK len : len = AsNum(c[2])
  OBVIOUS
<1>5. /\ \A k \in 1..(N - pos) : c[k] = cells[pos + k]
      /\ len \in (4 + n)..(N - pos)
  <2>1. Passes(magic, n, SubSeq(cells, pos + 1, N))
    BY <1>1
  <2>2. Ahead(c, n, cells, pos)
    BY <1>2, <1>3, <2>1, UsedIs
  <2>3. QED
    BY <1>4, <2>2 DEF Ahead
<1>6. c[len] = Crc(SubSeq(c, 1, len - 1))
  BY <1>1, <1>3, <1>4 DEF Passes
<1>7. pos + len \in 1..N /\ len \in 1..(N - pos) /\ len - 1 \in Nat /\ len \in Nat
  BY <1>2, <1>5
<1>8. cells[pos + len] = Crc(SubSeq(c, 1, len - 1))
  BY <1>5, <1>6, <1>7
<1>9. cells[pos + len][1] = "crc"
  BY <1>8, Sums
<1>10. PICK k \in 1..Len(ps) : /\ IsWhole(ps[k]) /\ pos + len = u[k]
                               /\ cells[pos + len] = Crc(SubSeq(F[k], 1, ps[k].len - 1))
  BY <1>7, <1>9, LaidCells
<1>11. SubSeq(c, 1, len - 1) = SubSeq(F[k], 1, ps[k].len - 1)
  BY <1>8, <1>10, Sums
<1>12. /\ ps[k].to = ps[k].len /\ ps[k].len \in Nat \ {0}
       /\ u[k - 1] \in Nat /\ u[k] = u[k - 1] + ps[k].to
  BY <1>10, PlaceIs DEF Laid, IsWhole
<1>13. len - 1 = ps[k].len - 1
  <2>1. PICK m \in Nat \ {0} : m = ps[k].len
    BY <1>12
  <2>2. PICK a \in Nat : a = len - 1
    BY <1>7
  <2>3. PICK b \in Nat : b = m - 1
    OBVIOUS
  <2>4. Len(SubSeq(c, 1, a)) = a /\ Len(SubSeq(F[k], 1, b)) = b
    BY PartLen
  <2>5. QED
    BY <1>11, <2>1, <2>2, <2>3, <2>4
<1>14. u[k - 1] = u[j - 1]
  <2>1. PICK m \in Nat \ {0}, v \in Nat : m = ps[k].len /\ v = u[k - 1]
    BY <1>12
  <2>2. m = len /\ u[k] = v + m
    BY <1>7, <1>12, <1>13, <2>1
  <2>3. pos + len = v + len
    BY <1>10, <2>2
  <2>4. pos = v
    BY <1>7, <2>3
  <2>5. QED
    BY <1>1, <2>1, <2>4
<1>15. k = j
  BY <1>14, PlaceIs DEF Laid
<1>16. len = ps[j].len /\ IsWhole(ps[j]) /\ Size(ps[j]) = ps[j].len
  <2>1. len = ps[j].len /\ IsWhole(ps[j])
    <3>1. len = ps[k].len /\ IsWhole(ps[k])
      BY <1>7, <1>10, <1>12, <1>13
    <3>2. QED
      BY <1>15, <3>1
  <2>2. QED
    BY <2>1, PlaceIs DEF Laid, IsWhole
<1>17. c[2] = F[j][2] /\ Len(F[j]) = len
  <2>1. 2 \in 1..Size(ps[j]) /\ 2 \in 1..(N - pos)
    BY <1>5, <1>16
  <2>2. Len(F[j]) = ps[j].len /\ \A o \in 1..Size(ps[j]) : cells[u[j - 1] + o] = F[j][o]
    <3>1. \A i \in 1..Len(ps) :
            /\ Len(F[i]) = ps[i].len
            /\ \A o \in 1..Size(ps[i]) : cells[u[i - 1] + o] = F[i][o]
      BY Zenon DEF Laid
    <3>2. QED
      BY <3>1, Zenon
  <2>3. cells[pos + 2] = F[j][2]
    BY <1>1, <2>1, <2>2, Zenon
  <2>4. c[2] = cells[pos + 2]
    BY <1>5, <2>1, Zenon
  <2>5. len = ps[j].len
    BY <1>16, Zenon
  <2>6. QED
    BY <2>2, <2>3, <2>4, <2>5, Zenon
<1>18. F[j][2] = Num(len % U32)
  BY <1>17 DEF FrameLike
<1>19. len = len % U32
  BY <1>4, <1>17, <1>18, Numbers
<1>20. len < U32
  BY <1>7, <1>19, Unwrapped
<1>21. QED
  BY <1>16, <1>20 DEF ReadableAt

-----------------------------------------------------------------------------
(* The scan: decode_segment and rebuild_index                              *)

(* One step of the walk: what it finds from pos on, given what it finds    *)
(* from every later place on.                                              *)
FrameAt(magic, n, cells, pos) == Unframed(magic, n, SubSeq(cells, pos + 1, Len(cells)))

(* The walk goes on from there, or ends.                                   *)
WalksOn(magic, n, cells, later, pos) ==
  LET d    == FrameAt(magic, n, cells, pos)
      more == later[pos + d.used]
  IN  IF pos = Len(cells) \/ d.why # "ok" THEN [found |-> <<>>, end |-> pos]
      ELSE [found |-> <<d>> \o more.found, end |-> more.end]

(* f is the walk of Scan.                                                  *)
WalkOf(magic, n, cells, f) ==
  f = [pos \in 0..Len(cells) |-> WalksOn(magic, n, cells, f, pos)]

(* A step looks at nothing but later places.                               *)
LEMMA WalksOnSame ==
  ASSUME NEW T, NEW cells \in Seq(T), NEW R, NEW ps \in Seq(Whole(R)), NEW F, NEW u,
         Laid(cells, F, ps, u), NEW N \in Nat, N = Len(cells), NEW pos \in 0..N,
         NEW magic, NEW n \in Nat, U32 \in Nat, NEW g, NEW h,
         \A q \in (pos + 1)..N : g[q] = h[q]
  PROVE  WalksOn(magic, n, cells, g, pos) = WalksOn(magic, n, cells, h, pos)
<1>1. PICK d : d = FrameAt(magic, n, cells, pos)
  OBVIOUS
<1>2. CASE pos = N \/ d.why # "ok"
  <2>1. /\ WalksOn(magic, n, cells, g, pos) = [found |-> <<>>, end |-> pos]
        /\ WalksOn(magic, n, cells, h, pos) = [found |-> <<>>, end |-> pos]
    BY <1>1, <1>2 DEF WalksOn
  <2>2. QED
    BY <2>1
<1>3. CASE d.why = "ok"
  <2>1. PICK c : c = SubSeq(cells, pos + 1, N)
    OBVIOUS
  <2>2. d = Unframed(magic, n, c)
    BY <1>1, <2>1 DEF FrameAt
  <2>3. Passes(magic, n, c) /\ Reads(d, n, c)
    BY <1>3, <2>2, UnframedIs, Zenon
  <2>4. Ahead(c, n, cells, pos)
    BY <2>1, <2>3, UsedIs
  <2>5. d.used \in (4 + n)..(N - pos)
    BY <2>3, <2>4 DEF Ahead, Reads
  <2>6. pos + d.used \in (pos + 1)..N
    <3>1. PICK v \in Nat : v = d.used /\ 4 + n <= v /\ v <= N - pos
      BY <2>5
    <3>2. QED
      BY <3>1
  <2>7. g[pos + d.used] = h[pos + d.used]
    BY <2>6
  <2>8. QED
    BY <1>1, <2>7 DEF WalksOn
<1>4. QED
  BY <1>2, <1>3

(* Every step goes on further ahead, so that there is such a walk.         *)
LEMMA WalkExists ==
  ASSUME NEW T, NEW cells \in Seq(T), NEW R, NEW ps \in Seq(Whole(R)), NEW F, NEW u,
         Laid(cells, F, ps, u), NEW magic, NEW n \in Nat, U32 \in Nat
  PROVE  \E f : WalkOf(magic, n, cells, f)
<1>1. PICK N \in Nat : N = Len(cells)
  OBVIOUS
<1> DEFINE At(h, pos)  == WalksOn(magic, n, cells, h, pos)
           From(f, m)  == f = [pos \in (N - m)..N |-> At(f, pos)]
           Failing     == {m \in 0..N : ~ \E f : From(f, m)}
<1> HIDE DEF At
<1>2. \A pos \in 0..N : \A g, h : (\A q \in (pos + 1)..N : g[q] = h[q]) => At(g, pos) = At(h, pos)
  <2>1. ASSUME NEW pos \in 0..N, NEW g, NEW h, \A q \in (pos + 1)..N : g[q] = h[q]
        PROVE  At(g, pos) = At(h, pos)
    BY <1>1, <2>1, WalksOnSame DEF At
  <2>2. QED
    BY <2>1
<1>3. Failing \in SUBSET Nat
  <2> HIDE DEF From
  <2>1. QED
    OBVIOUS
<1>4. ASSUME Failing # {} PROVE FALSE
  <2>1. PICK m \in Failing : \A j \in Failing : m <= j
    <3> HIDE DEF Failing
    <3>1. QED
      BY <1>3, <1>4, Least
  <2>2. m \in 0..N /\ ~ \E f : From(f, m)
    <3> HIDE DEF From
    <3>1. QED
      BY <2>1
  <2>3. \E f : \A pos \in ((N - m) + 1)..N : f[pos] = At(f, pos)
    <3>1. CASE m = 0
      <4>1. \A pos \in ((N - m) + 1)..N : FALSE
        BY <3>1
      <4>2. QED
        BY <4>1
    <3>2. CASE m # 0
      <4>1. m - 1 \in 0..N /\ m - 1 < m /\ N - (m - 1) = (N - m) + 1
        BY <2>2, <3>2
      <4>2. m - 1 \notin Failing
        <5> HIDE DEF Failing
        <5>1. QED
          BY <1>3, <2>1, <4>1
      <4>3. PICK f : From(f, m - 1)
        <5> HIDE DEF From
        <5>1. QED
          BY <4>1, <4>2
      <4>4. f = [pos \in ((N - m) + 1)..N |-> At(f, pos)]
        BY <4>1, <4>3
      <4>5. QED
        BY <4>4
    <3>3. QED
      BY <3>1, <3>2
  <2>4. PICK f : \A pos \in ((N - m) + 1)..N : f[pos] = At(f, pos)
    BY <2>3
  <2> DEFINE g == [pos \in (N - m)..N |-> At(f, pos)]
  <2>5. \A q \in ((N - m) + 1)..N : g[q] = f[q]
    <3>1. \A q \in ((N - m) + 1)..N : q \in (N - m)..N
      BY <2>2
    <3>2. QED
      BY <2>4, <3>1
  <2>6. \A pos \in (N - m)..N : At(g, pos) = At(f, pos)
    <3> HIDE DEF g
    <3>1. ASSUME NEW pos \in (N - m)..N PROVE At(g, pos) = At(f, pos)
      <4>1. pos \in 0..N /\ \A q \in (pos + 1)..N : q \in ((N - m) + 1)..N
        BY <2>2
      <4>2. \A q \in (pos + 1)..N : g[q] = f[q]
        BY <2>5, <4>1
      <4>3. QED
        BY <1>2, <4>1, <4>2
    <3>2. QED
      BY <3>1
  <2>7. g = [pos \in (N - m)..N |-> At(g, pos)]
    <3>1. \A pos \in (N - m)..N : g[pos] = At(g, pos)
      BY <2>6
    <3>2. g = [pos \in (N - m)..N |-> g[pos]]
      OBVIOUS
    <3> HIDE DEF g
    <3>3. QED
      BY <3>1, <3>2
  <2> HIDE DEF g
  <2>8. From(g, m)
    BY <2>7
  <2>9. QED
    BY <2>2, <2>8
<1>5. \E f : From(f, N)
  <2> HIDE DEF From
  <2>1. N \in 0..N
    OBVIOUS
  <2>2. QED
    BY <1>4, <2>1
<1>6. PICK f : f = [pos \in (N - N)..N |-> At(f, pos)]
  BY <1>5
<1>7. N - N = 0
  OBVIOUS
<1>8. QED
  BY <1>1, <1>6, <1>7 DEF WalkOf, At

(* What the scan is to find from the piece after i on: the frames up to    *)
(* piece g, and the offset where that ends.                                *)
ScanTo(s, F, n, u, i, g) ==
  /\ Len(s.found) = g - i /\ s.end = u[g]
  /\ \A k \in 1..(g - i) : Found(s.found[k], F[i + k], n)

(* The scan finds exactly the whole frames before the first bad one, and   *)
(* ends right after them.                                                  *)
LEMMA ScanIs ==
  ASSUME NEW T, NEW cells \in Seq(T), NEW R, NEW ps \in Seq(Whole(R)), NEW F, NEW u,
         Laid(cells, F, ps, u), NEW magic, NEW n \in Nat, U32 \in Nat, 0 < U32,
         NEW i \in 0..Len(ps), NEW g \in i..Len(ps),
         \A j \in (i + 1)..Len(ps) : FrameLike(F[j], magic, n),
         \A j \in (i + 1)..g : ReadableAt(ps, j),
         g < Len(ps) => ~ReadableAt(ps, g + 1)
  PROVE  /\ ScanTo(Scan(magic, n, cells, u[i]), F, n, u, i, g)
         /\ \E V : Scan(magic, n, cells, u[i]).found \in Seq(V)
<1>1. PICK N \in Nat : N = Len(cells)
  OBVIOUS
<1>2. PICK l \in Nat : l = Len(ps)
  OBVIOUS
<1> DEFINE f == CHOOSE h : WalkOf(magic, n, cells, h)
<1>3. \A pos : Scan(magic, n, cells, pos) = f[pos]
  BY DEF Scan, WalkOf, WalksOn, FrameAt
<1>4. WalkOf(magic, n, cells, f)
  BY WalkExists
<1> HIDE DEF f
<1>5. \A pos \in 0..N : f[pos] = WalksOn(magic, n, cells, f, pos)
  BY <1>1, <1>4 DEF WalkOf
<1> DEFINE V == {FrameAt(magic, n, cells, pos) : pos \in 0..N}
<1>6. \A j \in 0..l : u[j] \in 0..N
  <2>1. ps \in Seq(Pieces(R))
    <3>1. \A k \in 1..l : ps[k] \in Pieces(R)
      BY <1>2 DEF Whole
    <3>2. QED
      BY <1>2, <3>1, SeqIntro
  <2>2. u \in [0..l -> Nat] /\ N = u[l]
    BY <1>1, <1>2 DEF Laid, Counts
  <2>3. \A j \in 0..l : j < l => u[j] < u[l]
    <3>1. Counts(u, ps)
      BY DEF Laid
    <3>2. \A j, k \in 0..l : j < k => u[j] < u[k]
      BY <1>2, <2>1, <3>1, CountsRise
    <3>3. QED
      BY <3>2
  <2>4. ASSUME NEW j \in 0..l PROVE u[j] \in 0..N
    <3>1. u[j] \in Nat /\ u[l] \in Nat /\ (j = l \/ u[j] < u[l])
      BY <2>2, <2>3
    <3>2. QED
      BY <2>2, <3>1
  <2>5. QED
    BY <2>4
<1> DEFINE Ok(m) == /\ ScanTo(f[u[g - m]], F, n, u, g - m, g)
                    /\ f[u[g - m]].found \in Seq(V)
           Failing == {m \in 0..(g - i) : ~Ok(m)}
<1>7. g \in Nat /\ i \in Nat /\ i <= g /\ g <= l /\ g - i \in Nat
  BY <1>2
<1>8. Failing \in SUBSET Nat
  <2> HIDE DEF Ok
  <2>1. QED
    BY <1>7
<1>9. ASSUME Failing # {} PROVE FALSE
  <2>1. PICK m \in Failing : \A j \in Failing : m <= j
    <3> HIDE DEF Failing
    <3>1. QED
      BY <1>8, <1>9, Least
  <2>2. m \in 0..(g - i) /\ ~Ok(m)
    <3> HIDE DEF Ok
    <3>1. QED
      BY <2>1
  <2>3. CASE m = 0
    <3>1. g - m = g /\ g - g = 0 /\ g \in 0..l
      BY <1>7, <2>3
    <3>2. PICK d : d = FrameAt(magic, n, cells, u[g])
      OBVIOUS
    <3>3. u[g] = N \/ d.why # "ok"
      <4>1. CASE g = l
        BY <1>1, <1>2, <4>1 DEF Laid
      <4>2. CASE g < l
        <5>1. g + 1 \in 1..l /\ g + 1 \in (i + 1)..l /\ (g + 1) - 1 = g
          BY <1>7, <4>2
        <5>2. FrameLike(F[g + 1], magic, n) /\ ~ReadableAt(ps, g + 1)
          BY <1>2, <4>2, <5>1
        <5>3. ~Passes(magic, n, SubSeq(cells, u[(g + 1) - 1] + 1, N))
          <6>1. PICK j \in 1..Len(ps) : j = g + 1
            BY <1>2, <5>1
          <6>2. ~Passes(magic, n, SubSeq(cells, u[j - 1] + 1, N))
            BY <1>1, <5>2, <6>1, DecodesOnly
          <6>3. QED
            BY <6>1, <6>2
        <5>4. PICK c : c = SubSeq(cells, u[g] + 1, N)
          OBVIOUS
        <5>5. d = Unframed(magic, n, c) /\ ~Passes(magic, n, c)
          BY <1>1, <3>2, <5>1, <5>3, <5>4 DEF FrameAt
        <5>6. QED
          BY <5>5, UnframedIs, Zenon
      <4>3. QED
        BY <1>7, <4>1, <4>2
    <3>4. f[u[g]] = [found |-> <<>>, end |-> u[g]]
      BY <1>1, <1>5, <1>6, <3>1, <3>2, <3>3 DEF WalksOn
    <3>5. f[u[g]].found = <<>> /\ f[u[g]].end = u[g]
      BY <3>4
    <3>6. <<>> \in Seq(V) /\ Len(<<>>) = 0
      BY EmptySeq
    <3>7. Ok(0)
      <4>1. ScanTo(f[u[g]], F, n, u, g, g)
        <5>1. \A k \in 1..(g - g) : FALSE
          BY <3>1
        <5>2. Len(f[u[g]].found) = g - g
          BY <3>1, <3>5, <3>6
        <5>3. QED
          BY <3>5, <5>1, <5>2 DEF ScanTo
      <4>2. f[u[g]].found \in Seq(V)
        BY <3>5, <3>6
      <4>3. g - 0 = g
        BY <1>7
      <4>4. QED
        BY <4>1, <4>2, <4>3
    <3> HIDE DEF Ok
    <3>8. QED
      BY <2>2, <2>3, <3>7
  <2>4. CASE m # 0
    <3> HIDE DEF V
    <3>1. PICK j \in 1..l : j = g - m + 1 /\ j \in (i + 1)..g
      BY <1>7, <2>2, <2>4
    <3>2. m - 1 \in 0..(g - i) /\ m - 1 < m /\ g - (m - 1) = j /\ g - m = j - 1
      BY <1>7, <2>2, <2>4, <3>1
    <3>3. m - 1 \notin Failing
      <4> HIDE DEF Failing
      <4>1. QED
        BY <1>8, <2>1, <3>2
    <3>4. Ok(m - 1)
      <4> HIDE DEF Ok
      <4>1. QED
        BY <3>2, <3>3
    <3>5. PICK more : more = f[u[j]]
      OBVIOUS
    <3>6. ScanTo(more, F, n, u, j, g) /\ more.found \in Seq(V)
      BY <3>2, <3>4, <3>5
    <3>7. PICK d : d = FrameAt(magic, n, cells, u[j - 1])
      OBVIOUS
    <3>8. d.why = "ok" /\ Found(d, F[j], n)
      <4>1. FrameLike(F[j], magic, n) /\ ReadableAt(ps, j) /\ j \in 1..Len(ps)
        BY <1>2, <1>7, <3>1
      <4>2. PICK c : c = SubSeq(cells, u[j - 1] + 1, N)
        OBVIOUS
      <4>3. Passes(magic, n, c) /\ Found(Unframed(magic, n, c), F[j], n)
        BY <1>1, <4>1, <4>2, DecodesWhole
      <4>4. d = Unframed(magic, n, c)
        BY <1>1, <3>7, <4>2 DEF FrameAt
      <4>5. d.why = "ok"
        BY <4>3, <4>4, UnframedIs, Zenon
      <4>6. QED
        BY <4>3, <4>4, <4>5
    <3>9. u[j - 1] \in 0..N /\ u[j - 1] # N /\ u[j - 1] + d.used = u[j]
      <4>1. /\ u[j - 1] \in Nat /\ u[j] = u[j - 1] + ps[j].to /\ u[j] <= N
            /\ ps[j].to \in Nat \ {0}
        BY <1>1, <1>2, <3>1, PlaceIs, SMTT(30) DEF Laid
      <4>2. ReadableAt(ps, j)
        BY <3>1
      <4>3. d.used = ps[j].to
        BY <1>2, <3>1, <3>8, <4>2 DEF Found, Laid, ReadableAt, IsWhole
      <4>4. QED
        BY <4>1, <4>3
    <3>10. f[u[j - 1]] = [found |-> <<d>> \o more.found, end |-> more.end]
      BY <1>1, <1>5, <3>5, <3>7, <3>8, <3>9 DEF WalksOn
    <3>11. PICK tail \in Seq(V) : tail = more.found
      BY <3>6
    <3>12. <<d>> \in Seq(V) /\ Len(<<d>>) = 1 /\ <<d>>[1] = d
      <4>1. d \in V
        BY <1>1, <3>7, <3>9 DEF V
      <4>2. QED
        BY <4>1
    <3>13. PICK s : s = <<d>> \o tail
      OBVIOUS
    <3>14. s \in Seq(V) /\ Both(s, <<d>>, tail)
      BY <3>12, <3>13, ConcatAt, Zenon
    <3>15. f[u[j - 1]].found = s /\ f[u[j - 1]].end = u[g]
      BY <3>6, <3>10, <3>11, <3>13, SMTT(30) DEF ScanTo
    <3>16. Len(tail) = g - j /\ \A k \in 1..(g - j) : Found(tail[k], F[j + k], n)
      BY <3>6, <3>11 DEF ScanTo
    <3>17. PICK e \in Seq(V) : e = <<d>> /\ Len(e) = 1 /\ e[1] = d
      BY <3>12
    <3>18. /\ Len(s) = 1 + Len(tail) /\ s[1] = d
           /\ \A k \in 1..Len(tail) : s[1 + k] = tail[k]
      <4>1. Both(s, e, tail)
        BY <3>14, <3>17
      <4>2. 1 \in 1..1
        OBVIOUS
      <4>3. QED
        BY <3>17, <4>1, <4>2 DEF Both
    <3>19. Len(s) = g - (j - 1)
      BY <1>7, <3>1, <3>16, <3>18
    <3>20. ASSUME NEW k \in 1..(g - (j - 1)) PROVE Found(s[k], F[(j - 1) + k], n)
      <4>1. CASE k = 1
        <5>1. (j - 1) + 1 = j
          OBVIOUS
        <5>2. QED
          BY <3>8, <3>18, <4>1, <5>1
      <4>2. CASE k # 1
        <5>1. PICK o \in 1..(g - j) : o = k - 1
          BY <1>7, <3>1, <4>2
        <5>2. 1 + o = k /\ j + o = (j - 1) + k
          BY <1>7, <3>1, <5>1
        <5>3. s[1 + o] = tail[o] /\ Found(tail[o], F[j + o], n)
          BY <3>16, <3>18, <5>1
        <5>4. QED
          BY <5>2, <5>3
      <4>3. QED
        BY <4>1, <4>2
    <3>21. Ok(m)
      <4>1. ScanTo(f[u[j - 1]], F, n, u, j - 1, g)
        BY <3>15, <3>19, <3>20 DEF ScanTo
      <4>2. f[u[j - 1]].found \in Seq(V)
        BY <3>14, <3>15
      <4>3. QED
        BY <3>2, <4>1, <4>2
    <3> HIDE DEF Ok
    <3>22. QED
      BY <2>2, <3>21
  <2>5. QED
    BY <2>3, <2>4
<1>10. Ok(g - i)
  <2> HIDE DEF Ok
  <2>1. g - i \in 0..(g - i)
    BY <1>7
  <2>2. QED
    BY <1>9, <2>1
<1>11. g - (g - i) = i
  BY <1>7
<1>12. ScanTo(f[u[i]], F, n, u, i, g) /\ f[u[i]].found \in Seq(V)
  BY <1>10, <1>11
<1>13. QED
  BY <1>3, <1>12

-----------------------------------------------------------------------------
(* Data files                                                              *)

(* The cells of a file are laid out frame after frame.                     *)
LaidOut(cells, F, ps) ==
  \E T, u : cells \in Seq(T) /\ Laid(cells, F, ps, u) /\ CellsIn(ps) = u[Len(ps)]

(* So are the cells of every file whose pieces are as long as their        *)
(* frames.                                                                 *)
LEMMA CellsLaid ==
  ASSUME NEW R, NEW ps \in Seq(Whole(R)), NEW F,
         \A k \in 1..Len(ps) : /\ Len(F[k]) = ps[k].len /\ Cellular(F[k])
                               /\ \E T : F[k] \in Seq(T),
         NEW parts, parts = [k \in DOMAIN ps |-> CellsOf(ps[k], F[k])]
  PROVE  LaidOut(Joined(parts), F, ps)
<1>1. PICK l \in Nat : l = Len(ps)
  OBVIOUS
<1>2. ps \in Seq(Pieces(R))
  <2>1. \A k \in 1..l : ps[k] \in Pieces(R)
    BY <1>1 DEF Whole
  <2>2. QED
    BY <1>1, <2>1, SeqIntro
<1>3. PICK u : Counts(u, ps) /\ CellsIn(ps) = u[Len(ps)]
  BY <1>2, CellsCount
<1>4. PICK T : T = UNION {{F[k][o] : o \in 1..ps[k].len} : k \in 1..l}
  OBVIOUS
<1>5. ASSUME NEW k \in 1..l
      PROVE  /\ parts[k] \in Seq(T) /\ Len(parts[k]) = Size(ps[k])
             /\ \A o \in 1..Size(ps[k]) : parts[k][o] = F[k][o]
  <2>1. PICK n \in Nat : n = ps[k].len
    BY <1>1, <1>3, PlaceIs
  <2>2. PICK m \in Nat : m = ps[k].to
    BY <1>1, <1>3, PlaceIs
  <2>3. ps[k].from = 0 /\ m <= n /\ Size(ps[k]) = m /\ Len(F[k]) = n
    BY <1>1, <1>3, <2>1, <2>2, PlaceIs
  <2>4. PICK G : F[k] \in Seq(G)
    BY <1>1
  <2>5. parts[k] = SubSeq(F[k], 0 + 1, m)
    BY <1>1, <2>2, <2>3 DEF CellsOf
  <2>6. 0 \in Nat /\ 0 <= m /\ m - 0 = m /\ \A o \in 1..m : 0 + o = o /\ o \in 1..n
    BY <2>3
  <2>7. PICK p \in Seq(G) : p = SubSeq(F[k], 0 + 1, m) /\ Len(p) = m
                            /\ \A o \in 1..m : p[o] = F[k][o]
    <3>1. /\ SubSeq(F[k], 0 + 1, m) \in Seq(G) /\ Len(SubSeq(F[k], 0 + 1, m)) = m - 0
          /\ \A o \in 1..(m - 0) : SubSeq(F[k], 0 + 1, m)[o] = F[k][0 + o]
      BY <2>3, <2>4, <2>6, PartAt
    <3>2. PICK p : p = SubSeq(F[k], 0 + 1, m)
      OBVIOUS
    <3>3. p \in Seq(G) /\ Len(p) = m /\ \A o \in 1..m : p[o] = F[k][0 + o]
      BY <2>6, <3>1, <3>2
    <3>4. \A o \in 1..m : p[o] = F[k][o]
      BY <2>6, <3>3
    <3>5. QED
      BY <3>2, <3>3, <3>4
  <2>8. \A o \in 1..Len(p) : p[o] \in T
    <3>1. ASSUME NEW o \in 1..m PROVE p[o] \in T
      <4>1. o \in 1..ps[k].len /\ p[o] = F[k][o]
        BY <2>1, <2>6, <2>7
      <4>2. p[o] \in {F[k][a] : a \in 1..ps[k].len}
        BY <4>1
      <4>3. QED
        BY <1>4, <4>2
    <3>2. QED
      BY <2>7, <3>1
  <2>9. p \in Seq(T)
    BY <2>7, <2>8, SeqIntro
  <2>10. QED
    BY <2>3, <2>5, <2>7, <2>9
<1>6. parts \in Seq(Seq(T)) /\ Len(parts) = l
  <2>1. parts = [k \in 1..l |-> parts[k]]
    BY <1>1
  <2>2. \A k \in 1..l : parts[k] \in Seq(T)
    BY <1>5
  <2>3. QED
    BY <2>1, <2>2, SeqOfFun
<1>7. Joined(parts) \in Seq(T) /\ Placed(Joined(parts), parts, ps, u)
  <2>1. Len(parts) = Len(ps) /\ \A k \in 1..Len(ps) : Len(parts[k]) = Size(ps[k])
    BY <1>1, <1>5, <1>6
  <2>2. QED
    BY <1>2, <1>3, <1>6, <2>1, JoinedIs
<1>8. Laid(Joined(parts), F, ps, u)
  BY <1>1, <1>3, <1>5, <1>7 DEF Placed, Laid
<1>9. QED
  BY <1>3, <1>7, <1>8 DEF LaidOut

(* The cells of the first pieces are the first cells.                      *)
LEMMA CellsFront ==
  ASSUME NEW R, NEW ps \in Seq(Pieces(R)), NEW u, Counts(u, ps),
         NEW qs \in Seq(Pieces(R)), Len(qs) <= Len(ps),
         \A k \in 1..Len(qs) : qs[k] = ps[k]
  PROVE  CellsIn(qs) = u[Len(qs)]
<1>0. PICK g \in Nat : g = Len(qs)
  OBVIOUS
<1>1. PICK v : Counts(v, qs) /\ CellsIn(qs) = v[g]
  BY <1>0, CellsCount
<1>2. PICK l \in Nat : l = Len(ps) /\ g <= l
  BY <1>0
<1>3. /\ v \in [0..g -> Nat] /\ v[0] = 0 /\ \A k \in 1..g : v[k] = v[k - 1] + Size(qs[k])
      /\ u \in [0..l -> Nat] /\ u[0] = 0 /\ \A k \in 1..l : u[k] = u[k - 1] + Size(ps[k])
  BY <1>0, <1>1, <1>2 DEF Counts
<1> DEFINE Failing == {k \in 0..g : v[k] # u[k]}
<1>4. Failing \in SUBSET Nat
  BY <1>2
<1>5. ASSUME Failing # {} PROVE FALSE
  <2>1. PICK n \in Failing : \A m \in Failing : n <= m
    <3> HIDE DEF Failing
    <3>1. QED
      BY <1>4, <1>5, Least
  <2>2. n \in 0..g /\ v[n] # u[n]
    BY <2>1
  <2>3. n \in 1..g /\ n \in 1..l /\ n - 1 \in 0..g /\ n - 1 < n
    BY <1>2, <1>3, <2>2
  <2>4. n - 1 \notin Failing
    <3> HIDE DEF Failing
    <3>1. QED
      BY <1>4, <2>1, <2>3
  <2>5. v[n - 1] = u[n - 1] /\ qs[n] = ps[n]
    BY <1>0, <2>3, <2>4
  <2>6. v[n] = v[n - 1] + Size(qs[n]) /\ u[n] = u[n - 1] + Size(ps[n])
    BY <1>3, <2>3
  <2>7. QED
    BY <2>2, <2>5, <2>6
<1>6. g \in 0..g
  BY <1>2
<1>7. QED
  BY <1>0, <1>1, <1>5, <1>6

(* How long the frame of a state is.                                       *)
StoreLen == [s \in Value |-> RecordCells(s)]

(* A record of these fields.                                               *)
LEMMA ValueIs ==
  ASSUME NEW s \in Value, NEW d, d.fields[1] = <<"id", s.id>>, d.fields[2] = Num(s.ver),
         d.blob = s.blob
  PROVE  RecordOf(d) = s
<1>1. RecordOf(d) = [id |-> s.id, ver |-> s.ver, blob |-> s.blob]
  BY DEF RecordOf, Num
<1>2. s = [id |-> s.id, ver |-> s.ver, blob |-> s.blob]
  BY DEF Value
<1>3. QED
  BY <1>1, <1>2

(* A log record of these fields.                                           *)
LEMMA LogRecordIs ==
  ASSUME NEW r \in LogRecords, NEW d, d.fields[1] = Num(r.lsn), d.fields[2] = <<"id", r.id>>,
         d.fields[3] = Num(r.ver), d.blob = r.blob
  PROVE  WalOf(d) = r
<1>1. WalOf(d) = [lsn |-> r.lsn, id |-> r.id, ver |-> r.ver, blob |-> r.blob]
  BY DEF WalOf, Num
<1>2. r = [lsn |-> r.lsn, id |-> r.id, ver |-> r.ver, blob |-> r.blob]
  BY DEF LogRecords, Records
<1>3. QED
  BY <1>1, <1>2

(* rebuild_index finds in the bytes of a data file what its pieces say.    *)
LEMMA FileBytes ==
  ASSUME NEW d \in Seq(Whole(Value)), Sized(d, StoreLen), U32 \in Nat, HEADER_LEN < U32
  PROVE  LET found == DecodeFile(FileCells(d))
         IN  found.recs = DStates(d) /\ found.end = CellsIn(DGood(d))
<1>1. PICK l \in Nat : l = Len(d)
  OBVIOUS
<1> DEFINE F == [k \in 1..l |-> EncodeRecord(d[k].rec)]
           parts == [k \in DOMAIN d |-> CellsOf(d[k], F[k])]
<1>2. ASSUME NEW k \in 1..l
      PROVE  /\ d[k].rec \in Value /\ d[k].len = RecordCells(d[k].rec)
             /\ FrameLike(F[k], "DBVK", 2) /\ Cellular(F[k]) /\ Len(F[k]) = d[k].len
             /\ F[k][3] = <<"id", d[k].rec.id>> /\ F[k][4] = Num(d[k].rec.ver)
  <2>1. d[k] \in Whole(Value)
    BY <1>1
  <2>2. PICK s \in Value : s = d[k].rec
    BY <2>1 DEF Whole, Pieces
  <2>3. d[k].len = RecordCells(s)
    BY <1>1, <2>2 DEF Sized, StoreLen
  <2>4. PICK G : G = EncodeRecord(s)
    OBVIOUS
  <2>5. /\ FrameLike(G, "DBVK", 2) /\ Cellular(G) /\ Len(G) = RecordCells(s)
        /\ G[3] = <<"id", s.id>> /\ G[4] = Num(s.ver)
    BY <2>4, EncodeRecordIs
  <2>6. F[k] = G
    BY <2>2, <2>4
  <2>7. QED
    BY <2>2, <2>3, <2>5, <2>6
<1>3. FileCells(d) = Joined(parts)
  <2>1. parts = [k \in DOMAIN d |-> CellsOf(d[k], EncodeRecord(d[k].rec))]
    BY <1>1
  <2>2. QED
    BY <2>1 DEF FileCells
<1> HIDE DEF F
<1>4. PICK T, u : /\ Joined(parts) \in Seq(T) /\ Laid(Joined(parts), F, d, u)
                  /\ CellsIn(d) = u[Len(d)]
  <2>1. \A k \in 1..Len(d) : /\ Len(F[k]) = d[k].len /\ Cellular(F[k])
                             /\ \E T : F[k] \in Seq(T)
    BY <1>1, <1>2 DEF FrameLike
  <2>2. parts = [k \in DOMAIN d |-> CellsOf(d[k], F[k])]
    OBVIOUS
  <2> HIDE DEF parts
  <2>3. LaidOut(Joined(parts), F, d)
    BY <2>1, <2>2, CellsLaid
  <2>4. QED
    BY <2>3 DEF LaidOut
<1> HIDE DEF parts
<1>5. PICK cells \in Seq(T) : cells = FileCells(d) /\ Laid(cells, F, d, u)
  BY <1>3, <1>4
<1>6. DGood(d) \in Seq(Whole(Value)) /\ Prefix(d, DGood(d))
  BY ReplayIs
<1>7. PICK g \in 0..l : /\ Len(DGood(d)) = g
                        /\ \A k \in 1..g : DGood(d)[k] = d[k] /\ ReadableAt(d, k)
                        /\ g < l => ~ReadableAt(d, g + 1)
  BY <1>1, <1>6 DEF Prefix
<1>8. PICK s : s = Scan("DBVK", 2, cells, u[0])
  OBVIOUS
<1>9. ScanTo(s, F, 2, u, 0, g) /\ \E V : s.found \in Seq(V)
  <2>1. /\ 0 \in 0..Len(d) /\ g \in 0..Len(d) /\ 0 + 1 = 1 /\ 2 \in Nat /\ 0 < U32
    BY <1>1, HeaderIs
  <2>2. /\ \A j \in (0 + 1)..Len(d) : FrameLike(F[j], "DBVK", 2)
        /\ \A j \in (0 + 1)..g : ReadableAt(d, j)
        /\ g < Len(d) => ~ReadableAt(d, g + 1)
    BY <1>1, <1>2, <1>7, <2>1
  <2>3. QED
    BY <1>5, <1>8, <2>1, <2>2, ScanIs
<1>10. u[0] = 0
  BY <1>5 DEF Laid, Counts
<1>11. PICK found : found = DecodeFile(FileCells(d))
  OBVIOUS
<1>12. found.recs = [k \in DOMAIN s.found |-> RecordOf(s.found[k])] /\ found.end = s.end
  BY <1>5, <1>8, <1>10, <1>11 DEF DecodeFile
<1>13. /\ DOMAIN s.found = 1..g /\ s.end = u[g]
       /\ \A k \in 1..g : Found(s.found[k], F[k], 2)
  <2>1. g - 0 = g /\ \A k \in 1..g : 0 + k = k
    OBVIOUS
  <2>2. Len(s.found) = g /\ s.end = u[g] /\ \A k \in 1..g : Found(s.found[k], F[k], 2)
    BY <1>9, <2>1 DEF ScanTo
  <2>3. QED
    BY <1>9, <2>2
<1>14. ASSUME NEW k \in 1..g PROVE RecordOf(s.found[k]) = d[k].rec
  <2>1. k \in 1..l
    BY <1>7
  <2>2. PICK v \in Value : v = d[k].rec
    BY <1>2, <2>1
  <2>3. Len(F[k]) = RecordCells(v) /\ F[k][3] = <<"id", v.id>> /\ F[k][4] = Num(v.ver)
    BY <1>2, <2>1, <2>2
  <2>4. PICK e : e = s.found[k]
    OBVIOUS
  <2>5. e.blob = Len(F[k]) - 4 - 2 /\ \A i \in 1..2 : e.fields[i] = F[k][2 + i]
    BY <1>13, <2>4 DEF Found
  <2>6. e.fields[1] = F[k][3] /\ e.fields[2] = F[k][4]
    <3>1. 1 \in 1..2 /\ 2 \in 1..2 /\ 2 + 1 = 3 /\ 2 + 2 = 4
      OBVIOUS
    <3>2. QED
      BY <2>5, <3>1
  <2>7. e.blob = v.blob
    BY <2>3, <2>5 DEF RecordCells, Value
  <2>8. RecordOf(e) = v
    BY <2>3, <2>6, <2>7, ValueIs
  <2>9. QED
    BY <2>2, <2>4, <2>8
<1>15. found.recs = DStates(d)
  <2>1. DOMAIN DGood(d) = 1..g
    BY <1>6, <1>7
  <2>2. DStates(d) = [k \in 1..g |-> d[k].rec]
    BY <2>1 DEF DStates
  <2>3. found.recs = [k \in 1..g |-> RecordOf(s.found[k])]
    BY <1>12, <1>13
  <2>4. QED
    BY <1>14, <2>2, <2>3
<1>16. found.end = CellsIn(DGood(d))
  <2>1. \A k \in 1..Len(d) : d[k] \in Pieces(Value)
    BY DEF Whole
  <2>2. d \in Seq(Pieces(Value))
    BY <2>1, SeqIntro
  <2>3. DGood(d) \in Seq(Pieces(Value))
    <3>1. \A k \in 1..Len(DGood(d)) : DGood(d)[k] \in Pieces(Value)
      BY <1>6 DEF Whole
    <3>2. QED
      BY <1>6, <3>1, SeqIntro
  <2>4. CellsIn(DGood(d)) = u[g]
    <3>1. Counts(u, d)
      BY <1>5 DEF Laid
    <3>2. PICK q \in Seq(Pieces(Value)) : q = DGood(d)
      BY <2>3
    <3>3. Len(q) <= Len(d) /\ \A k \in 1..Len(q) : q[k] = d[k]
      BY <1>1, <1>7, <3>2
    <3>4. CellsIn(q) = u[Len(q)]
      BY <2>2, <3>1, <3>3, CellsFront
    <3>5. QED
      BY <1>7, <3>2, <3>4
  <2>5. QED
    BY <1>12, <1>13, <2>4
<1>17. QED
  BY <1>11, <1>15, <1>16

-----------------------------------------------------------------------------
(* Segments                                                                *)

(* What a piece of a segment holds.                                        *)
SegmentFrame(r) == IF r = Header.rec THEN HEADER_MAGIC ELSE EncodeWal(r)

(* It is the magic, or the frame of a log record; and only the first piece *)
(* is the magic.                                                           *)
LEMMA SegmentFrameIs ==
  ASSUME NEW d \in Segments, Measured(d), NEW k \in 1..Len(d), U32 \in Nat, HEADER_LEN < U32,
         NEW F, F = SegmentFrame(d[k].rec)
  PROVE  /\ d[k] \in Whole(Contents)
         /\ Len(F) = d[k].len /\ Cellular(F) /\ \E T : F \in Seq(T)
         /\ \/ k = 1 /\ d[k].rec = Header.rec /\ F = HEADER_MAGIC /\ d[k].len = 2
            \/ /\ d[k].rec \in LogRecords /\ F = EncodeWal(d[k].rec)
               /\ d[k].len = WalCells(d[k].rec) /\ FrameLike(F, "FLXR", 3)
<1>1. d[k] \in Whole(Contents) /\ d[k].rec \in Contents
  <2>1. d \in Seq(Whole(Contents))
    BY SegmentIs
  <2>2. d[k] \in Whole(Contents)
    BY <2>1
  <2>3. QED
    BY <2>2 DEF Whole, Pieces
<1>2. d[k].len = WalLen[d[k].rec]
  BY DEF Measured, Sized
<1>3. CASE d[k].rec = Header.rec
  <2>1. k = 1
    <3>1. CASE k \in 2..Len(d)
      <4>1. d[k].rec \in LogRecords
        BY <3>1 DEF Segments, SegmentsOf
      <4>2. QED
        BY <1>3, <4>1, RecordIs
    <3>2. QED
      BY <3>1
  <2>2. F = HEADER_MAGIC /\ d[k].len = 2
    BY <1>2, <1>3, WalLenIs, HeaderIs DEF SegmentFrame
  <2>3. QED
    BY <1>1, <1>3, <2>1, <2>2, MagicIs
<1>4. CASE d[k].rec # Header.rec
  <2>1. PICK r \in LogRecords : r = d[k].rec
    BY <1>1, <1>4 DEF Contents
  <2>2. F = EncodeWal(r) /\ d[k].len = WalCells(r)
    BY <1>2, <1>4, <2>1, WalLenIs DEF SegmentFrame
  <2>3. FrameLike(F, "FLXR", 3) /\ Cellular(F) /\ Len(F) = WalCells(r)
    BY <2>2, EncodeWalIs
  <2>4. \E T : F \in Seq(T)
    BY <2>3 DEF FrameLike
  <2>5. QED
    BY <1>1, <2>1, <2>2, <2>3, <2>4
<1>5. QED
  BY <1>3, <1>4

(* The cells of a segment are laid out in the same way.                    *)
LEMMA SegmentLaid ==
  ASSUME NEW d \in Segments, Measured(d), U32 \in Nat, HEADER_LEN < U32
  PROVE  \E F : /\ \A k \in 1..Len(d) : F[k] = SegmentFrame(d[k].rec)
                /\ LaidOut(SegmentCells(d), F, d)
<1>1. PICK l \in Nat : l = Len(d)
  BY SegmentIs
<1>2. d \in Seq(Whole(Contents)) /\ DOMAIN d = 1..l
  BY <1>1, SegmentIs
<1> DEFINE F == [k \in 1..Len(d) |-> SegmentFrame(d[k].rec)]
           parts == [k \in DOMAIN d |-> CellsOf(d[k], F[k])]
<1>3. SegmentCells(d) = Joined(parts)
  <2>1. parts = [k \in DOMAIN d |-> CellsOf(d[k], IF d[k].rec = Header.rec THEN HEADER_MAGIC
                                                  ELSE EncodeWal(d[k].rec))]
    BY <1>1, <1>2 DEF SegmentFrame
  <2>2. QED
    BY <2>1 DEF SegmentCells
<1>4. \A k \in 1..Len(d) : F[k] = SegmentFrame(d[k].rec)
  OBVIOUS
<1> HIDE DEF F
<1>5. \A k \in 1..Len(d) : /\ Len(F[k]) = d[k].len /\ Cellular(F[k])
                           /\ \E T : F[k] \in Seq(T)
  <2>1. ASSUME NEW k \in 1..Len(d)
        PROVE  Len(F[k]) = d[k].len /\ Cellular(F[k]) /\ \E T : F[k] \in Seq(T)
    <3>1. F[k] = SegmentFrame(d[k].rec)
      BY <1>4
    <3>2. QED
      BY <3>1, SegmentFrameIs
  <2>2. QED
    BY <2>1
<1>6. parts = [k \in DOMAIN d |-> CellsOf(d[k], F[k])]
  OBVIOUS
<1> HIDE DEF parts
<1>7. LaidOut(Joined(parts), F, d)
  BY <1>2, <1>5, <1>6, CellsLaid
<1>8. QED
  BY <1>3, <1>4, <1>7

(* A file without a whole header is none of ours to cut (recover).         *)
LEMMA UnheadedBytes ==
  ASSUME NEW d \in Segments, Measured(d), U32 \in Nat, HEADER_LEN < U32, ~Headed(d)
  PROVE  LET found == DecodeSegment(SegmentCells(d))
         IN  found.recs = Log(d) /\ found.end = CellsIn(Good(d))
<1>1. PICK F : /\ \A k \in 1..Len(d) : F[k] = SegmentFrame(d[k].rec)
               /\ LaidOut(SegmentCells(d), F, d)
  BY SegmentLaid
<1>2. PICK T, u : /\ SegmentCells(d) \in Seq(T) /\ Laid(SegmentCells(d), F, d, u)
                  /\ CellsIn(d) = u[Len(d)]
  BY <1>1 DEF LaidOut
<1>3. PICK cells \in Seq(T) : cells = SegmentCells(d) /\ Laid(cells, F, d, u)
  BY <1>2
<1>4. PICK N \in Nat : N = Len(cells)
  OBVIOUS
<1>5. N = u[Len(d)]
  BY <1>3, <1>4 DEF Laid
<1>6. Log(d) = <<>> /\ Good(d) = d
  BY DEF Headed, Log, Good
<1>7. N < HEADER_LEN \/ SubSeq(cells, 1, HEADER_LEN) # HEADER_MAGIC
  <2>1. SUFFICES ASSUME ~(N < 2), SubSeq(cells, 1, 2) = HEADER_MAGIC PROVE FALSE
    BY HeaderIs
  <2>2. cells[1] = <<"file", 1>> /\ cells[2] = <<"file", 2>>
    <3>1. /\ 0 \in Nat /\ 2 \in Nat /\ 0 <= 2 /\ 2 <= N /\ 0 + 1 = 1 /\ 2 - 0 = 2
          /\ 1 \in 1..2 /\ 2 \in 1..2 /\ 0 + 2 = 2
      BY <2>1
    <3>2. \A k \in 1..(2 - 0) : SubSeq(cells, 0 + 1, 2)[k] = cells[0 + k]
      BY <1>4, <3>1, PartAt
    <3>3. SubSeq(cells, 1, 2)[1] = cells[1] /\ SubSeq(cells, 1, 2)[2] = cells[2]
      BY <3>1, <3>2
    <3>4. QED
      BY <2>1, <3>3, MagicIs
  <2>3. Counts(u, d) /\ d \in Seq(Whole(Contents))
    BY <1>3, SegmentIs DEF Laid
  <2>4. Len(d) \in Nat /\ Len(d) # 0
    <3>1. Len(d) \in Nat /\ u[0] = 0
      BY <2>3 DEF Counts
    <3>2. QED
      BY <1>5, <2>1, <3>1
  <2>5. 1 \in 1..Len(d) /\ 1 - 1 = 0 /\ u[0] = 0
    BY <2>3, <2>4 DEF Counts
  <2>6. PICK m \in Nat \ {0} : m = d[1].to /\ Size(d[1]) = m /\ m <= d[1].len /\ d[1].from = 0
    <3>1. PICK p : p = d[1]
      OBVIOUS
    <3>2. p.from = 0 /\ p.to \in Nat \ {0} /\ p.to <= p.len /\ Size(p) = p.to
      BY <2>3, <2>5, <3>1, PieceAt
    <3>3. QED
      BY <3>1, <3>2
  <2>7. cells[1] = F[1][1] /\ F[1] = SegmentFrame(d[1].rec)
    <3>1. 1 \in 1..Size(d[1]) /\ 0 + 1 = 1
      BY <2>6
    <3>2. cells[u[1 - 1] + 1] = F[1][1]
      BY <1>3, <2>5, <3>1 DEF Laid
    <3>3. QED
      BY <1>1, <2>5, <3>1, <3>2
  <2>8. /\ d[1].rec = Header.rec /\ d[1].len = 2
    <3>1. \/ d[1].rec = Header.rec /\ d[1].len = 2
          \/ FrameLike(F[1], "FLXR", 3)
      BY <2>5, <2>7, SegmentFrameIs
    <3>2. ASSUME FrameLike(F[1], "FLXR", 3) PROVE FALSE
      <4>1. F[1][1] = <<"magic", "FLXR">>
        BY <3>2 DEF FrameLike
      <4>2. <<"magic", "FLXR">>[1] = "magic" /\ <<"file", 1>>[1] = "file"
        OBVIOUS
      <4>3. QED
        BY <2>2, <2>7, <4>1, <4>2
    <3>3. QED
      BY <3>1, <3>2
  <2>9. m = 1
    <3>1. CASE m = 2
      <4>1. d[1] \in Pieces(Contents) /\ Header \in Pieces(Contents)
        <5>1. d[1] \in Whole(Contents)
          BY <2>3, <2>5
        <5>2. QED
          BY <5>1, HeaderPiece DEF SegPiece, Whole
      <4>2. /\ d[1].rec = Header.rec /\ d[1].len = Header.len /\ d[1].from = Header.from
            /\ d[1].to = Header.to
        BY <2>6, <2>8, <3>1, HeaderIs
      <4>3. d[1] = Header
        BY <4>1, <4>2, SamePiece
      <4>4. QED
        BY <2>4, <4>3 DEF Headed
    <3>2. QED
      BY <2>6, <2>8, <3>1
  <2>10. u[1] = 1
    BY <2>3, <2>5, <2>6, <2>9 DEF Counts
  <2>11. PICK l \in Nat : l = Len(d) /\ l # 0
    BY <2>4
  <2>12. 2 \in 1..Len(d) /\ 2 - 1 = 1
    <3>1. N = u[l]
      BY <1>5, <2>11
    <3>2. l # 1
      BY <2>1, <2>10, <3>1
    <3>3. 2 \in 1..l
      BY <2>11, <3>2
    <3>4. QED
      BY <2>11, <3>3
  <2>13. 1 \in 1..Size(d[2])
    <3>1. PICK z \in Nat \ {0} : z = Size(d[2])
      BY <2>3, <2>12, PieceAt
    <3>2. 1 \in 1..z
      OBVIOUS
    <3>3. QED
      BY <3>1, <3>2
  <2>14. cells[2] = F[2][1]
    <3>1. cells[u[2 - 1] + 1] = F[2][1]
      BY <1>3, <2>12, <2>13 DEF Laid
    <3>2. u[2 - 1] + 1 = 2
      BY <2>10, <2>12
    <3>3. QED
      BY <3>1, <3>2
  <2>15. FrameLike(F[2], "FLXR", 3)
    <3>1. F[2] = SegmentFrame(d[2].rec)
      BY <1>1, <2>12
    <3>2. QED
      BY <2>12, <3>1, SegmentFrameIs
  <2>16. F[2][1] = <<"magic", "FLXR">>
    BY <2>15 DEF FrameLike
  <2>17. <<"magic", "FLXR">>[1] = "magic" /\ <<"file", 2>>[1] = "file"
    OBVIOUS
  <2>18. QED
    BY <2>2, <2>14, <2>16, <2>17
<1>8. DecodeSegment(cells) = [recs |-> <<>>, end |-> Len(cells)]
  BY <1>4, <1>7 DEF DecodeSegment
<1>9. PICK found : found = DecodeSegment(SegmentCells(d))
  OBVIOUS
<1>10. found.recs = <<>> /\ found.end = N
  BY <1>3, <1>4, <1>8, <1>9
<1>11. QED
  BY <1>2, <1>5, <1>6, <1>9, <1>10

(* The walk starts after the magic of a file that has it.                  *)
LEMMA HeadedBytes ==
  ASSUME NEW d \in Segments, Measured(d), U32 \in Nat, HEADER_LEN < U32, Headed(d)
  PROVE  LET found == DecodeSegment(SegmentCells(d))
         IN  found.recs = Log(d) /\ found.end = CellsIn(Good(d))
<1>1. PICK F : /\ \A k \in 1..Len(d) : F[k] = SegmentFrame(d[k].rec)
               /\ LaidOut(SegmentCells(d), F, d)
  BY SegmentLaid
<1>2. PICK T, u : /\ SegmentCells(d) \in Seq(T) /\ Laid(SegmentCells(d), F, d, u)
                  /\ CellsIn(d) = u[Len(d)]
  BY <1>1 DEF LaidOut
<1>3. PICK cells \in Seq(T) : cells = SegmentCells(d) /\ Laid(cells, F, d, u)
  BY <1>2
<1>4. PICK N \in Nat : N = Len(cells)
  OBVIOUS
<1>5. d \in Seq(Whole(Contents)) /\ Counts(u, d) /\ N = u[Len(d)]
  BY <1>3, <1>4, SegmentIs DEF Laid
<1>6. PICK l \in Nat : l = Len(d)
  BY <1>5
<1>7. 1 \in 1..l /\ d[1] = Header /\ 1 - 1 = 0
  BY <1>5, <1>6 DEF Headed
<1>8. PICK g \in 0..l : /\ g > 0 /\ Len(Good(d)) = g
                        /\ \A k \in 1..g : Good(d)[k] = d[k] /\ ReadableAt(d, k)
                        /\ g < l => ~ReadableAt(d, g + 1)
  <2>1. Len(Good(d)) > 0 /\ Prefix(d, Good(d))
    BY <1>5, GoodIs DEF Headed
  <2>2. QED
    BY <1>6, <2>1 DEF Prefix
<1>9. u[1] = 2 /\ 2 <= N /\ F[1] = HEADER_MAGIC /\ Size(d[1]) = 2
  <2>1. d[1].to = 2 /\ d[1].rec = Header.rec
    BY <1>7, HeaderIs
  <2>2. Size(d[1]) = 2 /\ u[1] = u[1 - 1] + 2 /\ u[1] <= N
    BY <1>5, <1>6, <1>7, <2>1, PlaceIs
  <2>3. u[1 - 1] = 0
    BY <1>5, <1>7 DEF Counts
  <2>4. F[1] = HEADER_MAGIC
    BY <1>1, <1>6, <1>7, <2>1 DEF SegmentFrame
  <2>5. QED
    BY <2>2, <2>3, <2>4
<1>10. ~(N < HEADER_LEN) /\ SubSeq(cells, 1, HEADER_LEN) = HEADER_MAGIC
  <2>1. cells[1] = <<"file", 1>> /\ cells[2] = <<"file", 2>>
    <3>1. 1 \in 1..Size(d[1]) /\ 2 \in 1..Size(d[1]) /\ u[1 - 1] = 0 /\ 0 + 1 = 1 /\ 0 + 2 = 2
      BY <1>5, <1>7, <1>9 DEF Counts
    <3>2. cells[u[1 - 1] + 1] = F[1][1] /\ cells[u[1 - 1] + 2] = F[1][2]
      BY <1>3, <1>6, <1>7, <3>1 DEF Laid
    <3>3. QED
      BY <1>9, <3>1, <3>2, MagicIs
  <2>2. /\ 0 \in Nat /\ 2 \in Nat /\ 0 <= 2 /\ 0 + 1 = 1 /\ 2 - 0 = 2
        /\ \A k \in 1..2 : 0 + k = k /\ (k = 1 \/ k = 2)
    OBVIOUS
  <2>3. /\ SubSeq(cells, 0 + 1, 2) \in Seq(T) /\ Len(SubSeq(cells, 0 + 1, 2)) = 2 - 0
        /\ \A k \in 1..(2 - 0) : SubSeq(cells, 0 + 1, 2)[k] = cells[0 + k]
    BY <1>4, <1>9, <2>2, PartAt
  <2>4. PICK s \in Seq(T) : s = SubSeq(cells, 1, 2)
    BY <2>2, <2>3
  <2>5. Len(s) = 2 /\ \A k \in 1..2 : s[k] = HEADER_MAGIC[k]
    BY <2>1, <2>2, <2>3, <2>4, MagicIs
  <2>6. PICK M : HEADER_MAGIC \in Seq(M)
    BY MagicIs
  <2>7. s = HEADER_MAGIC
    BY <2>5, <2>6, MagicIs, SameSeq
  <2>8. QED
    BY <1>9, <2>4, <2>7, HeaderIs
<1>11. PICK s : s = Scan("FLXR", 3, cells, u[1])
  OBVIOUS
<1>12. ScanTo(s, F, 3, u, 1, g) /\ \E V : s.found \in Seq(V)
  <2>1. 1 \in 0..Len(d) /\ g \in 1..Len(d) /\ 1 + 1 = 2 /\ 3 \in Nat /\ 0 < U32
    BY <1>6, <1>7, <1>8, HeaderIs
  <2>2. \A j \in (1 + 1)..Len(d) : FrameLike(F[j], "FLXR", 3)
    <3>1. ASSUME NEW j \in 2..l PROVE FrameLike(F[j], "FLXR", 3)
      <4>1. j \in 1..Len(d) /\ j # 1
        BY <1>6
      <4>2. PICK G : G = F[j] /\ G = SegmentFrame(d[j].rec)
        BY <1>1, <4>1
      <4>3. QED
        BY <4>1, <4>2, SegmentFrameIs
    <3>2. QED
      BY <1>6, <2>1, <3>1
  <2>3. /\ \A j \in (1 + 1)..g : ReadableAt(d, j)
        /\ g < Len(d) => ~ReadableAt(d, g + 1)
    BY <1>6, <1>8
  <2>4. QED
    BY <1>3, <1>5, <1>11, <2>1, <2>2, <2>3, ScanIs
<1>13. PICK found : found = DecodeSegment(cells)
  OBVIOUS
<1>14. found.recs = [k \in DOMAIN s.found |-> WalOf(s.found[k])] /\ found.end = s.end
  <2>1. HEADER_LEN = u[1]
    BY <1>9, HeaderIs
  <2>2. found = [recs |-> [k \in DOMAIN s.found |-> WalOf(s.found[k])], end |-> s.end]
    BY <1>4, <1>10, <1>11, <1>13, <2>1 DEF DecodeSegment
  <2>3. QED
    BY <2>2
<1>15. /\ DOMAIN s.found = 1..(g - 1) /\ s.end = u[g]
       /\ \A k \in 1..(g - 1) : Found(s.found[k], F[1 + k], 3)
  <2>1. Len(s.found) = g - 1 /\ s.end = u[g]
        /\ \A k \in 1..(g - 1) : Found(s.found[k], F[1 + k], 3)
    BY <1>12 DEF ScanTo
  <2>2. QED
    BY <1>12, <2>1
<1>16. ASSUME NEW k \in 1..(g - 1) PROVE WalOf(s.found[k]) = d[k + 1].rec
  <2>1. PICK j \in 1..Len(d) : j = k + 1 /\ j = 1 + k /\ j # 1
    BY <1>6, <1>8
  <2>2. PICK G : G = F[j] /\ G = SegmentFrame(d[j].rec)
    BY <1>1, <2>1
  <2>3. d[j].rec \in LogRecords /\ G = EncodeWal(d[j].rec)
    BY <2>1, <2>2, SegmentFrameIs
  <2>4. PICK r \in LogRecords : r = d[j].rec
    BY <2>3
  <2>5. G = EncodeWal(r)
    BY <2>3, <2>4
  <2>6. Len(G) = WalCells(r) /\ G[3] = Num(r.lsn) /\ G[4] = <<"id", r.id>> /\ G[5] = Num(r.ver)
    BY <2>5, EncodeWalIs
  <2>7. PICK e : e = s.found[k]
    OBVIOUS
  <2>8. e.blob = Len(G) - 4 - 3 /\ \A i \in 1..3 : e.fields[i] = G[2 + i]
    BY <1>15, <2>1, <2>2, <2>7 DEF Found
  <2>9. e.fields[1] = G[3] /\ e.fields[2] = G[4] /\ e.fields[3] = G[5]
    <3>1. 1 \in 1..3 /\ 2 \in 1..3 /\ 3 \in 1..3 /\ 2 + 1 = 3 /\ 2 + 2 = 4 /\ 2 + 3 = 5
      OBVIOUS
    <3>2. QED
      BY <2>8, <3>1
  <2>10. e.blob = r.blob
    <3>1. PICK b \in Nat : b = r.blob
      BY RecordIs
    <3>2. e.blob = (7 + b) - 4 - 3
      BY <2>6, <2>8, <3>1 DEF WalCells
    <3>3. (7 + b) - 4 - 3 = b
      OBVIOUS
    <3>4. QED
      BY <3>1, <3>2, <3>3
  <2>11. WalOf(e) = r
    BY <2>6, <2>9, <2>10, LogRecordIs
  <2>12. QED
    BY <2>1, <2>4, <2>7, <2>11
<1>17. found.recs = Log(d)
  <2>1. Log(d) = [k \in 1..(g - 1) |-> d[k + 1].rec]
    BY <1>7, <1>8 DEF Log, Headed
  <2>2. found.recs = [k \in 1..(g - 1) |-> WalOf(s.found[k])]
    BY <1>14, <1>15
  <2>3. QED
    BY <1>16, <2>1, <2>2
<1>18. found.end = CellsIn(Good(d))
  <2>1. \A k \in 1..Len(d) : d[k] \in Pieces(Contents)
    BY <1>5 DEF Whole
  <2>2. d \in Seq(Pieces(Contents))
    BY <1>5, <2>1, SeqIntro
  <2>3. Good(d) \in Seq(Pieces(Contents))
    <3>1. Good(d) \in Seq(Whole(Contents))
      BY <1>5, GoodIs
    <3>2. \A k \in 1..Len(Good(d)) : Good(d)[k] \in Pieces(Contents)
      BY <3>1 DEF Whole
    <3>3. QED
      BY <3>1, <3>2, SeqIntro
  <2>4. PICK q \in Seq(Pieces(Contents)) : q = Good(d)
    BY <2>3
  <2>5. Len(q) <= Len(d) /\ \A k \in 1..Len(q) : q[k] = d[k]
    BY <1>6, <1>8, <2>4
  <2>6. CellsIn(q) = u[Len(q)]
    BY <1>5, <2>2, <2>5, CellsFront
  <2>7. QED
    BY <1>8, <1>14, <1>15, <2>4, <2>6
<1>19. QED
  BY <1>3, <1>13, <1>17, <1>18

-----------------------------------------------------------------------------
(* Frames keep their length                                                *)

(* The frames of the store are as long as encode_record makes them.        *)
DMeasured(ps) == Sized(ps, StoreLen)

(* As a file, as stable storage and as the buffer of the store hold them.  *)
DMeasures == DMeasured(dfile.data) /\ DMeasured(dfile.hard) /\ DMeasured(dbuf)

(* The length of one frame is that of its record.                          *)
LEMMA DFrameMeasured ==
  ASSUME NEW r \in Value
  PROVE  DMeasured(<<DFrame(r)>>) /\ DFrame(r).len = StoreLen[DFrame(r).rec]
<1>1. DFrame(r).rec = r /\ DFrame(r).len = RecordCells(r)
  BY DEF DFrame, WholePiece
<1>2. StoreLen[r] = RecordCells(r)
  BY DEF StoreLen
<1>3. Len(<<DFrame(r)>>) = 1 /\ <<DFrame(r)>>[1] = DFrame(r)
  BY One, DFrameIs
<1>4. ASSUME NEW k \in 1..1 PROVE k = 1
  OBVIOUS
<1>5. QED
  BY <1>1, <1>2, <1>3, <1>4 DEF DMeasured, Sized

(* An empty file or buffer holds none.                                     *)
LEMMA DNoneMeasured == DMeasured(<<>>)
<1>1. Len(<<>>) = 0 /\ \A k \in 1..0 : FALSE
  BY EmptySeq
<1>2. QED
  BY <1>1 DEF DMeasured, Sized

(* A sequence that begins a measured one is measured.                      *)
LEMMA DFrontMeasured ==
  ASSUME NEW data \in Seq(Whole(Value)), DMeasured(data), NEW good, Prefix(data, good)
  PROVE  DMeasured(good)
<1>1. PICK n \in 0..Len(data) : Len(good) = n /\ \A k \in 1..n : good[k] = data[k]
  BY DEF Prefix
<1>2. \A k \in 1..n : k \in 1..Len(data)
  OBVIOUS
<1>3. QED
  BY <1>1, <1>2 DEF DMeasured, Sized

(* A write of measured pieces, complete or not.                            *)
LEMMA DWrittenMeasured ==
  ASSUME DiskInv, NEW ps \in Seq(Pieces(Value)), Joins(dfile.data, ps),
         DMeasured(dfile.data), DMeasured(ps)
  PROVE  /\ DMeasured(Extended(dfile.data, ps))
         /\ \A s \in Splits(ps) : /\ DMeasured(Extended(dfile.data, s.done))
                                  /\ DMeasured(s.done) /\ DMeasured(s.rest)
<1>1. DMeasured(Extended(dfile.data, ps))
  BY BufferPlace, SizedExtended DEF DMeasured
<1>2. ASSUME NEW s \in Splits(ps)
      PROVE  /\ DMeasured(Extended(dfile.data, s.done))
             /\ DMeasured(s.done) /\ DMeasured(s.rest)
  <2>1. DMeasured(s.done) /\ DMeasured(s.rest)
    BY BufferPlace, SizedSplit DEF DMeasured
  <2>2. PICK done \in Seq(Pieces(Value)) : done = s.done /\ Joins(dfile.data, done)
    BY BufferPlace, SplitIs, SplitJoins
  <2>3. DMeasured(Extended(dfile.data, done))
    BY <2>1, <2>2, BufferPlace, SizedExtended DEF DMeasured
  <2>4. QED
    BY <2>1, <2>2, <2>3
<1>3. QED
  BY <1>1, <1>2

(* The pieces of one more frame are measured, wherever they are put.       *)
LEMMA DMoreMeasured ==
  ASSUME NEW R, NEW data \in Seq(Pieces(R)), DMeasured(data), NEW ps \in Seq(Pieces(R)),
         DMeasured(ps)
  PROVE  DMeasured(data \o ps)
<1>1. PICK l \in Nat, m \in Nat : l = Len(data) /\ m = Len(ps)
  OBVIOUS
<1>2. PICK e : e = data \o ps
  OBVIOUS
<1>3. /\ Len(e) = l + m
      /\ \A k \in 1..(l + m) : e[k] = IF k <= l THEN data[k] ELSE ps[k - l]
  BY <1>1, <1>2, ConcatProperties
<1>4. ASSUME NEW k \in 1..(l + m) PROVE e[k].len = StoreLen[e[k].rec]
  <2>1. CASE k <= l
    <3>1. k \in 1..l /\ e[k] = data[k]
      BY <1>3, <2>1
    <3>2. QED
      BY <1>1, <3>1 DEF DMeasured, Sized
  <2>2. CASE ~(k <= l)
    <3>1. k - l \in 1..m /\ e[k] = ps[k - l]
      BY <1>3, <2>2
    <3>2. QED
      BY <1>1, <3>1 DEF DMeasured, Sized
  <2>3. QED
    BY <2>1, <2>2
<1>5. QED
  BY <1>2, <1>3, <1>4 DEF DMeasured, Sized

(* What a power loss leaves of a measured file is measured.                *)
LEMMA DImageMeasured ==
  ASSUME DiskInv, DMeasures, NEW d \in Images(dfile)
  PROVE  DMeasured(d)
<1>1. dfile.data \in Seq(Pieces(Value))
  BY BufferPlace, DFileIs DEF Whole
<1>2. \A s \in Splits(dfile.data) : DMeasured(s.done)
  BY <1>1, BufferPlace, SizedSplit DEF DMeasures, DMeasured
<1>3. QED
  BY <1>2, ImagesAre DEF DMeasures

(* A write(2) of measured pieces keeps the store's file measured.          *)
LEMMA DMeasuredWrite ==
  ASSUME DiskInv, DMeasures, NEW d \in Seq(Whole(Value)), DWrite(d), DMeasured(d),
         DMeasured(dbuf')
  PROVE  DMeasures'
<1>1. dfile'.data = d /\ dfile'.hard = dfile.hard
  BY DWriteIs DEF DiskInv
<1>2. QED
  BY <1>1 DEF DMeasures

(* DiskKvStore::open keeps what decodes.                                   *)
LEMMA DOpenMeasured ==
  ASSUME DiskInv, DMeasures, DOpen PROVE DMeasures'
<1>1. /\ dbuf' = dbuf
      /\ UNCHANGED dfile \/ DWrite(DGood(dfile.data))
  BY DEF DOpen
<1>2. CASE UNCHANGED dfile
  BY <1>1, <1>2 DEF DMeasures
<1>3. CASE DWrite(DGood(dfile.data))
  <2>1. DGood(dfile.data) \in Seq(Whole(Value)) /\ Prefix(dfile.data, DGood(dfile.data))
    BY BufferPlace, ReplayIs
  <2>2. DMeasured(DGood(dfile.data))
    BY <2>1, BufferPlace, DFrontMeasured DEF DMeasures
  <2>3. QED
    BY <1>1, <1>3, <2>1, <2>2, DMeasuredWrite DEF DMeasures
<1>4. QED
  BY <1>1, <1>2, <1>3

(* sync_data changes no byte.                                              *)
LEMMA DSyncMeasured ==
  ASSUME DiskInv, DMeasures, DSync, dbuf' = dbuf PROVE DMeasures'
<1>1. dfile'.data = dfile.data /\ dfile'.hard = dfile.data
  BY DSyncIs DEF DiskInv
<1>2. QED
  BY <1>1 DEF DMeasures

(* write_all copies one more frame into the buffer.                        *)
LEMMA DCopyMeasured ==
  ASSUME DiskInv, DMeasures, DCopy PROVE DMeasures'
<1>1. /\ dpc = "write" /\ dbuf' = Append(dbuf, DFrame(Head(dtodo))) /\ dfile' = dfile
  BY DEF DCopy
<1>2. PICK r \in Value : r = Head(dtodo)
  BY <1>1, DTodoIs
<1>3. PICK p \in Pieces(Value) : p = DFrame(r) /\ p.len = StoreLen[p.rec]
  BY DFrameIs, DFrameMeasured
<1>4. PICK l \in Nat : l = Len(dbuf)
  BY BufferPlace
<1>5. Len(dbuf') = l + 1 /\ dbuf'[l + 1] = p /\ \A k \in 1..l : dbuf'[k] = dbuf[k]
  BY <1>1, <1>2, <1>3, <1>4, BufferPlace, AppendProperties
<1>6. ASSUME NEW k \in 1..(l + 1) PROVE dbuf'[k].len = StoreLen[dbuf'[k].rec]
  <2>1. k \in 1..l \/ k = l + 1
    OBVIOUS
  <2>2. QED
    BY <1>3, <1>4, <1>5, <2>1 DEF DMeasures, DMeasured, Sized
<1>7. DMeasured(dbuf')
  BY <1>5, <1>6 DEF DMeasured, Sized
<1>8. QED
  BY <1>1, <1>7 DEF DMeasures

(* BufWriter::flush_buf writes the buffer out.                             *)
LEMMA DOutMeasured ==
  ASSUME DiskInv, DMeasures, DSpill \/ DFlushBuffer PROVE DMeasures'
<1>1. DWrite(Extended(dfile.data, dbuf)) /\ dbuf' = <<>>
  BY DEF DSpill, DFlushBuffer
<1>2. DMeasured(Extended(dfile.data, dbuf))
  BY BufferPlace, DWrittenMeasured DEF DMeasures
<1>3. QED
  BY <1>1, <1>2, DBufferWritten, DNoneMeasured, DMeasuredWrite

(* It may stop early, and keeps the rest.                                  *)
LEMMA DOutFailsMeasured ==
  ASSUME DiskInv, DMeasures, DBufferWriteFails PROVE DMeasures'
<1>1. PICK s \in Stopped(dbuf) : DWrite(Extended(dfile.data, s.done)) /\ dbuf' = s.rest
  BY DEF DBufferWriteFails
<1>2. s \in Splits(dbuf)
  BY DEF Stopped
<1>3. DMeasured(Extended(dfile.data, s.done)) /\ DMeasured(s.rest)
  BY <1>2, BufferPlace, DWrittenMeasured DEF DMeasures
<1>4. QED
  BY <1>1, <1>2, <1>3, DBufferWritten, DMeasuredWrite

(* A frame of the capacity or more bypasses the buffer.                    *)
LEMMA DThroughMeasured ==
  ASSUME DiskInv, DMeasures, DWriteThrough \/ DWriteThroughFails PROVE DMeasures'
<1>1. /\ dpc = "write" /\ dbuf' = dbuf
      /\ \/ DWrite(Append(dfile.data, DFrame(Head(dtodo))))
         \/ \E s \in Splits(<<DFrame(Head(dtodo))>>) : DWrite(dfile.data \o s.done)
  BY DEF DWriteThrough, DWriteThroughFails, Stopped
<1>2. PICK r \in Value : r = Head(dtodo)
  BY <1>1, DTodoIs
<1>3. PICK ps \in Seq(Pieces(Value)) : ps = <<DFrame(r)>> /\ DMeasured(ps)
  BY BufferPlace, DFrameWritten, DFrameMeasured
<1>4. dfile.data \in Seq(Pieces(Value))
  BY BufferPlace, DFileIs DEF Whole
<1>5. CASE DWrite(Append(dfile.data, DFrame(r)))
  <2>1. Append(dfile.data, DFrame(r)) = dfile.data \o ps
    BY <1>3, <1>4, DFrameIs, AppendIsConcat
  <2>2. DMeasured(dfile.data \o ps)
    BY <1>3, <1>4, DMoreMeasured DEF DMeasures
  <2>3. QED
    BY <1>1, <1>5, <2>1, <2>2, BufferPlace, DFrameWritten, DMeasuredWrite DEF DMeasures
<1>6. CASE \E s \in Splits(ps) : DWrite(dfile.data \o s.done)
  <2>1. PICK s \in Splits(ps) : DWrite(dfile.data \o s.done)
    BY <1>6
  <2>2. s.done \in Seq(Pieces(Value)) /\ DMeasured(s.done)
    BY <1>3, BufferPlace, SplitIs, SizedSplit DEF DMeasured
  <2>3. DMeasured(dfile.data \o s.done)
    BY <1>4, <2>2, DMoreMeasured DEF DMeasures
  <2>4. dfile.data \o s.done \in Seq(Whole(Value))
    BY <1>3, BufferPlace, DFrameWritten
  <2>5. QED
    BY <1>1, <2>1, <2>3, <2>4, DMeasuredWrite DEF DMeasures
<1>7. QED
  BY <1>1, <1>2, <1>3, <1>5, <1>6

(* A kill in the middle of a write leaves some of it in the file.          *)
LEMMA DKillMeasured ==
  ASSUME DiskInv, DMeasures, DKill PROVE DMeasures'
<1>1. PICK s \in Splits(DWriting) : DWrite(Extended(dfile.data, s.done)) /\ dbuf' = <<>>
  BY DEF DKill, DClosed
<1>2. /\ DWriting \in Seq(Pieces(Value)) /\ Joins(dfile.data, DWriting)
      /\ DMeasured(DWriting)
  <2>1. CASE DWriting = dbuf
    BY <2>1, BufferPlace DEF DMeasures
  <2>2. CASE DWriting = <<DFrame(Head(dtodo))>> /\ dpc = "write"
    <3>1. Head(dtodo) \in Value
      BY <2>2, DTodoIs
    <3>2. QED
      BY <2>2, <3>1, BufferPlace, DFrameWritten, DFrameMeasured
  <2>3. CASE DWriting = <<>>
    BY <2>3, JoinsNone, DNothing, DNoneMeasured
  <2>4. QED
    BY <2>1, <2>2, <2>3 DEF DWriting
<1>3. DMeasured(Extended(dfile.data, s.done))
  BY <1>2, DWrittenMeasured DEF DMeasures
<1>4. Extended(dfile.data, s.done) \in Seq(Whole(Value))
  <2>1. s.done \in Seq(Pieces(Value)) /\ Joins(dfile.data, s.done)
    BY <1>2, BufferPlace, SplitIs, SplitJoins
  <2>2. QED
    BY <2>1, BufferPlace, ExtendedIs
<1>5. QED
  BY <1>1, <1>3, <1>4, DNoneMeasured, DMeasuredWrite

(* A power loss leaves an image of the file, or no file.                   *)
LEMMA DLossMeasured ==
  ASSUME DiskInv, DMeasures, DPowerLoss PROVE DMeasures'
<1>1. dbuf' = <<>>
  BY DEF DPowerLoss, DClosed
<1>2. CASE \E d \in Images(dfile) : dfile' = [data |-> d, hard |-> d]
  <2>1. PICK d \in Images(dfile) : dfile' = [data |-> d, hard |-> d]
    BY <1>2
  <2>2. dfile'.data = d /\ dfile'.hard = d
    BY <2>1
  <2>3. QED
    BY <1>1, <2>2, DImageMeasured, DNoneMeasured DEF DMeasures
<1>3. CASE dfile' = Empty
  <2>1. dfile'.data = <<>> /\ dfile'.hard = <<>>
    BY <1>3 DEF Empty
  <2>2. QED
    BY <1>1, <2>1, DNoneMeasured DEF DMeasures
<1>4. QED
  BY <1>2, <1>3 DEF DPowerLoss

(* Every step of the system keeps the store's frames measured.             *)
LEMMA DMeasuresStep == ASSUME TypeInv, DMeasures, [Next]_vars PROVE DMeasures'
<1>1. DiskInv /\ EngineTypes
  BY DEF TypeInv
<1>2. CASE UNCHANGED <<dfile, dbuf>>
  BY <1>2 DEF DMeasures
<1>3. CASE StartStore
  BY <1>1, <1>3, DOpenMeasured, DSyncMeasured DEF StartStore, DStarting, DSyncCut
<1>4. CASE Logged \/ Retry
  BY <1>2, <1>4 DEF Logged, Retry, PersistBatch
<1>5. CASE StoreWorks
  <2>1. CASE Index
    BY <1>1, <2>1, DSyncMeasured DEF Index
  <2>2. CASE DSyncFails
    BY <1>2, <2>2 DEF DSyncFails
  <2>3. QED
    BY <1>1, <1>5, <2>1, <2>2, DCopyMeasured, DOutMeasured, DOutFailsMeasured,
       DThroughMeasured DEF StoreWorks, DPersisting
<1>6. CASE Kill
  BY <1>1, <1>6, DKillMeasured DEF Kill
<1>7. CASE PowerLoss
  BY <1>1, <1>7, DLossMeasured DEF PowerLoss
<1>8. CASE Flush \/ \E w \in Plain \union Durable : SubmitDurable(w)
  BY <1>2, <1>8 DEF Flush, SubmitDurable, LogBatch, diskVars
<1>9. CASE \E w \in Plain \union Durable : Accept(w)
  BY <1>2, <1>9 DEF Accept, diskVars
<1>10. CASE StartLog \/ Started \/ Requeue \/ Persisted \/ Trimmed \/ DurableAnswered
            \/ FlushLog \/ LogWorks
  BY <1>2, <1>10
     DEF StartLog, Started, Requeue, Persisted, Trimmed, DurableAnswered, FlushLog, LogWorks,
         diskVars
<1>11. CASE UNCHANGED vars
  BY <1>2, <1>11 DEF vars, diskVars
<1>12. QED
  BY <1>3, <1>4, <1>5, <1>6, <1>7, <1>8, <1>9, <1>10, <1>11 DEF Next

-----------------------------------------------------------------------------
(* The bytes agree                                                         *)

(* The decoder finds in the bytes of a segment what the model says it does.*)
SegmentRead(d) ==
  LET found == DecodeSegment(SegmentCells(d))
  IN  found.recs = Log(d) /\ found.end = CellsIn(Good(d))

(* And in the bytes of a data file.                                        *)
FileRead(d) ==
  LET found == DecodeFile(FileCells(d))
  IN  found.recs = DStates(d) /\ found.end = CellsIn(DGood(d))

(* Any segment of measured frames.                                         *)
LEMMA SegmentReads == ASSUME NEW d \in Segments, Measured(d) PROVE SegmentRead(d)
<1>1. U32 \in Nat /\ HEADER_LEN < U32
  BY FilesAssumption
<1>2. CASE Headed(d)
  BY <1>1, <1>2, HeadedBytes DEF SegmentRead
<1>3. CASE ~Headed(d)
  BY <1>1, <1>3, UnheadedBytes DEF SegmentRead
<1>4. QED
  BY <1>2, <1>3

(* Any file of measured frames.                                            *)
LEMMA FileReads == ASSUME NEW d \in Seq(Whole(Value)), DMeasured(d) PROVE FileRead(d)
  BY FilesAssumption, FileBytes DEF FileRead, DMeasured

(* Everything a crash may leave of the log, and what its writer has, is    *)
(* made of measured frames.                                                *)
LEMMA LeftoversMeasured ==
  ASSUME WalInv, Measures, NEW d \in Leftovers \union {DataOf(handle)}
  PROVE  d \in Segments /\ Measured(d)
<1>1. /\ file \in [Inodes -> File] /\ handle \in Inodes \union {0} /\ Cuts \subseteq Nat
      /\ active \in Inodes \union {0} /\ stale \subseteq Inodes \union {0}
  BY FilesAssumption DEF WalInv, WalTypes
<1>2. \A i \in Inodes : Measured(file[i].data) /\ Measured(file[i].hard)
  BY DEF Measures
<1>3. <<>> \in Segments /\ Measured(<<>>)
  BY <1>1, SegmentAt, NoneKept
<1>4. CASE d = DataOf(handle)
  <2>1. CASE handle = 0
    BY <1>3, <1>4, <2>1 DEF DataOf
  <2>2. CASE handle # 0
    BY <1>1, <1>2, <1>4, <2>2 DEF DataOf, File
  <2>3. QED
    BY <2>1, <2>2
<1>5. CASE d \in Leftovers
  <2>1. PICK i \in Inodes \union {0} : d \in IF i = 0 THEN {<<>>} ELSE Images(file[i])
    BY <1>1, <1>5 DEF Leftovers
  <2>2. CASE i = 0
    BY <1>3, <2>1, <2>2
  <2>3. CASE i # 0
    <3>1. file[i] \in File /\ d \in Images(file[i])
      BY <1>1, <2>1, <2>3
    <3>2. QED
      BY <1>1, <1>2, <2>3, <3>1, ImageSegment, MeasuredImage
  <2>4. QED
    BY <2>2, <2>3
<1>6. QED
  BY <1>4, <1>5

(* So the bytes agree.                                                     *)
LEMMA BytesGives == ASSUME TypeInv, Measures, DMeasures PROVE BytesAgree
<1>1. WalInv /\ DiskInv
  BY DEF TypeInv
<1>2. ASSUME NEW d \in Leftovers \union {DataOf(handle)}
      PROVE  SegmentRead(d)
  BY <1>1, LeftoversMeasured, SegmentReads
<1>3. ASSUME NEW d \in Images(dfile)
      PROVE  FileRead(d)
  <2>1. d \in Seq(Whole(Value))
    <3>1. CASE d = dfile.data \/ d = dfile.hard
      BY <1>1, <3>1, BufferPlace
    <3>2. CASE \E s \in Splits(dfile.data) : d = s.done
      BY <1>1, <3>2, BufferPlace, CutIs
    <3>3. QED
      BY <3>1, <3>2, ImagesAre
  <2>2. QED
    BY <1>1, <2>1, DImageMeasured, FileReads
<1>4. QED
  BY <1>2, <1>3 DEF BytesAgree, SegmentRead, FileRead

(* Initially there are no bytes.                                           *)
LEMMA BytesInitially == ASSUME Init PROVE DMeasures
<1>1. dfile.data = <<>> /\ dfile.hard = <<>> /\ dbuf = <<>>
  BY DEF Init, DInit, Empty
<1>2. QED
  BY <1>1, DNoneMeasured DEF DMeasures

(* No torn or overlong frame passes for a record (domain.rs decode,        *)
(* disk_kv_store.rs decode_record): for every wrap of the length fields,   *)
(* place of a cut and record, scanning the cells a crash leaves finds the  *)
(* whole frames before the first bad one and cuts right after them.        *)
THEOREM BytesAlwaysAgree == Spec => []BytesAgree
<1>1. Init => PromiseInv /\ DMeasures
  BY PromiseInvInitially, BytesInitially
<1>2. PromiseInv => TypeInv /\ Measures
  BY DEF PromiseInv, RisingInv, JournalInv
<1>3. PromiseInv /\ DMeasures /\ [Next]_vars => PromiseInv' /\ DMeasures'
  BY <1>2, PromiseStep, DMeasuresStep
<1>4. PromiseInv /\ DMeasures => BytesAgree
  BY <1>2, BytesGives
<1>5. QED
  BY <1>1, <1>3, <1>4, PTL DEF Spec
=============================================================================
