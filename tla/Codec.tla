------------------------------- MODULE Codec -------------------------------
(***************************************************************************)
(* The two frame formats as sequences of tagged cells: WalRecord::encode   *)
(* and decode (src/src/domain.rs) with the segment scan of src/src/wal.rs, *)
(* and encode_record, decode_record with the replay scan of                *)
(* src/examples/disk_kv_store.rs.  One cell is one field, or one unit of   *)
(* the blob; u32 fields wrap at U32.  The CRC cell is the very sequence of *)
(* cells it covers: collisions of the checksum are left out.               *)
(***************************************************************************)
EXTENDS Integers, Sequences

CONSTANT U32     \* what a u32 length field wraps at, in cells

Num(n)    == <<"num", n>>
(* Bytes read as a number where no number was written: one no frame has.   *)
AsNum(c)  == IF c[1] = "num" THEN c[2] ELSE U32

(* The checksum of the cells before it.                                    *)
Crc(body) == <<"crc", body>>

(* magic, frame_len, the other fields, blob_len, blob, crc.                *)
Framed(magic, fields, blob) ==
  LET len  == 3 + Len(fields) + blob + 1
      body == <<<<"magic", magic>>, Num(len % U32)>> \o fields
              \o <<Num(blob % U32)>> \o [k \in 1..blob |-> <<"blob", k>>]
  IN  Append(body, Crc(body))

Bad(why) == [why |-> why]

(* Mutant: the checksum is not compared.                                   *)
UnframedUnchecked(magic, n, cells) ==
  LET head == 3 + n
      len  == AsNum(cells[2])
      blob == AsNum(cells[head])
  IN  IF Len(cells) < head THEN Bad("Truncated")
      ELSE IF cells[1] # <<"magic", magic>> THEN Bad("BadMagic")
      ELSE IF len < head + 1 \/ Len(cells) < len \/ len # head + blob + 1
           THEN Bad("Truncated")
      ELSE [why |-> "ok", fields |-> SubSeq(cells, 3, head - 1),
            blob |-> blob, used |-> len]

(* One frame from the front of cells, with n fields between the lengths:   *)
(* the checks of WalRecord::decode, and those of decode_record.            *)
Unframed(magic, n, cells) ==
  LET head == 3 + n
      len  == AsNum(cells[2])
      blob == AsNum(cells[head])
  IN  IF Len(cells) < head THEN Bad("Truncated")
      ELSE IF cells[1] # <<"magic", magic>> THEN Bad("BadMagic")
      ELSE IF len < head + 1 \/ Len(cells) < len \/ len # head + blob + 1
           THEN Bad("Truncated")
      ELSE IF cells[len] # Crc(SubSeq(cells, 1, len - 1)) THEN Bad("BadCrc")
      ELSE [why |-> "ok", fields |-> SubSeq(cells, 3, head - 1),
            blob |-> blob, used |-> len]

EncodeWal(r)     == Framed("FLXR", <<Num(r.lsn), <<"id", r.id>>, Num(r.ver)>>, r.blob)
WalOf(d) == [lsn |-> d.fields[1][2], id |-> d.fields[2][2],
             ver |-> d.fields[3][2], blob |-> d.blob]
WalCells(r) == 7 + r.blob

EncodeRecord(s)     == Framed("DBVK", <<<<"id", s.id>>, Num(s.ver)>>, s.blob)
RecordOf(d) == [id |-> d.fields[1][2], ver |-> d.fields[2][2], blob |-> d.blob]
RecordCells(s) == 6 + s.blob

HEADER_MAGIC == <<<<"file", 1>>, <<"file", 2>>>>
HEADER_LEN   == Len(HEADER_MAGIC)

(* The walk from frame to frame: what decodes up to the first frame that   *)
(* does not, and the offset just past the last one that does.              *)
Scan(magic, n, cells, start) ==
  LET size == Len(cells)
      walk[pos \in 0..size] ==
        LET d == Unframed(magic, n, SubSeq(cells, pos + 1, size))
        IN  IF pos = size \/ d.why # "ok" THEN [found |-> <<>>, end |-> pos]
            ELSE LET more == walk[pos + d.used]
                 IN  [found |-> <<d>> \o more.found, end |-> more.end]
  IN  walk[start]

(* The scan of recover: a file without the magic is left as it is.         *)
DecodeSegment(cells) ==
  IF Len(cells) < HEADER_LEN \/ SubSeq(cells, 1, HEADER_LEN) # HEADER_MAGIC
  THEN [recs |-> <<>>, end |-> Len(cells)]
  ELSE LET s == Scan("FLXR", 3, cells, HEADER_LEN)
       IN  [recs |-> [k \in DOMAIN s.found |-> WalOf(s.found[k])], end |-> s.end]

(* What rebuild_index finds in the data file.                              *)
DecodeFile(cells) ==
  LET s == Scan("DBVK", 2, cells, 0)
  IN  [recs |-> [k \in DOMAIN s.found |-> RecordOf(s.found[k])], end |-> s.end]
=============================================================================
