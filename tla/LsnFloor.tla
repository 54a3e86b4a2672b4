------------------------------ MODULE LsnFloor ------------------------------
(***************************************************************************)
(* The checkpoint floor of src/src/lsn.rs: how a proposed checkpoint is    *)
(* clamped below the LSNs of durable writes not yet drained into the       *)
(* cache.  The allocator itself is the variable "next" of Pipeline.        *)
(***************************************************************************)
EXTENDS Integers, FiniteSetsExt

(* Mutant: the lowest pending LSN itself may be discarded.                 *)
WatermarkInclusive(pending, proposed) ==
  IF pending = {} THEN proposed
  ELSE IF Min(pending) < proposed THEN Min(pending) ELSE proposed

(* checkpoint_watermark.  The code answers None when LSN 0 is pending; a   *)
(* checkpoint up to 0 discards nothing either, LSNs start at 1.            *)
Watermark(pending, proposed) ==
  IF pending = {} THEN proposed
  ELSE LET low == Min(pending)
       IN  IF low = 0 THEN 0
           ELSE IF low - 1 < proposed THEN low - 1 ELSE proposed
=============================================================================
