------------------------------ MODULE Journal ------------------------------
(***************************************************************************)
(* What a write-ahead log promises (the trait WriteAheadLog of             *)
(* src/src/domain.rs), without files: which records a process kill leaves  *)
(* to recover (log), which of them any crash leaves (firm), and how the    *)
(* two move under appends, answers, checkpoints and crashes.  Module       *)
(* Storage shows that the file operations of module Wal implement it.      *)
(***************************************************************************)
EXTENDS Integers

CONSTANT Ids

VARIABLES
  log, firm,    \* records a kill, and any crash, leaves to recover
  acked, sure,  \* answered records owed after a kill, and after any crash
  floor         \* the highest LSN a checkpoint was asked to drop

vars == <<log, firm, acked, sure, floor>>

Record   == [lsn : Nat, id : Ids, ver : Nat, blob : Nat]
Above(S, n) == {r \in S : r.lsn > n}

Init == log = {} /\ firm = {} /\ acked = {} /\ sure = {} /\ floor = 0

Moves == log' \in SUBSET Record /\ firm' \subseteq log'

(* Records reach the file, or stable storage.                              *)
Write ==
  /\ Moves
  /\ log \subseteq log' /\ firm \subseteq firm'
  /\ UNCHANGED <<acked, sure, floor>>

(* append_batch answers Ok for records that are there.                     *)
Answer ==
  /\ Moves
  /\ log \subseteq log' /\ firm \subseteq firm'
  /\ acked \subseteq acked' /\ acked' \subseteq acked \union log'
  /\ sure \subseteq sure' /\ sure' \subseteq sure \union firm'
  /\ UNCHANGED floor

(* checkpoint(n) drops records at or below n, and no other.                *)
Trim ==
  /\ Moves
  /\ floor' \in Nat /\ floor' >= floor
  /\ Above(log, floor') \subseteq log'
  /\ Above(firm, floor') \subseteq firm'
  /\ UNCHANGED <<acked, sure>>

(* A power loss keeps what is firm; it may bring back dropped records.     *)
PowerLoss ==
  /\ Moves
  /\ firm \subseteq firm'
  /\ acked' = sure
  /\ UNCHANGED <<sure, floor>>

(* After recovery LSNs are handed out anew above those recovered.          *)
Restart ==
  /\ acked' = Above(acked, floor) /\ sure' = Above(sure, floor)
  /\ floor' = 0
  /\ UNCHANGED <<log, firm>>

Next == Write \/ Answer \/ Trim \/ PowerLoss \/ Restart

Spec == Init /\ [][Next]_vars

-----------------------------------------------------------------------------
TypeOK ==
  /\ log \in SUBSET Record /\ firm \in SUBSET Record
  /\ acked \in SUBSET Record /\ sure \in SUBSET Record
  /\ floor \in Nat

(* A record that was answered Ok is there to recover after a kill, until a *)
(* checkpoint at or above its LSN; if its bytes and the segment's name     *)
(* were synced, after any crash.                                           *)
AnsweredKept ==
  /\ Above(acked, floor) \subseteq log
  /\ Above(sure, floor) \subseteq firm
=============================================================================
