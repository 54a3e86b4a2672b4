--------------------------- MODULE JournalProofs ---------------------------
(***************************************************************************)
(* The promise of Journal holds of every behaviour of Journal, whatever    *)
(* the records, the checkpoints and the crashes.  Module StorageJournal    *)
(* proves that the files of src/src/wal.rs behave like a Journal.          *)
(***************************************************************************)
EXTENDS Journal, TLAPS

(* The promise becomes inductive with the types and with what a power loss *)
(* relies on: everything stable is also what a kill leaves.                *)
Inv == TypeOK /\ firm \subseteq log /\ AnsweredKept

LEMMA InitInv == Init => Inv
BY DEF Init, Inv, TypeOK, AnsweredKept, Above

LEMMA NextInv == Inv /\ [Next]_vars => Inv'
<1>1. SUFFICES ASSUME Inv, [Next]_vars PROVE Inv'
  OBVIOUS
<1> USE DEF Inv, TypeOK, AnsweredKept, Above
<1>2. CASE Write
  BY <1>1, <1>2 DEF Write, Moves
<1>3. CASE Answer
  BY <1>1, <1>3 DEF Answer, Moves
<1>4. CASE Trim
  <2>1. TypeOK' /\ (firm \subseteq log)'
    BY <1>1, <1>4 DEF Trim, Moves
  <2>2. \A r \in Record : r.lsn > floor' => r.lsn > floor
    BY <1>1, <1>4 DEF Trim, Record
  <2>3. AnsweredKept'
    BY <1>1, <1>4, <2>2 DEF Trim
  <2>4. QED
    BY <2>1, <2>3
<1>5. CASE PowerLoss
  BY <1>1, <1>5 DEF PowerLoss, Moves
<1>6. CASE Restart
  BY <1>1, <1>6 DEF Restart
<1>7. CASE UNCHANGED vars
  BY <1>1, <1>7 DEF vars
<1>8. QED
  BY <1>1, <1>2, <1>3, <1>4, <1>5, <1>6, <1>7 DEF Next

(* Type correctness of the abstract log (WriteAheadLog, domain.rs).        *)
THEOREM Typing == Spec => []TypeOK
<1>1. Inv => TypeOK
  BY DEF Inv
<1>2. QED
  BY InitInv, NextInv, <1>1, PTL DEF Spec

(* What append_batch answered Ok for stays recoverable until a checkpoint  *)
(* reaches it: after a kill, and, once synced, after any crash (append_    *)
(* batch, checkpoint and recover of WriteAheadLog, domain.rs).             *)
THEOREM Promise == Spec => []AnsweredKept
<1>1. Inv => AnsweredKept
  BY DEF Inv
<1>2. QED
  BY InitInv, NextInv, <1>1, PTL DEF Spec

(* Stable storage never holds a record that a process kill would lose.     *)
THEOREM FirmIsLogged == Spec => [](firm \subseteq log)
<1>1. Inv => firm \subseteq log
  BY DEF Inv
<1>2. QED
  BY InitInv, NextInv, <1>1, PTL DEF Spec
=============================================================================
