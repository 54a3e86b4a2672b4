-------------------------- MODULE MockStoreProofs --------------------------
(***************************************************************************)
(* Proofs about MockStore for any number of threads, batches and knob      *)
(* turns: the fault countdown loses no failure (ExactlyArmed), the gauges  *)
(* never fall below a recorded value (PeaksHold), the batch counter        *)
(* follows the data (CounterShowsData), the table never regresses, the     *)
(* periodic failures are those asked for (PeriodExact), and the counters   *)
(* account for every flush (Accounted).                                    *)
(*                                                                         *)
(* ExactlyArmed is inductive given the types.  PeaksHold needs that what a *)
(* fetch_max has seen of a gauge is still a lower bound of it when its     *)
(* compare_exchange runs (SeenBelow).  CounterShowsData needs that a batch *)
(* between its upsert and its count is in the table (CountedNext).         *)
(* Accounted speaks of the moments no call is under way; Books is what     *)
(* holds in between, with the threads on their way to each counter.        *)
(***************************************************************************)
EXTENDS MockStore, TLAPS, FiniteSetTheorems

State == [id : Ids, ver : Nat, val : Nat]
Slot  == [ver : Nat, val : Nat]

(* Types of what the properties are about.                                 *)
Types ==
  /\ table \in [Ids -> Slot \union {None}]
  /\ failNext \in Nat /\ armed \in Nat /\ injected \in Nat
  /\ count \in [Counters \union Gauges -> Nat]
  /\ settled \in [Gauges -> Nat]
  /\ failEvery \in Nat /\ attempts \in Nat /\ periodic \in Nat
  /\ number \in [Threads -> Nat]
  /\ DOMAIN pc = Threads
  /\ batch \in [Threads -> Batches \union {{}}]
  /\ nanos \in [Threads -> Nat] /\ current \in [Threads -> Nat]
  /\ counted \subseteq State

SeenBelow ==
  \A t \in Threads, g \in Gauges : pc[t] = Swap[g] => current[t] <= count[g]

InTable(s) == VersionOf(table[s.id]) >= s.ver
CountedNext == \A t \in Threads : pc[t] = "count" => \A s \in batch[t] : InTable(s)

(* What a flusher holds: finitely many states, one per id.                 *)
LEMMA BatchFacts ==
  ASSUME NEW b \in Batches \union {{}}
  PROVE  /\ Cardinality(b) \in Nat
         /\ b \subseteq State
         /\ \A r, s \in b : r.id = s.id => r = s
<1>1. IsFiniteSet(b)
  BY MockAssumption, FS_EmptySet
<1>2. QED
  BY <1>1, FS_CardinalityType, MockAssumption DEF State

(* Versions of slots are numbers, and a slot made of a state has its own.  *)
LEMMA SlotFacts ==
  /\ \A e \in Slot \union {None} : VersionOf(e) \in Int
  /\ \A s \in State : StateOf(s) \in Slot /\ VersionOf(StateOf(s)) = s.ver
<1>1. None \notin Slot
  BY MockAssumption DEF Slot
<1>2. \A s \in State : StateOf(s) \in Slot /\ StateOf(s).ver = s.ver
  BY DEF State, Slot, StateOf
<1>3. \A e \in Slot : e.ver \in Nat
  BY DEF Slot
<1>4. QED
  BY <1>1, <1>2, <1>3 DEF VersionOf

(* persist_batch (store.rs) upserts under last-write-wins: afterwards the  *)
(* table is as new as before and as new as the batch.                      *)
LEMMA UpsertedWins ==
  ASSUME NEW tbl \in [Ids -> Slot \union {None}], NEW b \in Batches \union {{}}
  PROVE  /\ Upserted(tbl, b) \in [Ids -> Slot \union {None}]
         /\ \A i \in Ids : VersionOf(Upserted(tbl, b)[i]) >= VersionOf(tbl[i])
         /\ \A s \in b : VersionOf(Upserted(tbl, b)[s.id]) >= s.ver
<1> DEFINE new == Upserted(tbl, b)
<1>1. ASSUME NEW i \in Ids
      PROVE  /\ new[i] \in Slot \union {None}
             /\ VersionOf(new[i]) >= VersionOf(tbl[i])
             /\ \A s \in b : s.id = i => VersionOf(new[i]) >= s.ver
  <2>1. CASE Current(tbl, b, i) = {}
    <3>1. new[i] = tbl[i]
      BY <2>1 DEF Upserted
    <3>2. \A s \in b : s.id = i => ~(s.ver >= VersionOf(tbl[i]))
      BY <2>1 DEF Current
    <3>3. VersionOf(tbl[i]) \in Int /\ \A s \in b : s.ver \in Nat
      BY SlotFacts, BatchFacts DEF State
    <3>4. QED
      BY <3>1, <3>2, <3>3
  <2>2. CASE Current(tbl, b, i) # {}
    <3>1. PICK s \in Current(tbl, b, i) : new[i] = StateOf(s)
      BY <2>2 DEF Upserted
    <3>2. s \in b /\ s \in State /\ s.id = i /\ s.ver >= VersionOf(tbl[i])
      BY <3>1, BatchFacts DEF Current
    <3>3. new[i] \in Slot /\ VersionOf(new[i]) = s.ver
      BY <3>1, <3>2, SlotFacts
    <3>4. \A r \in b : r.id = i => r = s
      BY <3>2, BatchFacts
    <3>5. s.ver \in Nat
      BY <3>2 DEF State
    <3>6. QED
      BY <3>2, <3>3, <3>4, <3>5
  <2>3. QED
    BY <2>1, <2>2
<1>2. new \in [Ids -> Slot \union {None}]
  BY <1>1 DEF Upserted
<1>3. \A s \in b : s.id \in Ids
  BY BatchFacts DEF State
<1>4. QED
  BY <1>1, <1>2, <1>3

(* The fields the code bumps (metrics.rs) are counters, and no gauges.     *)
LEMMA Fields ==
  /\ \A f \in Counters : f \notin Gauges
  /\ "submits_enqueued" \in Counters /\ "submits_dropped" \in Counters
  /\ "sum_submit_nanos" \in Counters /\ "flushes" \in Counters
  /\ "records_flushed" \in Counters /\ "wal_appends" \in Counters
  /\ "wal_records" \in Counters /\ "store_errors" \in Counters
  /\ "store_retries" \in Counters
  BY DEF Counters, Gauges

(* What a step does to the counters: it bumps some, or it is the           *)
(* compare-exchange of a fetch_max.                                        *)
LEMMA GaugesMove ==
  ASSUME Types, [Next]_vars
  PROVE  \/ /\ count' \in [Counters \union Gauges -> Nat]
            /\ \A g \in Gauges : count'[g] = count[g]
            /\ UNCHANGED settled
         \/ \E t \in Threads, g \in Gauges : SwapGauge(t, g)
<1> USE Fields DEF Types, knobs, locals, history, Goto, Counted, Rejected
<1>1. CASE Test
  BY <1>1 DEF Test, SetHealthy, FailNextBatches
<1>2. ASSUME NEW t \in Threads, NEW b \in Batches, Log(t, b)
      PROVE  /\ count' \in [Counters \union Gauges -> Nat]
             /\ \A g \in Gauges : count'[g] = count[g]
             /\ UNCHANGED settled
  <2> DEFINE once == Bumped(count, "wal_appends", 1)
  <2>1. /\ once \in [Counters \union Gauges -> Nat]
        /\ \A g \in Gauges : once[g] = count[g]
    BY DEF Bumped
  <2>2. Cardinality(b) \in Nat
    BY BatchFacts
  <2>3. count' = Bumped(once, "wal_records", Cardinality(b)) /\ UNCHANGED settled
    BY <1>2 DEF Log
  <2> HIDE DEF once
  <2>4. QED
    BY <2>1, <2>2, <2>3 DEF Bumped
<1>3. ASSUME NEW t \in Threads, LogFails(t) \/ RetryOrGiveUp(t)
      PROVE  /\ count' \in [Counters \union Gauges -> Nat]
             /\ \A g \in Gauges : count'[g] = count[g]
             /\ UNCHANGED settled
  BY <1>3 DEF Bumped, LogFails, RetryOrGiveUp
<1>4. ASSUME NEW t \in Threads, PersistBatch(t)
      PROVE  UNCHANGED <<count, settled>>
  BY <1>4 DEF PersistBatch, CheckHealth, CountDown, NumberAttempt, CheckPeriod,
              Upsert, CountBatch
<1>5. ASSUME NEW t \in Threads, RecordRecords(t)
      PROVE  /\ count' \in [Counters \union Gauges -> Nat]
             /\ \A g \in Gauges : count'[g] = count[g]
             /\ UNCHANGED settled
  <2>1. Cardinality(batch[t]) \in Nat
    BY BatchFacts
  <2>2. QED
    BY <1>5, <2>1 DEF Bumped, RecordRecords
<1>6. ASSUME NEW t \in Threads, Report(t), ~RecordRecords(t),
             \A g \in Gauges : ~SwapGauge(t, g)
      PROVE  /\ count' \in [Counters \union Gauges -> Nat]
             /\ \A g \in Gauges : count'[g] = count[g]
             /\ UNCHANGED settled
  <2>1. CASE RecordFlush(t) \/ RecordDropped(t) \/ AddSum(t)
    BY <2>1 DEF Bumped, RecordFlush, RecordDropped, AddSum
  <2>2. CASE CheckpointFails(t) \/ \E g \in Gauges : LoadGauge(t, g)
    BY <2>2 DEF CheckpointFails, LoadGauge
  <2>3. CASE \E n \in Nanos : RecordEnqueued(t, n)
    BY <2>3 DEF Bumped, RecordEnqueued
  <2>4. QED
    BY <1>6, <2>1, <2>2, <2>3 DEF Report
<1>7. CASE UNCHANGED vars
  BY <1>7 DEF vars
<1>8. QED
  BY <1>1, <1>2, <1>3, <1>4, <1>5, <1>6, <1>7 DEF Next

-----------------------------------------------------------------------------
LEMMA InitTypes == Init => Types
<1>1. /\ None \in Slot \union {None} /\ {} \in Batches \union {{}}
      /\ Periods \subseteq Nat
  BY MockAssumption
<1>2. QED
  BY <1>1 DEF Init, Types, EmptyTable

(* Each step keeps the types.                                              *)
LEMMA NextTypes ==
  ASSUME Types, [Next]_vars
  PROVE  Types'
<1> DEFINE CountTypes == /\ count \in [Counters \union Gauges -> Nat]
                         /\ settled \in [Gauges -> Nat]
<1>c. CountTypes'
  <2>1. ASSUME NEW t \in Threads, NEW g \in Gauges, SwapGauge(t, g)
        PROVE  CountTypes'
    BY <2>1 DEF Types, SwapGauge
  <2>2. QED
    BY <2>1, GaugesMove DEF Types
<1> HIDE DEF CountTypes
<1>f. CountTypes' => /\ count' \in [Counters \union Gauges -> Nat]
                     /\ settled' \in [Gauges -> Nat]
  BY DEF CountTypes
<1> USE <1>c, <1>f DEF Types, knobs, locals, history, Goto, Rejected
<1>1. CASE Test
  <2>1. ArmedCounts \subseteq Nat
    BY MockAssumption
  <2>2. CASE SetHealthy
    BY <2>2 DEF SetHealthy
  <2>3. ASSUME NEW n \in ArmedCounts, FailNextBatches(n)
        PROVE  Types'
    BY <2>1, <2>3 DEF FailNextBatches
  <2>4. QED
    BY <1>1, <2>2, <2>3 DEF Test
<1>2. ASSUME NEW t \in Threads, NEW b \in Batches, Log(t, b)
      PROVE  Types'
  BY <1>2 DEF Log
<1>3. ASSUME NEW t \in Threads, LogFails(t) \/ RetryOrGiveUp(t)
      PROVE  Types'
  BY <1>3 DEF LogFails, RetryOrGiveUp
<1>4. ASSUME NEW t \in Threads, PersistBatch(t)
      PROVE  Types'
  <2>1. CASE CheckHealth(t) \/ CountDown(t)
    BY <2>1 DEF CheckHealth, CountDown
  <2>2. CASE NumberAttempt(t) \/ CheckPeriod(t)
    BY <2>2 DEF NumberAttempt, CheckPeriod
  <2>3. CASE Upsert(t)
    <3>1. table' \in [Ids -> Slot \union {None}]
      BY <2>3, UpsertedWins DEF Upsert
    <3>2. QED
      BY <2>3, <3>1 DEF Upsert
  <2>4. CASE CountBatch(t)
    <3>1. batch[t] \subseteq State
      BY BatchFacts
    <3>2. QED
      BY <2>4, <3>1 DEF CountBatch
  <2>5. QED
    BY <1>4, <2>1, <2>2, <2>3, <2>4 DEF PersistBatch
<1>5. ASSUME NEW t \in Threads, Report(t)
      PROVE  Types'
  <2>1. CASE RecordFlush(t) \/ \E n \in Nanos : RecordEnqueued(t, n)
    <3>1. nanos' \in [Threads -> Nat]
      BY <2>1, MockAssumption DEF RecordFlush, RecordEnqueued
    <3>2. QED
      BY <2>1, <3>1 DEF RecordFlush, RecordEnqueued
  <2>2. CASE RecordRecords(t) \/ CheckpointFails(t)
    BY <2>2 DEF RecordRecords, CheckpointFails
  <2>3. CASE RecordDropped(t) \/ AddSum(t)
    BY <2>3 DEF RecordDropped, AddSum
  <2>4. ASSUME NEW g \in Gauges, LoadGauge(t, g) \/ SwapGauge(t, g)
        PROVE  Types'
    BY <2>4 DEF LoadGauge, SwapGauge
  <2>5. QED
    BY <1>5, <2>1, <2>2, <2>3, <2>4 DEF Report
<1>6. CASE UNCHANGED vars
  BY <1>6 DEF vars
<1>7. QED
  BY <1>1, <1>2, <1>3, <1>4, <1>5, <1>6 DEF Next

(* Type correctness of what the theorems below speak of.                   *)
THEOREM TypesAlways == Spec => []Types
<1>1. Types /\ [Next]_vars => Types'
  BY NextTypes
<1>2. QED
  BY InitTypes, <1>1, PTL DEF Spec

-----------------------------------------------------------------------------
(* fail_next_batches: only the test thread arms, only fetch_update         *)
(* consumes, and both move the two sides together.                         *)
THEOREM CountdownExact == Spec => []ExactlyArmed
<1>1. Init => ExactlyArmed
  BY DEF Init, ExactlyArmed
<1>2. ASSUME Types, ExactlyArmed, [Next]_vars
      PROVE  ExactlyArmed'
  <2> USE <1>2 DEF Types, ExactlyArmed, knobs, locals, history, Rejected
  <2>1. CASE Test
    <3>1. ArmedCounts \subseteq Nat
      BY MockAssumption
    <3>2. QED
      BY <2>1, <3>1 DEF Test, SetHealthy, FailNextBatches
  <2>2. ASSUME NEW t \in Threads, NEW b \in Batches, Log(t, b)
        PROVE  ExactlyArmed'
    BY <2>2 DEF Log
  <2>3. ASSUME NEW t \in Threads, LogFails(t) \/ RetryOrGiveUp(t)
        PROVE  ExactlyArmed'
    BY <2>3 DEF LogFails, RetryOrGiveUp
  <2>4. ASSUME NEW t \in Threads, PersistBatch(t)
        PROVE  ExactlyArmed'
    BY <2>4 DEF PersistBatch, CheckHealth, CountDown, NumberAttempt, CheckPeriod,
                Upsert, CountBatch
  <2>5. ASSUME NEW t \in Threads, Report(t)
        PROVE  ExactlyArmed'
    BY <2>5 DEF Report, RecordFlush, RecordRecords, CheckpointFails, RecordEnqueued,
                RecordDropped, AddSum, LoadGauge, SwapGauge
  <2>6. CASE UNCHANGED vars
    BY <2>6 DEF vars
  <2>7. QED
    BY <2>1, <2>2, <2>3, <2>4, <2>5, <2>6 DEF Next
<1>3. QED
  BY <1>1, <1>2, TypesAlways, PTL DEF Spec

-----------------------------------------------------------------------------
(* Last write wins (persist_batch, store.rs): only the upsert moves the    *)
(* table, and never backwards.                                             *)
LEMMA TableGrows ==
  ASSUME Types, [Next]_vars
  PROVE  \A i \in Ids : VersionOf(table'[i]) >= VersionOf(table[i])
<1> USE DEF Types, knobs, locals, history
<1>1. \A i \in Ids : VersionOf(table[i]) \in Int
  BY SlotFacts
<1>2. ASSUME NEW t \in Threads, Upsert(t)
      PROVE  \A i \in Ids : VersionOf(table'[i]) >= VersionOf(table[i])
  BY <1>2, UpsertedWins DEF Upsert
<1>3. ASSUME UNCHANGED table
      PROVE  \A i \in Ids : VersionOf(table'[i]) >= VersionOf(table[i])
  BY <1>1, <1>3
<1>4. UNCHANGED table \/ \E t \in Threads : Upsert(t)
  BY DEF Next, Test, SetHealthy, FailNextBatches, Log, LogFails, RetryOrGiveUp,
         PersistBatch, CheckHealth, CountDown, NumberAttempt, CheckPeriod,
         CountBatch, Report, RecordFlush, RecordRecords, CheckpointFails,
         RecordEnqueued, RecordDropped, AddSum, LoadGauge, SwapGauge, vars
<1>5. QED
  BY <1>2, <1>3, <1>4

THEOREM LastWriteWins == Spec => NeverRegresses
<1>1. Types /\ [Next]_vars =>
        [\A i \in Ids : VersionOf(table'[i]) >= VersionOf(table[i])]_vars
  BY TableGrows
<1>2. QED
  BY <1>1, TypesAlways, PTL DEF Spec, NeverRegresses

-----------------------------------------------------------------------------
(* A batch that is about to be counted is in the table already, and what   *)
(* is in the table stays (TableGrows).                                     *)
DataInv == CounterShowsData /\ CountedNext

LEMMA InTableKept ==
  ASSUME Types, [Next]_vars, NEW s \in State, InTable(s)
  PROVE  InTable(s)'
<1>1. s.id \in Ids /\ s.ver \in Nat
  BY DEF State
<1>2. VersionOf(table'[s.id]) >= VersionOf(table[s.id])
  BY <1>1, TableGrows
<1>3. Types'
  BY NextTypes
<1>4. VersionOf(table[s.id]) \in Int /\ VersionOf(table'[s.id]) \in Int
  BY <1>1, <1>3, SlotFacts DEF Types
<1>5. QED
  BY <1>1, <1>2, <1>4 DEF InTable

(* Only CountBatch adds to what is counted, only Upsert leads to it.       *)
LEMMA CountingMoves ==
  ASSUME Types, [Next]_vars
  PROVE  /\ \/ counted' = counted
            \/ \E t \in Threads :
                 pc[t] = "count" /\ counted' = counted \union batch[t]
         /\ \A t \in Threads : pc'[t] = "count" =>
              \/ Upsert(t)
              \/ pc[t] = "count" /\ batch'[t] = batch[t]
<1> USE DEF Types, knobs, locals, history, Goto, Rejected
<1> DEFINE Goal == /\ \/ counted' = counted
                      \/ \E t \in Threads :
                           pc[t] = "count" /\ counted' = counted \union batch[t]
                   /\ \A t \in Threads : pc'[t] = "count" =>
                        \/ Upsert(t)
                        \/ pc[t] = "count" /\ batch'[t] = batch[t]
<1>l. \A g \in Gauges : Load[g] # "count" /\ Swap[g] # "count"
  BY DEF Load, Swap, Gauges
<1>m. Load.max_flush_nanos # "count" /\ Load.max_submit_nanos # "count"
  BY DEF Load
<1>1. CASE Test
  BY <1>1 DEF Test, SetHealthy, FailNextBatches
<1>2. ASSUME NEW t \in Threads, NEW b \in Batches, Log(t, b)
      PROVE  Goal
  BY <1>2 DEF Log
<1>3. ASSUME NEW t \in Threads, LogFails(t) \/ RetryOrGiveUp(t)
      PROVE  Goal
  BY <1>3 DEF LogFails, RetryOrGiveUp
<1>4. ASSUME NEW t \in Threads, PersistBatch(t)
      PROVE  Goal
  <2>1. CASE Upsert(t)
    BY <2>1 DEF Upsert
  <2>2. CASE CountBatch(t)
    BY <2>2 DEF CountBatch
  <2>3. CASE CheckHealth(t) \/ CountDown(t)
    BY <2>3 DEF CheckHealth, CountDown
  <2>4. CASE NumberAttempt(t) \/ CheckPeriod(t)
    BY <2>4 DEF NumberAttempt, CheckPeriod
  <2>5. QED
    BY <1>4, <2>1, <2>2, <2>3, <2>4 DEF PersistBatch
<1>5. ASSUME NEW t \in Threads, Report(t)
      PROVE  Goal
  <2>1. CASE RecordFlush(t) \/ RecordDropped(t) \/ AddSum(t)
    BY <2>1, <1>m DEF RecordFlush, RecordDropped, AddSum
  <2>2. CASE CheckpointFails(t) \/ RecordRecords(t)
    BY <2>2, <1>m DEF CheckpointFails, RecordRecords
  <2>3. CASE \E n \in Nanos : RecordEnqueued(t, n)
    BY <2>3 DEF RecordEnqueued
  <2>4. ASSUME NEW g \in Gauges, LoadGauge(t, g) \/ SwapGauge(t, g)
        PROVE  Goal
    BY <2>4, <1>l DEF LoadGauge, SwapGauge
  <2>5. QED
    BY <1>5, <2>1, <2>2, <2>3, <2>4 DEF Report
<1>6. CASE UNCHANGED vars
  BY <1>6 DEF vars
<1>7. QED
  BY <1>1, <1>2, <1>3, <1>4, <1>5, <1>6 DEF Next

LEMMA DataNext ==
  ASSUME Types, DataInv, [Next]_vars
  PROVE  DataInv'
<1>1. \A s \in counted : s \in State /\ InTable(s)
  BY DEF Types, DataInv, CounterShowsData, InTable
<1>2. \A t \in Threads : pc[t] = "count" =>
         \A s \in batch[t] : s \in State /\ InTable(s)
  BY BatchFacts DEF Types, DataInv, CountedNext
<1>3. \A s \in counted' : s \in State /\ InTable(s)
  BY <1>1, <1>2, CountingMoves
<1>4. \A s \in counted' : InTable(s)'
  BY <1>3, InTableKept
<1>5. ASSUME NEW t \in Threads, pc'[t] = "count", NEW s \in batch'[t]
      PROVE  InTable(s)'
  <2>1. CASE Upsert(t)
    <3>1. s \in batch[t] /\ table' = Upserted(table, batch[t])
      BY <1>5, <2>1 DEF Upsert, locals
    <3>2. batch[t] \in Batches \union {{}}
      BY DEF Types
    <3>3. table \in [Ids -> Slot \union {None}]
      BY DEF Types
    <3>4. VersionOf(table'[s.id]) >= s.ver
      BY <3>1, <3>2, <3>3, UpsertedWins
    <3>5. QED
      BY <3>4 DEF InTable
  <2>2. CASE pc[t] = "count" /\ batch'[t] = batch[t]
    BY <1>2, <1>5, <2>2, InTableKept
  <2>3. QED
    BY <1>5, <2>1, <2>2, CountingMoves
<1>6. QED
  BY <1>4, <1>5 DEF DataInv, CounterShowsData, CountedNext, InTable

(* persisted_batches (store.rs): whoever sees the counter sees the data.   *)
THEOREM CounterFollowsData == Spec => []CounterShowsData
<1>1. Init => DataInv
  BY DEF Init, DataInv, CounterShowsData, CountedNext
<1>2. Types /\ DataInv /\ [Next]_vars => DataInv'
  BY DataNext
<1>3. DataInv => CounterShowsData
  BY DEF DataInv
<1>4. QED
  BY <1>1, <1>2, <1>3, TypesAlways, PTL DEF Spec

-----------------------------------------------------------------------------
(* A compare-exchange (fetch_max, metrics.rs) only raises a gauge.         *)
LEMMA GaugesGrow ==
  ASSUME Types, [Next]_vars
  PROVE  \A g \in Gauges : count'[g] >= count[g]
<1>1. ASSUME NEW t \in Threads, NEW g \in Gauges, SwapGauge(t, g), NEW h \in Gauges
      PROVE  count'[h] >= count[h]
  BY <1>1 DEF Types, SwapGauge
<1>2. QED
  BY <1>1, GaugesMove DEF Types

(* A thread comes to its compare-exchange with what the gauge holds.       *)
LEMMA SeenMoves ==
  ASSUME Types, [Next]_vars, NEW t \in Threads, NEW g \in Gauges,
         pc'[t] = Swap[g]
  PROVE  \/ current'[t] = count'[g]
         \/ pc[t] = Swap[g] /\ current'[t] = current[t]
<1> USE DEF Types, knobs, locals, history, Goto, Rejected
<1> DEFINE Goal == \/ current'[t] = count'[g]
                   \/ pc[t] = Swap[g] /\ current'[t] = current[t]
<1>s. Swap[g] \in {"swap_submit", "swap_flush"}
  BY DEF Swap, Gauges
<1>i. \A h \in Gauges : Swap[h] = Swap[g] => h = g
  BY DEF Swap, Gauges
<1>m. Load.max_flush_nanos = "load_flush" /\ Load.max_submit_nanos = "load_submit"
  BY DEF Load
<1>1. CASE Test
  BY <1>1 DEF Test, SetHealthy, FailNextBatches
<1>2. ASSUME NEW u \in Threads, NEW b \in Batches, Log(u, b)
      PROVE  Goal
  BY <1>2, <1>s DEF Log
<1>3. ASSUME NEW u \in Threads, LogFails(u) \/ RetryOrGiveUp(u)
      PROVE  Goal
  BY <1>3, <1>s DEF LogFails, RetryOrGiveUp
<1>4. ASSUME NEW u \in Threads, PersistBatch(u)
      PROVE  Goal
  <2>1. CASE Upsert(u) \/ CountBatch(u)
    BY <2>1, <1>s DEF Upsert, CountBatch
  <2>2. CASE CheckHealth(u) \/ CountDown(u)
    BY <2>2, <1>s DEF CheckHealth, CountDown
  <2>3. CASE NumberAttempt(u) \/ CheckPeriod(u)
    BY <2>3, <1>s DEF NumberAttempt, CheckPeriod
  <2>4. QED
    BY <1>4, <2>1, <2>2, <2>3 DEF PersistBatch
<1>5. ASSUME NEW u \in Threads, Report(u)
      PROVE  Goal
  <2>1. CASE RecordFlush(u) \/ RecordDropped(u) \/ AddSum(u)
    BY <2>1, <1>m, <1>s DEF RecordFlush, RecordDropped, AddSum
  <2>2. CASE CheckpointFails(u) \/ RecordRecords(u)
    BY <2>2, <1>m, <1>s DEF CheckpointFails, RecordRecords
  <2>3. CASE \E n \in Nanos : RecordEnqueued(u, n)
    BY <2>3, <1>s DEF RecordEnqueued
  <2>4. ASSUME NEW h \in Gauges, LoadGauge(u, h)
        PROVE  Goal
    BY <2>4, <1>i DEF LoadGauge
  <2>5. ASSUME NEW h \in Gauges, SwapGauge(u, h)
        PROVE  Goal
    BY <2>5, <1>i, <1>s DEF SwapGauge
  <2>6. QED
    BY <1>5, <2>1, <2>2, <2>3, <2>4, <2>5 DEF Report
<1>6. CASE UNCHANGED vars
  BY <1>6 DEF vars
<1>7. QED
  BY <1>1, <1>2, <1>3, <1>4, <1>5, <1>6 DEF Next

LEMMA PeaksNext ==
  ASSUME Types, PeaksHold, SeenBelow, [Next]_vars
  PROVE  PeaksHold' /\ SeenBelow'
<1>1. PeaksHold'
  <2>1. ASSUME NEW t \in Threads, NEW g \in Gauges, SwapGauge(t, g)
        PROVE  PeaksHold'
    <3>1. current[t] <= count[g]
      BY <2>1 DEF SwapGauge, SeenBelow
    <3>2. count'[g] >= settled'[g]
      BY <2>1, <3>1 DEF Types, SwapGauge, PeaksHold
    <3>3. \A h \in Gauges : h # g => count'[h] = count[h] /\ settled'[h] = settled[h]
      BY <2>1 DEF Types, SwapGauge
    <3>4. QED
      BY <3>2, <3>3 DEF PeaksHold
  <2>2. QED
    BY <2>1, GaugesMove DEF PeaksHold
<1>2. ASSUME NEW t \in Threads, NEW g \in Gauges, pc'[t] = Swap[g]
      PROVE  current'[t] <= count'[g]
  <2>1. count[g] \in Nat /\ count'[g] \in Nat /\ count'[g] >= count[g]
    BY NextTypes, GaugesGrow DEF Types
  <2>2. current[t] \in Nat /\ current'[t] \in Nat
    BY NextTypes DEF Types
  <2>3. CASE current'[t] = count'[g]
    BY <2>1, <2>3
  <2>4. CASE pc[t] = Swap[g] /\ current'[t] = current[t]
    BY <2>1, <2>2, <2>4 DEF SeenBelow
  <2>5. QED
    BY <1>2, <2>3, <2>4, SeenMoves
<1>3. QED
  BY <1>1, <1>2 DEF SeenBelow

(* fetch_max (metrics.rs): whoever loses the race, a recorded value is     *)
(* never above its gauge.                                                  *)
THEOREM PeaksAlwaysHold == Spec => []PeaksHold
<1>1. Init => PeaksHold /\ SeenBelow
  <2>1. \A g \in Gauges : Swap[g] # "idle"
    BY DEF Swap, Gauges
  <2>2. QED
    BY <2>1 DEF Init, PeaksHold, SeenBelow
<1>2. Types /\ PeaksHold /\ SeenBelow /\ [Next]_vars => PeaksHold' /\ SeenBelow'
  BY PeaksNext
<1>3. QED
  BY <1>1, <1>2, TypesAlways, PTL DEF Spec

-----------------------------------------------------------------------------
(* Multiples: n + 1 has as many below it as n, and itself if it is one.    *)
LEMMA Larger ==
  ASSUME NEW f \in Nat \ {0}, NEW p \in Nat, NEW q \in Nat, p < q
  PROVE  f * q >= f * p + f
<1>1. PICK d \in Nat : q = p + 1 + d
  <2>1. q - p - 1 \in Nat /\ q = p + 1 + (q - p - 1)
    OBVIOUS
  <2>2. QED
    BY <2>1
<1>2. f * q = f * p + f + f * d
  BY <1>1
<1>3. f * d \in Nat /\ f * p \in Nat
  OBVIOUS
<1>4. QED
  BY <1>2, <1>3

LEMMA Division ==
  ASSUME NEW n \in Nat, NEW f \in Nat \ {0}
  PROVE  /\ n \div f \in Nat /\ n % f \in 0..(f - 1)
         /\ n = f * (n \div f) + (n % f)
  BY Z3

LEMMA NextMultiple ==
  ASSUME NEW n \in Nat, NEW f \in Nat \ {0}
  PROVE  (n + 1) \div f = (n \div f) + (IF (n + 1) % f = 0 THEN 1 ELSE 0)
<1>1. PICK q \in Nat, r \in 0..(f - 1) :
        q = n \div f /\ r = n % f /\ n = f * q + r
  BY Division
<1>2. PICK qq \in Nat, rr \in 0..(f - 1) :
        qq = (n + 1) \div f /\ rr = (n + 1) % f /\ n + 1 = f * qq + rr
  BY Division
<1>3. f * q \in Nat /\ f * qq \in Nat /\ f * (q + 1) = f * q + f
  OBVIOUS
<1>4. f * qq + rr = f * q + r + 1
  BY <1>1, <1>2, <1>3
<1>5. ~(qq < q)
  <2>1. ASSUME qq < q
        PROVE  f * q >= f * qq + f
    BY <2>1, Larger
  <2>2. QED
    BY <2>1, <1>3, <1>4
<1>6. CASE rr = 0
  <2>1. qq # q
    BY <1>3, <1>4, <1>6
  <2>2. ASSUME q + 1 < qq
        PROVE  f * qq >= f * (q + 1) + f
    BY <2>2, Larger
  <2>3. ~(q + 1 < qq)
    BY <2>2, <1>3, <1>4, <1>6
  <2>4. qq = q + 1
    BY <2>1, <2>3, <1>5
  <2>5. QED
    BY <2>4, <1>1, <1>2, <1>6
<1>7. CASE rr # 0
  <2>1. ASSUME q < qq
        PROVE  f * qq >= f * q + f
    BY <2>1, Larger
  <2>2. ~(q < qq)
    BY <2>1, <1>3, <1>4, <1>7
  <2>3. QED
    BY <2>2, <1>5, <1>1, <1>2, <1>7
<1>8. QED
  BY <1>6, <1>7

(* Threads that have numbered their attempt and not yet tested the number. *)
Numbered == {t \in Threads : Fetched(t) /\ Due(number[t])}

LEMMA NumberedIsFinite == IsFiniteSet(Numbered)
<1>1. IsFiniteSet(Threads)
  BY MockAssumption, FS_AddElement DEF Threads
<1>2. QED
  BY <1>1, FS_Subset DEF Numbered

(* Every other step leaves attempts and periodic failures alone, and what  *)
(* is numbered.                                                            *)
LEMMA NumberingMoves ==
  ASSUME Types, [Next]_vars
  PROVE  \/ \E t \in Threads : NumberAttempt(t) \/ CheckPeriod(t)
         \/ /\ UNCHANGED <<attempts, periodic, failEvery>>
            /\ \A t \in Threads :
                 /\ (pc'[t] = "period") = (pc[t] = "period")
                 /\ pc[t] = "period" => number'[t] = number[t]
<1> USE DEF Types, knobs, locals, history, Goto, Rejected
<1> DEFINE Goal == /\ UNCHANGED <<attempts, periodic, failEvery>>
                   /\ \A t \in Threads :
                        /\ (pc'[t] = "period") = (pc[t] = "period")
                        /\ pc[t] = "period" => number'[t] = number[t]
<1>l. \A g \in Gauges : /\ Load[g] \in {"load_submit", "load_flush"}
                        /\ Swap[g] \in {"swap_submit", "swap_flush"}
  BY DEF Load, Swap, Gauges
<1>m. Load.max_flush_nanos = "load_flush" /\ Load.max_submit_nanos = "load_submit"
  BY DEF Load
<1>1. CASE Test
  BY <1>1 DEF Test, SetHealthy, FailNextBatches
<1>2. ASSUME NEW t \in Threads, NEW b \in Batches, Log(t, b)
      PROVE  Goal
  BY <1>2 DEF Log
<1>3. ASSUME NEW t \in Threads, LogFails(t) \/ RetryOrGiveUp(t)
      PROVE  Goal
  BY <1>3 DEF LogFails, RetryOrGiveUp
<1>4. ASSUME NEW t \in Threads, CheckHealth(t) \/ CountDown(t)
      PROVE  Goal
  BY <1>4 DEF CheckHealth, CountDown
<1>5. ASSUME NEW t \in Threads, Upsert(t) \/ CountBatch(t)
      PROVE  Goal
  BY <1>5 DEF Upsert, CountBatch
<1>6. ASSUME NEW t \in Threads, Report(t)
      PROVE  Goal
  <2>1. CASE RecordFlush(t) \/ RecordDropped(t) \/ AddSum(t)
    BY <2>1, <1>m DEF RecordFlush, RecordDropped, AddSum
  <2>2. CASE CheckpointFails(t) \/ RecordRecords(t)
    BY <2>2, <1>m DEF CheckpointFails, RecordRecords
  <2>3. CASE \E n \in Nanos : RecordEnqueued(t, n)
    BY <2>3 DEF RecordEnqueued
  <2>4. ASSUME NEW g \in Gauges, LoadGauge(t, g)
        PROVE  Goal
    BY <2>4, <1>l DEF LoadGauge
  <2>5. ASSUME NEW g \in Gauges, SwapGauge(t, g)
        PROVE  Goal
    BY <2>5, <1>l DEF SwapGauge
  <2>6. QED
    BY <1>6, <2>1, <2>2, <2>3, <2>4, <2>5 DEF Report
<1>7. CASE UNCHANGED vars
  BY <1>7 DEF vars
<1>8. QED
  BY <1>1, <1>2, <1>3, <1>4, <1>5, <1>6, <1>7 DEF Next, PersistBatch

(* fail_every (store.rs): between fetch_add and the test of the number a   *)
(* thread carries the failure the counter already owes.                    *)
LEMMA PeriodNext ==
  ASSUME Types, PeriodExact, [Next]_vars
  PROVE  PeriodExact'
<1> USE DEF Types, Numbered, Fetched, Due
<1>n. Cardinality(Numbered) \in Nat /\ IsFiniteSet(Numbered)
  BY NumberedIsFinite, FS_CardinalityType DEF Numbered
<1>p. failEvery > 0 => attempts \div failEvery = periodic + Cardinality(Numbered)
  BY DEF PeriodExact
<1>1. ASSUME NEW t \in Threads, NumberAttempt(t), failEvery > 0
      PROVE  PeriodExact'
  <2>1. /\ pc[t] = "number" /\ t \notin Numbered
        /\ attempts' = attempts + 1 /\ UNCHANGED <<periodic, failEvery>>
    BY <1>1 DEF NumberAttempt, knobs, history
  <2>2. (attempts + 1) \div failEvery
          = (attempts \div failEvery) + (IF (attempts + 1) % failEvery = 0 THEN 1 ELSE 0)
    <3>1. attempts \in Nat /\ failEvery \in Nat \ {0}
      BY <1>1
    <3>2. QED
      BY <3>1, NextMultiple
  <2>3. /\ pc' = [pc EXCEPT ![t] = "period"]
        /\ number' = [number EXCEPT ![t] = attempts + 1]
    BY <1>1 DEF NumberAttempt, Goto
  <2>4. CASE (attempts + 1) % failEvery = 0
    <3>1. Numbered' = Numbered \union {t}
      BY <1>1, <2>1, <2>3, <2>4
    <3>2. Cardinality(Numbered') = Cardinality(Numbered) + 1
      <4>1. Cardinality(Numbered \union {t}) = Cardinality(Numbered) + 1
        BY <1>n, <2>1, FS_AddElement
      <4>2. QED
        BY <3>1, <4>1
    <3>3. attempts' \div failEvery' = periodic' + Cardinality(Numbered')
      BY <1>1, <1>n, <1>p, <2>1, <2>2, <2>4, <3>2
    <3>4. QED
      BY <3>3 DEF PeriodExact
  <2>5. CASE (attempts + 1) % failEvery # 0
    <3>1. Numbered' = Numbered
      BY <1>1, <2>1, <2>3, <2>5
    <3>2. attempts' \div failEvery' = attempts \div failEvery
      BY <1>1, <2>1, <2>2, <2>5, Division
    <3>3. attempts' \div failEvery' = periodic' + Cardinality(Numbered')
      BY <1>1, <1>p, <2>1, <3>1, <3>2
    <3>4. QED
      BY <3>3 DEF PeriodExact
  <2>6. QED
    BY <2>4, <2>5
<1>2. ASSUME NEW t \in Threads, CheckPeriod(t), failEvery > 0
      PROVE  PeriodExact'
  <2>1. /\ pc[t] = "period" /\ UNCHANGED <<attempts, failEvery, number>>
    BY <1>2 DEF CheckPeriod, knobs, locals
  <2>2. \A u \in Threads : pc'[u] = "period" <=> u # t /\ pc[u] = "period"
    BY <1>2 DEF CheckPeriod, Goto, Rejected
  <2>3. CASE Due(number[t])
    <3>1. periodic' = periodic + 1 /\ t \in Numbered
      BY <1>2, <2>1, <2>3 DEF CheckPeriod
    <3>2. Numbered' = Numbered \ {t}
      BY <2>1, <2>2
    <3>3. Cardinality(Numbered') = Cardinality(Numbered) - 1
      <4>1. Cardinality(Numbered \ {t}) = Cardinality(Numbered) - 1
        BY <1>n, <3>1, FS_RemoveElement
      <4>2. QED
        BY <3>2, <4>1
    <3>4. attempts' \div failEvery' = periodic' + Cardinality(Numbered')
      BY <1>2, <1>n, <1>p, <2>1, <3>1, <3>3
    <3>5. QED
      BY <3>4 DEF PeriodExact
  <2>4. CASE ~Due(number[t])
    <3>1. periodic' = periodic
      BY <1>2, <2>4 DEF CheckPeriod
    <3>2. Numbered' = Numbered
      BY <2>1, <2>2, <2>4
    <3>3. attempts' \div failEvery' = periodic' + Cardinality(Numbered')
      BY <1>2, <1>p, <2>1, <3>1, <3>2
    <3>4. QED
      BY <3>3 DEF PeriodExact
  <2>5. QED
    BY <2>3, <2>4
<1>3. ASSUME UNCHANGED <<attempts, periodic, failEvery>>, failEvery > 0,
             \A t \in Threads :
               /\ (pc'[t] = "period") = (pc[t] = "period")
               /\ pc[t] = "period" => number'[t] = number[t]
      PROVE  PeriodExact'
  <2>1. Numbered' = Numbered
    BY <1>3
  <2>2. attempts' \div failEvery' = periodic' + Cardinality(Numbered')
    BY <1>3, <1>p, <2>1
  <2>3. QED
    BY <2>2 DEF PeriodExact
<1>4. UNCHANGED failEvery
  <2>1. \A t \in Threads : NumberAttempt(t) \/ CheckPeriod(t) => UNCHANGED failEvery
    BY DEF NumberAttempt, CheckPeriod, knobs
  <2>2. QED
    BY <2>1, NumberingMoves
<1>5. CASE failEvery > 0
  BY <1>1, <1>2, <1>3, <1>5, NumberingMoves
<1>6. CASE ~(failEvery > 0)
  BY <1>4, <1>6 DEF PeriodExact
<1>7. QED
  BY <1>5, <1>6

(* Every failEvery-th attempt fails, whichever thread made which.          *)
THEOREM PeriodAlwaysExact == Spec => []PeriodExact
<1>1. Init => PeriodExact
  <2>1. ASSUME Init, failEvery > 0
        PROVE  0 \div failEvery = 0
    <3>1. failEvery \in Nat \ {0}
      BY <2>1, MockAssumption DEF Init
    <3>2. QED
      BY <3>1, Z3
  <2>2. ASSUME Init
        PROVE  Numbered = {} /\ attempts = 0 /\ periodic = 0
    BY <2>2 DEF Init, Numbered, Fetched
  <2>3. Cardinality({}) = 0
    BY FS_EmptySet
  <2>4. ASSUME Init, failEvery > 0
        PROVE  attempts \div failEvery = periodic + Cardinality(Numbered)
    BY <2>1, <2>2, <2>3, <2>4
  <2>5. QED
    BY <2>4 DEF PeriodExact, Numbered
<1>2. Types /\ PeriodExact /\ [Next]_vars => PeriodExact'
  BY PeriodNext
<1>3. QED
  BY <1>1, <1>2, TypesAlways, PTL DEF Spec

-----------------------------------------------------------------------------
(* The threads at one of some labels, and the attempts a flush under way   *)
(* still has left, as pairs of a thread and the number of an attempt.      *)
At(f, labels) == {t \in Threads : f[t] \in labels}
InFlush == {"health", "countdown", "number", "period", "upsert", "count",
            "flushed", "again"}
Chances(f, n) ==
  {p \in Threads \X (1..RetryLimit) : f[p[1]] \in InFlush /\ n[p[1]] < p[2]}

Moved(f, g, t, l) == \A u \in Threads : g[u] = IF u = t THEN l ELSE f[u]

LEMMA AtIsFinite ==
  ASSUME NEW f, NEW labels
  PROVE  IsFiniteSet(At(f, labels)) /\ Cardinality(At(f, labels)) \in Nat
<1>1. IsFiniteSet(Threads)
  BY MockAssumption, FS_AddElement DEF Threads
<1>2. IsFiniteSet(At(f, labels))
  BY <1>1, FS_Subset DEF At
<1>3. QED
  BY <1>2, FS_CardinalityType

(* A thread that moves on enters and leaves the sets of its labels.        *)
LEMMA AtMoves ==
  ASSUME NEW f, NEW g, NEW t \in Threads, NEW l, NEW labels, Moved(f, g, t, l)
  PROVE  /\ (l \in labels /\ f[t] \notin labels)
              => Cardinality(At(g, labels)) = Cardinality(At(f, labels)) + 1
         /\ (l \notin labels /\ f[t] \in labels)
              => Cardinality(At(g, labels)) = Cardinality(At(f, labels)) - 1
         /\ (l \in labels <=> f[t] \in labels)
              => Cardinality(At(g, labels)) = Cardinality(At(f, labels))
<1>0. IsFiniteSet(At(f, labels)) /\ (t \in At(f, labels) <=> f[t] \in labels)
  BY AtIsFinite DEF At
<1>1. ASSUME l \in labels, f[t] \notin labels
      PROVE  Cardinality(At(g, labels)) = Cardinality(At(f, labels)) + 1
  <2>1. At(g, labels) = At(f, labels) \union {t}
    BY <1>1 DEF At, Moved
  <2>2. Cardinality(At(f, labels) \union {t}) = Cardinality(At(f, labels)) + 1
    BY <1>0, <1>1, FS_AddElement
  <2>3. QED
    BY <2>1, <2>2
<1>2. ASSUME l \notin labels, f[t] \in labels
      PROVE  Cardinality(At(g, labels)) = Cardinality(At(f, labels)) - 1
  <2>1. At(g, labels) = At(f, labels) \ {t}
    BY <1>2 DEF At, Moved
  <2>2. Cardinality(At(f, labels) \ {t}) = Cardinality(At(f, labels)) - 1
    BY <1>0, <1>2, FS_RemoveElement
  <2>3. QED
    BY <2>1, <2>2
<1>3. ASSUME l \in labels <=> f[t] \in labels
      PROVE  At(g, labels) = At(f, labels)
  BY <1>3 DEF At, Moved
<1>4. QED
  BY <1>1, <1>2, <1>3

LEMMA ChancesAreFinite ==
  ASSUME NEW f, NEW n
  PROVE  IsFiniteSet(Chances(f, n)) /\ Cardinality(Chances(f, n)) \in Nat
<1>1. IsFiniteSet(Threads) /\ IsFiniteSet(1..RetryLimit)
  <2>1. 1 \in Int /\ RetryLimit \in Int
    BY MockAssumption
  <2>2. IsFiniteSet(1..RetryLimit)
    BY <2>1, FS_Interval
  <2>3. QED
    BY <2>2, MockAssumption, FS_AddElement DEF Threads
<1>2. IsFiniteSet(Threads \X (1..RetryLimit))
  BY <1>1, FS_Product
<1>3. Chances(f, n) \in SUBSET (Threads \X (1..RetryLimit))
  BY DEF Chances
<1>4. IsFiniteSet(Chances(f, n))
  BY <1>2, <1>3, FS_Subset
<1>5. QED
  BY <1>4, FS_CardinalityType

(* Only the beginning of a flush adds attempts; a retry uses one up.       *)
LEMMA ChancesMove ==
  ASSUME NEW f, NEW g, NEW n \in [Threads -> Nat], NEW m \in [Threads -> Nat],
         NEW t \in Threads, NEW l, Moved(f, g, t, l)
  PROVE  /\ (l \in InFlush => f[t] \in InFlush) /\ m = n
              => Cardinality(Chances(g, m)) <= Cardinality(Chances(f, n))
         /\ f[t] \notin InFlush /\ Moved(n, m, t, 1)
              => Cardinality(Chances(g, m))
                   <= Cardinality(Chances(f, n)) + (RetryLimit - 1)
         /\ f[t] \in InFlush /\ m[t] <= RetryLimit /\ Moved(n, m, t, n[t] + 1)
              => Cardinality(Chances(g, m)) + 1 <= Cardinality(Chances(f, n))
<1>r. RetryLimit \in Nat \ {0}
  BY MockAssumption
<1>0. /\ IsFiniteSet(Chances(f, n)) /\ Cardinality(Chances(f, n)) \in Nat
      /\ Cardinality(Chances(g, m)) \in Nat
  BY ChancesAreFinite
<1>1. ASSUME l \in InFlush => f[t] \in InFlush, m = n
      PROVE  Cardinality(Chances(g, m)) <= Cardinality(Chances(f, n))
  <2>1. Chances(g, m) \in SUBSET Chances(f, n)
    BY <1>1 DEF Chances, Moved
  <2>2. QED
    BY <1>0, <2>1, FS_Subset
<1>2. ASSUME f[t] \notin InFlush, Moved(n, m, t, 1)
      PROVE  Cardinality(Chances(g, m))
               <= Cardinality(Chances(f, n)) + (RetryLimit - 1)
  <2> DEFINE added == {t} \X (2..RetryLimit)
  <2>1. Chances(g, m) \in SUBSET (Chances(f, n) \union added)
    <3>1. ASSUME NEW p \in Chances(g, m)
          PROVE  p \in Chances(f, n) \union added
      <4>1. /\ p \in Threads \X (1..RetryLimit) /\ g[p[1]] \in InFlush
            /\ m[p[1]] < p[2]
        BY DEF Chances
      <4>2. CASE p[1] = t
        BY <1>2, <1>r, <4>1, <4>2 DEF Moved
      <4>3. CASE p[1] # t
        BY <1>2, <4>1, <4>3 DEF Chances, Moved
      <4>4. QED
        BY <4>2, <4>3
    <3>2. QED
      BY <3>1
  <2>2. IsFiniteSet(added) /\ Cardinality(added) = RetryLimit - 1
    <3> DEFINE thread == {t}
               tail   == 2..RetryLimit
    <3>1. IsFiniteSet(thread) /\ Cardinality(thread) = 1
      BY FS_Singleton
    <3>2. IsFiniteSet(tail) /\ Cardinality(tail) = RetryLimit - 1
      <4>1. 2 \in Int /\ RetryLimit \in Int
        BY <1>r
      <4>2. /\ IsFiniteSet(2..RetryLimit)
            /\ Cardinality(2..RetryLimit)
                 = IF 2 > RetryLimit THEN 0 ELSE RetryLimit - 2 + 1
        BY <4>1, FS_Interval
      <4>3. QED
        BY <1>r, <4>2
    <3>3. added = thread \X tail
      OBVIOUS
    <3> HIDE DEF thread, tail, added
    <3>4. /\ IsFiniteSet(thread \X tail)
          /\ Cardinality(thread \X tail) = Cardinality(thread) * Cardinality(tail)
      BY <3>1, <3>2, FS_Product
    <3>5. QED
      BY <1>r, <3>1, <3>2, <3>3, <3>4
  <2> HIDE DEF added
  <2>3. /\ IsFiniteSet(Chances(f, n) \union added)
        /\ Cardinality(Chances(f, n) \union added)
             = Cardinality(Chances(f, n)) + Cardinality(added)
                 - Cardinality(Chances(f, n) \intersect added)
    BY <1>0, <2>2, FS_Union
  <2>4. Cardinality(Chances(f, n) \intersect added) \in Nat
    <3>1. IsFiniteSet(Chances(f, n) \intersect added)
      BY <1>0, FS_Intersection
    <3>2. QED
      BY <3>1, FS_CardinalityType
  <2>5. Cardinality(Chances(g, m)) <= Cardinality(Chances(f, n) \union added)
    BY <2>1, <2>3, FS_Subset
  <2>6. QED
    BY <1>0, <1>r, <2>2, <2>3, <2>4, <2>5
<1>3. ASSUME f[t] \in InFlush, m[t] <= RetryLimit, Moved(n, m, t, n[t] + 1)
      PROVE  Cardinality(Chances(g, m)) + 1 <= Cardinality(Chances(f, n))
  <2> DEFINE used == <<t, m[t]>>
  <2>1. m[t] = n[t] + 1 /\ m[t] \in Nat
    BY <1>3 DEF Moved
  <2>2. used \in Chances(f, n) /\ used \notin Chances(g, m)
    BY <1>3, <1>r, <2>1 DEF Chances
  <2>3. Chances(g, m) \in SUBSET (Chances(f, n) \ {used})
    <3>1. ASSUME NEW p \in Chances(g, m)
          PROVE  p \in Chances(f, n)
      <4>1. /\ p \in Threads \X (1..RetryLimit) /\ g[p[1]] \in InFlush
            /\ m[p[1]] < p[2]
        BY DEF Chances
      <4>2. CASE p[1] = t
        BY <1>3, <1>r, <2>1, <4>1, <4>2 DEF Chances
      <4>3. CASE p[1] # t
        BY <1>3, <4>1, <4>3 DEF Chances, Moved
      <4>4. QED
        BY <4>2, <4>3
    <3>2. QED
      BY <2>2, <3>1
  <2> HIDE DEF used
  <2>4. /\ IsFiniteSet(Chances(f, n) \ {used})
        /\ Cardinality(Chances(f, n) \ {used}) = Cardinality(Chances(f, n)) - 1
    BY <1>0, <2>2, FS_RemoveElement
  <2>5. Cardinality(Chances(g, m)) <= Cardinality(Chances(f, n) \ {used})
    BY <2>3, <2>4, FS_Subset
  <2>6. QED
    BY <1>0, <2>4, <2>5
<1>4. QED
  BY <1>1, <1>2, <1>3

-----------------------------------------------------------------------------
(* The books of the flushers (worker.rs flush_batch, api.rs flush_states,  *)
(* metrics.rs) while calls are under way: a flush begun and in no counter  *)
(* is under way; a rejection in no counter is about to be decided on; each *)
(* flush about to be counted is already in persisted_batches; and the      *)
(* retries made and those still allowed stay within the limit.             *)
Flying  == Cardinality(At(pc, InFlush))
Refused == Cardinality(At(pc, {"again"}))
Landed  == Cardinality(At(pc, {"flushed"}))
Allowed == begun * (RetryLimit - 1)

Books ==
  /\ tries \in [Threads -> Nat]
  /\ {begun, unrecorded, rejected, unlogged, persisted} \subseteq Nat
  /\ begun = count.flushes + count.store_errors + unrecorded + Flying
  /\ rejected = count.store_retries + count.store_errors - unlogged + Refused
  /\ count.flushes + Landed <= persisted
  /\ count.store_retries + Cardinality(Chances(pc, tries)) <= Allowed

(* What the books are made of.                                             *)
LEMMA BookTypes ==
  ASSUME Types
  PROVE  /\ Flying \in Nat /\ Refused \in Nat /\ Landed \in Nat
         /\ Cardinality(Chances(pc, tries)) \in Nat
         /\ count.flushes \in Nat /\ count.store_errors \in Nat
         /\ count.store_retries \in Nat
         /\ RetryLimit - 1 \in Nat
<1>1. /\ count.flushes \in Nat /\ count.store_errors \in Nat
      /\ count.store_retries \in Nat
  BY Fields DEF Types
<1>2. QED
  BY <1>1, AtIsFinite, ChancesAreFinite, MockAssumption DEF Flying, Refused, Landed

LEMMA AllowedIsNumber ==
  ASSUME begun \in Nat
  PROVE  Allowed \in Nat
<1>1. ASSUME NEW n \in Nat, NEW k \in Nat
      PROVE  n * k \in Nat
  OBVIOUS
<1>2. RetryLimit - 1 \in Nat
  BY MockAssumption
<1>3. QED
  BY <1>1, <1>2 DEF Allowed

(* What a thread's move does to the counts of threads.                     *)
LEMMA BookMoves ==
  ASSUME Types, NEW t \in Threads, NEW l, Goto(t, l)
  PROVE  /\ Moved(pc, pc', t, l)
         /\ l \in InFlush /\ pc[t] \notin InFlush => Flying' = Flying + 1
         /\ l \notin InFlush /\ pc[t] \in InFlush => Flying' = Flying - 1
         /\ (l \in InFlush <=> pc[t] \in InFlush) => Flying' = Flying
         /\ l = "again" /\ pc[t] # "again" => Refused' = Refused + 1
         /\ l # "again" /\ pc[t] = "again" => Refused' = Refused - 1
         /\ l # "again" /\ pc[t] # "again" => Refused' = Refused
         /\ l = "flushed" /\ pc[t] # "flushed" => Landed' = Landed + 1
         /\ l # "flushed" /\ pc[t] = "flushed" => Landed' = Landed - 1
         /\ l # "flushed" /\ pc[t] # "flushed" => Landed' = Landed
<1>1. Moved(pc, pc', t, l)
  BY DEF Goto, Types, Moved
<1>2. ASSUME NEW labels, l \in labels, pc[t] \notin labels
      PROVE  Cardinality(At(pc', labels)) = Cardinality(At(pc, labels)) + 1
  BY <1>1, <1>2, AtMoves
<1>3. ASSUME NEW labels, l \notin labels, pc[t] \in labels
      PROVE  Cardinality(At(pc', labels)) = Cardinality(At(pc, labels)) - 1
  BY <1>1, <1>3, AtMoves
<1>4. ASSUME NEW labels, l \in labels <=> pc[t] \in labels
      PROVE  Cardinality(At(pc', labels)) = Cardinality(At(pc, labels))
  BY <1>1, <1>4, AtMoves
<1>5. /\ Flying' = Cardinality(At(pc', InFlush))
      /\ Refused' = Cardinality(At(pc', {"again"}))
      /\ Landed' = Cardinality(At(pc', {"flushed"}))
  BY DEF Flying, Refused, Landed
<1>6. QED
  BY <1>1, <1>2, <1>3, <1>4, <1>5 DEF Flying, Refused, Landed

Reported == <<count.flushes, count.store_errors, count.store_retries>>
Told     == <<begun, unrecorded, rejected, unlogged, persisted>>

(* A step of no thread, or of one that stays where it is.                  *)
LEMMA StillKeepsBooks ==
  ASSUME Types, Books, UNCHANGED <<Reported, Told, tries, pc>>
  PROVE  Books'
  BY BookTypes DEF Books, Reported, Told, Allowed, Flying, Refused, Landed

(* A step within a flush or outside of any, and past no count.             *)
LEMMA QuietKeepsBooks ==
  ASSUME Types, Books, UNCHANGED <<Reported, Told, tries>>,
         NEW t \in Threads, NEW l, Goto(t, l), l \in InFlush <=> pc[t] \in InFlush,
         {l, pc[t]} \intersect {"again", "flushed"} = {}
  PROVE  Books'
<1> USE BookTypes DEF Books, Reported, Told, Allowed
<1>1. l \notin {"again", "flushed"} /\ pc[t] \notin {"again", "flushed"}
  OBVIOUS
<1>2. Flying' = Flying /\ Refused' = Refused /\ Landed' = Landed
  BY <1>1, BookMoves
<1>3. Cardinality(Chances(pc', tries')) <= Cardinality(Chances(pc, tries))
  <2>1. Moved(pc, pc', t, l) /\ tries' \in [Threads -> Nat] /\ tries' = tries
    BY BookMoves
  <2>2. QED
    BY <2>1, ChancesMove
<1>4. Cardinality(Chances(pc', tries')) \in Nat
  BY ChancesAreFinite
<1>5. QED
  BY <1>2, <1>3, <1>4

(* A rejection (store.rs persist_batch): it is told, and decided on next.  *)
LEMMA RejectionKeepsBooks ==
  ASSUME Types, Books, NEW t \in Threads, Rejected(t),
         pc[t] \in InFlush \ {"again", "flushed"},
         UNCHANGED <<Reported, tries, begun, unrecorded, unlogged, persisted>>
  PROVE  Books'
<1> USE BookTypes DEF Books, Reported, Allowed
<1>1. "again" \in InFlush
  BY DEF InFlush
<1>2. Goto(t, "again") /\ rejected' = rejected + 1
  BY DEF Rejected
<1>3. Flying' = Flying /\ Refused' = Refused + 1 /\ Landed' = Landed
  <2>1. pc[t] \in InFlush /\ pc[t] # "again" /\ pc[t] # "flushed"
    OBVIOUS
  <2>2. QED
    BY <1>1, <1>2, <2>1, BookMoves
<1>4. Cardinality(Chances(pc', tries')) <= Cardinality(Chances(pc, tries))
  <2>1. Moved(pc, pc', t, "again") /\ tries' \in [Threads -> Nat] /\ tries' = tries
    BY <1>2, BookMoves
  <2>2. QED
    BY <1>1, <2>1, ChancesMove
<1>5. Cardinality(Chances(pc', tries')) \in Nat
  BY ChancesAreFinite
<1>6. QED
  BY <1>2, <1>3, <1>4, <1>5

(* The beginning of a flush, logged or refused by the log.                 *)
LEMMA BeginningKeepsBooks ==
  ASSUME Types, Books, NEW t \in Threads,
         LogFails(t) \/ \E b \in Batches : Log(t, b)
  PROVE  Books'
<1> USE BookTypes DEF Books
<1>0. /\ begun' = begun + 1 /\ Allowed \in Nat
      /\ Allowed' = Allowed + (RetryLimit - 1)
  <2>1. begun' = begun + 1
    BY DEF LogFails, Log
  <2>2. ASSUME NEW n \in Nat, NEW k \in Nat
        PROVE  n * k \in Nat /\ (n + 1) * k = n * k + k
    OBVIOUS
  <2>3. QED
    BY <2>1, <2>2 DEF Allowed
<1>1. CASE LogFails(t)
  <2>1. UNCHANGED <<pc, tries, rejected, persisted>>
    BY <1>1 DEF LogFails, locals
  <2>2. /\ Flying' = Flying /\ Refused' = Refused /\ Landed' = Landed
        /\ Chances(pc', tries') = Chances(pc, tries)
    BY <2>1 DEF Flying, Refused, Landed
  <2>3. CASE t = Worker
    <3>1. /\ count' = [count EXCEPT !.store_errors = @ + 1]
          /\ unlogged' = unlogged + 1 /\ unrecorded' = unrecorded
      BY <1>1, <2>3 DEF LogFails, Counted, Bumped
    <3>2. /\ count'.store_errors = count.store_errors + 1
          /\ count'.flushes = count.flushes
          /\ count'.store_retries = count.store_retries
      BY <3>1, Fields DEF Types
    <3>3. QED
      BY <1>0, <2>1, <2>2, <3>1, <3>2
  <2>4. CASE t # Worker
    <3>1. unrecorded' = unrecorded + 1 /\ UNCHANGED <<count, unlogged>>
      BY <1>1, <2>4 DEF LogFails
    <3>2. QED
      BY <1>0, <2>1, <2>2, <3>1
  <2>5. QED
    BY <2>3, <2>4
<1>2. ASSUME NEW b \in Batches, Log(t, b)
      PROVE  Books'
  <2>1. /\ pc[t] = "idle" /\ Goto(t, "health") /\ tries' = [tries EXCEPT ![t] = 1]
        /\ UNCHANGED <<persisted, unrecorded, rejected, unlogged>>
    BY <1>2 DEF Log, knobs
  <2>2. UNCHANGED Reported
    BY <1>2, Fields DEF Log, Bumped, Types, Reported
  <2>3. Flying' = Flying + 1 /\ Refused' = Refused /\ Landed' = Landed
    <3>1. "health" \in InFlush /\ "idle" \notin InFlush
      BY DEF InFlush
    <3>2. QED
      BY <2>1, <3>1, BookMoves
  <2>4. Cardinality(Chances(pc', tries'))
          <= Cardinality(Chances(pc, tries)) + (RetryLimit - 1)
    <3>1. Moved(pc, pc', t, "health") /\ Moved(tries, tries', t, 1)
      BY <2>1, BookMoves DEF Moved
    <3>2. tries' \in [Threads -> Nat] /\ pc[t] \notin InFlush
      BY <2>1 DEF InFlush
    <3>3. QED
      BY <3>1, <3>2, ChancesMove
  <2>5. Cardinality(Chances(pc', tries')) \in Nat /\ tries' \in [Threads -> Nat]
    BY <2>1, ChancesAreFinite
  <2>6. QED
    BY <1>0, <2>1, <2>2, <2>3, <2>4, <2>5 DEF Reported
<1>3. QED
  BY <1>1, <1>2

(* The decision of the retry loop: another attempt, or the end.            *)
LEMMA DecisionKeepsBooks ==
  ASSUME Types, Books, NEW t \in Threads, RetryOrGiveUp(t)
  PROVE  Books'
<1> USE BookTypes DEF Books
<1>1. /\ pc[t] = "again" /\ Allowed' = Allowed /\ Allowed \in Nat
      /\ UNCHANGED Told
  <2>1. pc[t] = "again" /\ UNCHANGED Told
    BY DEF RetryOrGiveUp, history, Told
  <2>2. QED
    BY <2>1, AllowedIsNumber DEF Allowed, Told
<1>2. /\ "health" \in InFlush /\ "again" \in InFlush /\ "idle" \notin InFlush
  BY DEF InFlush
<1>3. CASE tries[t] < RetryLimit
  <2>1. /\ Goto(t, "health") /\ tries' = [tries EXCEPT ![t] = @ + 1]
        /\ count' = [count EXCEPT !.store_retries = @ + 1]
    BY <1>3 DEF RetryOrGiveUp, Counted, Bumped
  <2>2. /\ count'.store_retries = count.store_retries + 1
        /\ count'.flushes = count.flushes /\ count'.store_errors = count.store_errors
    BY <2>1, Fields DEF Types
  <2>3. Flying' = Flying /\ Refused' = Refused - 1 /\ Landed' = Landed
    BY <1>1, <1>2, <2>1, BookMoves
  <2>4. Cardinality(Chances(pc', tries')) + 1 <= Cardinality(Chances(pc, tries))
    <3>1. Moved(pc, pc', t, "health") /\ Moved(tries, tries', t, tries[t] + 1)
      BY <2>1, BookMoves DEF Moved
    <3>2. /\ tries' \in [Threads -> Nat] /\ tries'[t] <= RetryLimit
          /\ pc[t] \in InFlush
      BY <1>1, <1>2, <1>3, <2>1, MockAssumption
    <3>3. QED
      BY <3>1, <3>2, ChancesMove
  <2>5. Cardinality(Chances(pc', tries')) \in Nat /\ tries' \in [Threads -> Nat]
    BY <2>1, ChancesAreFinite
  <2>6. QED
    BY <1>1, <2>2, <2>3, <2>4, <2>5 DEF Told
<1>4. CASE ~(tries[t] < RetryLimit)
  <2>1. /\ Goto(t, "idle") /\ tries' = tries
        /\ count' = [count EXCEPT !.store_errors = @ + 1]
    BY <1>4 DEF RetryOrGiveUp, Counted, Bumped
  <2>2. /\ count'.store_errors = count.store_errors + 1
        /\ count'.flushes = count.flushes /\ count'.store_retries = count.store_retries
    BY <2>1, Fields DEF Types
  <2>3. Flying' = Flying - 1 /\ Refused' = Refused - 1 /\ Landed' = Landed
    BY <1>1, <1>2, <2>1, BookMoves
  <2>4. Cardinality(Chances(pc', tries')) <= Cardinality(Chances(pc, tries))
    <3>1. Moved(pc, pc', t, "idle") /\ tries' \in [Threads -> Nat] /\ tries' = tries
      BY <2>1, BookMoves
    <3>2. QED
      BY <1>2, <3>1, ChancesMove
  <2>5. Cardinality(Chances(pc', tries')) \in Nat
    BY ChancesAreFinite
  <2>6. QED
    BY <1>1, <2>1, <2>2, <2>3, <2>4, <2>5 DEF Told
<1>5. QED
  BY <1>3, <1>4

(* The end of a flush (record_flush, or a checkpoint that fails), counted  *)
(* in persisted_batches before.                                            *)
LEMMA EndKeepsBooks ==
  ASSUME Types, Books, NEW t \in Threads,
         CountBatch(t) \/ RecordFlush(t) \/ CheckpointFails(t)
  PROVE  Books'
<1> USE BookTypes DEF Books
<1>1. /\ "count" \in InFlush /\ "flushed" \in InFlush
      /\ "records" \notin InFlush /\ "idle" \notin InFlush
  BY DEF InFlush
<1>2. UNCHANGED <<tries, begun, rejected, unlogged>> /\ Allowed' = Allowed
  BY DEF CountBatch, RecordFlush, CheckpointFails, locals, history, Allowed
<1>3. ASSUME NEW l, Goto(t, l), pc[t] \in InFlush
      PROVE  /\ Cardinality(Chances(pc', tries')) <= Cardinality(Chances(pc, tries))
             /\ Cardinality(Chances(pc', tries')) \in Nat
  <2>1. Moved(pc, pc', t, l) /\ tries' \in [Threads -> Nat] /\ tries' = tries
    BY <1>2, <1>3, BookMoves
  <2>2. QED
    BY <1>3, <2>1, ChancesMove, ChancesAreFinite
<1>a. Allowed \in Nat
  BY AllowedIsNumber
<1>4. CASE CountBatch(t)
  <2>1. /\ pc[t] = "count" /\ Goto(t, "flushed") /\ persisted' = persisted + 1
        /\ UNCHANGED <<count, unrecorded>>
    BY <1>4 DEF CountBatch
  <2>2. Flying' = Flying /\ Refused' = Refused /\ Landed' = Landed + 1
    BY <1>1, <2>1, BookMoves
  <2>3. /\ Cardinality(Chances(pc', tries')) <= Cardinality(Chances(pc, tries))
        /\ Cardinality(Chances(pc', tries')) \in Nat
    BY <1>1, <1>3, <2>1
  <2>4. count.store_retries + Cardinality(Chances(pc', tries')) <= Allowed'
    BY <1>2, <1>a, <2>3
  <2>5. QED
    BY <1>2, <2>1, <2>2, <2>4
<1>5. CASE RecordFlush(t)
  <2>1. /\ pc[t] = "flushed" /\ Goto(t, "records")
        /\ count' = [count EXCEPT !.flushes = @ + 1]
        /\ UNCHANGED <<persisted, unrecorded>>
    BY <1>5 DEF RecordFlush, Counted, Bumped, history
  <2>2. /\ count'.flushes = count.flushes + 1
        /\ count'.store_errors = count.store_errors
        /\ count'.store_retries = count.store_retries
    BY <2>1, Fields DEF Types
  <2>3. Flying' = Flying - 1 /\ Refused' = Refused /\ Landed' = Landed - 1
    BY <1>1, <2>1, BookMoves
  <2>4. /\ Cardinality(Chances(pc', tries')) <= Cardinality(Chances(pc, tries))
        /\ Cardinality(Chances(pc', tries')) \in Nat
    BY <1>1, <1>3, <2>1
  <2>5. count'.store_retries + Cardinality(Chances(pc', tries')) <= Allowed'
    BY <1>2, <1>a, <2>2, <2>4
  <2>6. begun' = count'.flushes + count'.store_errors + unrecorded' + Flying'
    BY <1>2, <2>1, <2>2, <2>3
  <2>7. rejected' = count'.store_retries + count'.store_errors - unlogged' + Refused'
    BY <1>2, <2>2, <2>3
  <2>8. count'.flushes + Landed' <= persisted'
    BY <2>1, <2>2, <2>3
  <2>9. QED
    BY <1>2, <2>1, <2>5, <2>6, <2>7, <2>8
<1>6. CASE CheckpointFails(t)
  <2>1. /\ pc[t] = "flushed" /\ Goto(t, "idle") /\ unrecorded' = unrecorded + 1
        /\ UNCHANGED <<persisted, count>>
    BY <1>6 DEF CheckpointFails
  <2>2. Flying' = Flying - 1 /\ Refused' = Refused /\ Landed' = Landed - 1
    BY <1>1, <2>1, BookMoves
  <2>3. /\ Cardinality(Chances(pc', tries')) <= Cardinality(Chances(pc, tries))
        /\ Cardinality(Chances(pc', tries')) \in Nat
    BY <1>1, <1>3, <2>1
  <2>4. count.store_retries + Cardinality(Chances(pc', tries')) <= Allowed'
    BY <1>2, <1>a, <2>3
  <2>5. QED
    BY <1>2, <2>1, <2>2, <2>4
<1>7. QED
  BY <1>4, <1>5, <1>6

LEMMA BooksNext ==
  ASSUME Types, Books, [Next]_vars
  PROVE  Books'
<1> USE DEF Reported, Told
<1>1. CASE Test
  <2>1. UNCHANGED <<Reported, Told, tries, pc>>
    BY <1>1 DEF Test, SetHealthy, FailNextBatches, locals, history
  <2>2. QED
    BY <2>1, StillKeepsBooks
<1>2. ASSUME NEW t \in Threads, LogFails(t) \/ \E b \in Batches : Log(t, b)
      PROVE  Books'
  BY <1>2, BeginningKeepsBooks
<1>3. ASSUME NEW t \in Threads, RetryOrGiveUp(t)
      PROVE  Books'
  BY <1>3, DecisionKeepsBooks
<1>4. ASSUME NEW t \in Threads, PersistBatch(t)
      PROVE  Books'
  <2> DEFINE stays == UNCHANGED <<Reported, Told, tries>>
             moves(l) == /\ Goto(t, l)
                         /\ l \in InFlush \ {"again", "flushed"}
                         /\ pc[t] \in InFlush \ {"again", "flushed"}
             rejects == /\ Rejected(t) /\ pc[t] \in InFlush \ {"again", "flushed"}
                        /\ UNCHANGED <<Reported, tries, begun, unrecorded, unlogged,
                                       persisted>>
  <2>1. ASSUME stays, NEW l, moves(l)
        PROVE  Books'
    BY <2>1, QuietKeepsBooks
  <2>2. CASE CheckHealth(t)
    <3>1. rejects \/ (stays /\ moves("countdown"))
      BY <2>2 DEF CheckHealth, locals, InFlush
    <3>2. QED
      BY <2>1, <3>1, RejectionKeepsBooks
  <2>3. CASE CountDown(t)
    <3>1. rejects \/ (stays /\ moves("number"))
      BY <2>3 DEF CountDown, locals, InFlush
    <3>2. QED
      BY <2>1, <3>1, RejectionKeepsBooks
  <2>4. CASE NumberAttempt(t)
    <3>1. stays /\ moves("period")
      BY <2>4 DEF NumberAttempt, history, InFlush
    <3>2. QED
      BY <2>1, <3>1
  <2>5. CASE CheckPeriod(t)
    <3>1. rejects \/ (stays /\ moves("upsert"))
      BY <2>5 DEF CheckPeriod, locals, InFlush
    <3>2. QED
      BY <2>1, <3>1, RejectionKeepsBooks
  <2>6. CASE Upsert(t)
    <3>1. stays /\ moves("count")
      BY <2>6 DEF Upsert, locals, history, InFlush
    <3>2. QED
      BY <2>1, <3>1
  <2>7. CASE CountBatch(t)
    BY <2>7, EndKeepsBooks
  <2>8. QED
    BY <1>4, <2>2, <2>3, <2>4, <2>5, <2>6, <2>7 DEF PersistBatch
<1>5. ASSUME NEW t \in Threads, Report(t)
      PROVE  Books'
  <2> DEFINE outside(l) == l \notin InFlush /\ l # "again" /\ l # "flushed"
             passes(l) == /\ UNCHANGED <<Reported, Told, tries>>
                          /\ Goto(t, l) /\ outside(l) /\ outside(pc[t])
  <2>1. ASSUME NEW l, passes(l)
        PROVE  Books'
    BY <2>1, QuietKeepsBooks
  <2>l. \A g \in Gauges : outside(Load[g]) /\ outside(Swap[g])
    BY DEF Gauges, Load, Swap, InFlush
  <2>m. outside("idle") /\ outside("sum") /\ outside("records")
    BY DEF InFlush
  <2>g. "max_flush_nanos" \in Gauges /\ "max_submit_nanos" \in Gauges
    BY DEF Gauges
  <2>2. CASE RecordFlush(t) \/ CheckpointFails(t)
    BY <2>2, EndKeepsBooks
  <2>3. CASE RecordRecords(t)
    <3>1. UNCHANGED Reported
      BY <2>3, Fields DEF RecordRecords, Counted, Bumped, Types
    <3>2. passes(Load.max_flush_nanos)
      BY <2>3, <2>l, <2>m, <2>g, <3>1 DEF RecordRecords, locals, history
    <3>3. QED
      BY <2>1, <3>2
  <2>4. CASE RecordDropped(t)
    <3>1. UNCHANGED Reported
      BY <2>4, Fields DEF RecordDropped, Counted, Bumped, Types
    <3>2. QED
      BY <2>4, <3>1, StillKeepsBooks DEF RecordDropped, locals, history
  <2>5. CASE AddSum(t)
    <3>1. UNCHANGED Reported
      BY <2>5, Fields DEF AddSum, Counted, Bumped, Types
    <3>2. passes(Load.max_submit_nanos)
      BY <2>5, <2>l, <2>m, <2>g, <3>1 DEF AddSum, locals, history
    <3>3. QED
      BY <2>1, <3>2
  <2>6. ASSUME NEW n \in Nanos, RecordEnqueued(t, n)
        PROVE  Books'
    <3>1. UNCHANGED Reported
      BY <2>6, Fields DEF RecordEnqueued, Counted, Bumped, Types
    <3>2. passes("sum")
      BY <2>6, <2>m, <3>1 DEF RecordEnqueued, history
    <3>3. QED
      BY <2>1, <3>2
  <2>7. ASSUME NEW g \in Gauges, LoadGauge(t, g)
        PROVE  Books'
    <3>1. passes(Swap[g])
      BY <2>7, <2>l DEF LoadGauge, history
    <3>2. QED
      BY <2>1, <3>1
  <2>8. ASSUME NEW g \in Gauges, SwapGauge(t, g)
        PROVE  Books'
    <3>1. UNCHANGED Reported
      <4>1. g \notin Counters
        BY Fields
      <4>2. UNCHANGED <<count.flushes, count.store_errors, count.store_retries>>
        BY <2>8, <4>1, Fields DEF SwapGauge, Types
      <4>3. QED
        BY <4>2
    <3>2. CASE UNCHANGED pc
      BY <2>8, <3>1, <3>2, StillKeepsBooks DEF SwapGauge
    <3>3. CASE Goto(t, "idle")
      <4>1. passes("idle")
        BY <2>8, <2>l, <2>m, <3>1, <3>3 DEF SwapGauge
      <4>2. QED
        BY <2>1, <4>1
    <3>4. QED
      BY <2>8, <3>2, <3>3 DEF SwapGauge
  <2>9. QED
    BY <1>5, <2>2, <2>3, <2>4, <2>5, <2>6, <2>7, <2>8 DEF Report
<1>6. CASE UNCHANGED vars
  <2>1. UNCHANGED <<Reported, Told, tries, pc>>
    BY <1>6 DEF vars, locals, history
  <2>2. QED
    BY <2>1, StillKeepsBooks
<1>7. QED
  BY <1>1, <1>2, <1>3, <1>4, <1>5, <1>6 DEF Next

(* The counters of metrics.rs account for every flush, however the threads *)
(* interleave their relaxed increments.                                    *)
THEOREM EveryFlushAccounted == Spec => []Accounted
<1>1. Init => Books
  <2> SUFFICES ASSUME Init
               PROVE  Books
    OBVIOUS
  <2>1. /\ At(pc, InFlush) = {} /\ At(pc, {"again"}) = {} /\ At(pc, {"flushed"}) = {}
        /\ Chances(pc, tries) = {}
    BY DEF Init, At, Chances, InFlush
  <2>2. Cardinality({}) = 0
    BY FS_EmptySet
  <2>3. /\ count.flushes = 0 /\ count.store_errors = 0 /\ count.store_retries = 0
    BY Fields DEF Init
  <2>4. ASSUME NEW k \in Nat
        PROVE  0 * k = 0
    OBVIOUS
  <2>5. RetryLimit - 1 \in Nat
    BY MockAssumption
  <2>6. begun = 0 /\ Allowed = 0
    BY <2>4, <2>5 DEF Init, Allowed
  <2>7. tries \in [Threads -> Nat]
    BY DEF Init
  <2>8. QED
    BY <2>1, <2>2, <2>3, <2>6, <2>7 DEF Init, Books, Flying, Refused, Landed
<1>2. Types /\ Books /\ [Next]_vars => Books'
  BY BooksNext
<1>3. Types /\ Books => Accounted
  <2> SUFFICES ASSUME Types, Books
               PROVE  Accounted
    OBVIOUS
  <2>1. count.store_retries <= begun * (RetryLimit - 1)
    <3>1. Allowed \in Nat
      BY AllowedIsNumber DEF Books
    <3>2. count.store_retries <= Allowed
      BY <3>1, BookTypes DEF Books
    <3>3. QED
      BY <3>2 DEF Allowed
  <2>2. ASSUME Resting
        PROVE  Flying = 0 /\ Refused = 0
    <3>1. At(pc, InFlush) = {} /\ At(pc, {"again"}) = {}
      BY <2>2 DEF Resting, At, InFlush
    <3>2. QED
      BY <3>1, FS_EmptySet DEF Flying, Refused
  <2>3. ASSUME Resting
        PROVE  /\ begun = count.flushes + count.store_errors + unrecorded
               /\ rejected = count.store_retries + count.store_errors - unlogged
               /\ count.flushes <= persisted
    BY <2>2, <2>3, BookTypes DEF Books
  <2>4. QED
    BY <2>1, <2>3 DEF Accounted
<1>4. QED
  BY <1>1, <1>2, <1>3, TypesAlways, PTL DEF Spec
=============================================================================
