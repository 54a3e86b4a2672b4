----------------------------- MODULE MockStore -----------------------------
(***************************************************************************)
(* Several flushers at one MockDb (src/src/store.rs): each call of         *)
(* persist_batch goes through the fault knobs one atomic at a time while a *)
(* test thread sets them, inside the retry loops of src/src/worker.rs and  *)
(* src/src/api.rs, which report to the counters of src/src/metrics.rs one  *)
(* relaxed atomic at a time.  The latency knob only takes time, and is     *)
(* left out; the log is reduced to whether its calls succeed.              *)
(***************************************************************************)
EXTENDS Cache

CONSTANTS
  Worker, Callers, \* the flush worker and the threads that call the engine
  Batches,         \* sets of states a flusher may have taken
  Nanos,           \* times a call may take
  RetryLimit,      \* config.store_retry_limit
  ArmedCounts,     \* what the test thread passes to fail_next_batches
  Periods,         \* what fail_every may be set to before the flushers start
  Budget           \* bounds: [flush, submit, knob, wal] occurrences

Threads  == Callers \union {Worker}
Gauges   == {"max_submit_nanos", "max_flush_nanos"}
Counters == {"submits_enqueued", "submits_dropped", "sum_submit_nanos",
             "flushes", "records_flushed", "wal_appends", "wal_records",
             "store_errors", "store_retries"}

ASSUME MockAssumption ==
  /\ IsFiniteSet(Callers) /\ Worker \notin Callers /\ RetryLimit \in Nat \ {0}
  /\ \A b \in Batches :
       /\ IsFiniteSet(b) /\ b \subseteq [id : Ids, ver : Nat, val : Nat]
       /\ \A r, s \in b : r.id = s.id => r = s    \* take_dirty, one per id
  /\ None \notin [ver : Nat, val : Nat]
  /\ Nanos \subseteq Nat /\ ArmedCounts \subseteq Nat /\ Periods \subseteq Nat
  /\ Budget \in [{"flush", "submit", "knob", "wal"} -> Nat]

VARIABLES
  table,               \* MockDb.table
  healthy, failNext, failEvery, attempts, persisted,
  count,               \* Metrics, gauges included
  pc, batch,           \* next step of each thread; the batch it flushes
  tries,               \* attempt of the retry loop
  number,              \* the attempt number fetch_add answered
  nanos, current,      \* fetch_max: value, and what the gauge was seen to hold
  left,                \* what is left of Budget
  \* History variables, not in the code:
  armed, injected,     \* last fail_next_batches, and failures injected since
  periodic,            \* periodic failures so far
  counted,             \* states of the batches counted in persisted
  settled,             \* gauge -> highest value whose fetch_max has returned
  begun, unrecorded,   \* flushes begun; flushes that ended in no counter
  rejected, unlogged   \* Err answers of the store; errors the log caused

knobs   == <<healthy, failNext, failEvery>>
locals  == <<batch, tries, number, nanos, current>>
history == <<armed, injected, periodic, counted, settled, begun, unrecorded,
             rejected, unlogged>>
vars == <<table, knobs, attempts, persisted, count, pc, locals, left, history>>

(* Program counters of fetch_max, one pair per gauge.                      *)
Load == [max_submit_nanos |-> "load_submit", max_flush_nanos |-> "load_flush"]
Swap == [max_submit_nanos |-> "swap_submit", max_flush_nanos |-> "swap_flush"]

Goto(t, label) == pc' = [pc EXCEPT ![t] = label]
Spend(what)    == left[what] > 0 /\ left' = [left EXCEPT ![what] = @ - 1]
Bumped(c, field, n) == [c EXCEPT ![field] = @ + n]
Counted(field, n)   == count' = Bumped(count, field, n)

Init ==
  /\ table = EmptyTable
  /\ healthy = TRUE /\ failNext = 0 /\ failEvery \in Periods
  /\ attempts = 0 /\ persisted = 0
  /\ count = [f \in Counters \union Gauges |-> 0]
  /\ pc = [t \in Threads |-> "idle"]
  /\ batch = [t \in Threads |-> {}]
  /\ tries = [t \in Threads |-> 0] /\ number = [t \in Threads |-> 0]
  /\ nanos = [t \in Threads |-> 0] /\ current = [t \in Threads |-> 0]
  /\ left = Budget
  /\ armed = 0 /\ injected = 0 /\ periodic = 0 /\ counted = {}
  /\ settled = [g \in Gauges |-> 0]
  /\ begun = 0 /\ unrecorded = 0 /\ rejected = 0 /\ unlogged = 0

-----------------------------------------------------------------------------
(* The test thread                                                         *)

SetHealthy ==
  /\ Spend("knob")
  /\ healthy' = ~healthy
  /\ UNCHANGED <<table, failNext, failEvery, attempts, persisted, count, pc,
                 locals, history>>

(* Overwrites what was armed before.                                       *)
FailNextBatches(n) ==
  /\ Spend("knob")
  /\ failNext' = n
  /\ armed' = n /\ injected' = 0
  /\ UNCHANGED <<table, healthy, failEvery, attempts, persisted, count, pc,
                 locals, periodic, counted, settled, begun, unrecorded, rejected,
                 unlogged>>

-----------------------------------------------------------------------------
(* flush_batch and flush_states around the store                           *)

(* append_batch answers: the worker counts its error, flush_now does not.  *)
Log(t, b) ==
  /\ pc[t] = "idle" /\ Spend("flush")
  /\ begun' = begun + 1
  /\ batch' = [batch EXCEPT ![t] = b] /\ tries' = [tries EXCEPT ![t] = 1]
  /\ count' = Bumped(Bumped(count, "wal_appends", 1), "wal_records", Cardinality(b))
  /\ Goto(t, "health")
  /\ UNCHANGED <<table, knobs, attempts, persisted, number, nanos, current, armed,
                 injected, periodic, counted, settled, unrecorded, rejected,
                 unlogged>>

LogFails(t) ==
  /\ pc[t] = "idle" /\ Spend("wal")
  /\ begun' = begun + 1
  /\ IF t = Worker
     THEN Counted("store_errors", 1) /\ unlogged' = unlogged + 1 /\ UNCHANGED unrecorded
     ELSE unrecorded' = unrecorded + 1 /\ UNCHANGED <<count, unlogged>>
  /\ UNCHANGED <<table, knobs, attempts, persisted, pc, locals, armed, injected,
                 periodic, counted, settled, rejected>>

(* An Err answer of the store: both loops retry while attempts are left.   *)
Rejected(t) == rejected' = rejected + 1 /\ Goto(t, "again")

(* Mutant: the last rejection is counted as a retry, and one more is made. *)
RetriesOnceMore(t) ==
  /\ pc[t] = "again"
  /\ IF tries[t] <= RetryLimit
     THEN /\ Counted("store_retries", 1)
          /\ tries' = [tries EXCEPT ![t] = @ + 1]
          /\ Goto(t, "health")
     ELSE /\ Counted("store_errors", 1)
          /\ UNCHANGED tries
          /\ Goto(t, "idle")
  /\ UNCHANGED <<table, knobs, attempts, persisted, batch, number, nanos, current,
                 left, history>>

RetryOrGiveUp(t) ==
  /\ pc[t] = "again"
  /\ IF tries[t] < RetryLimit
     THEN /\ Counted("store_retries", 1)
          /\ tries' = [tries EXCEPT ![t] = @ + 1]
          /\ Goto(t, "health")
     ELSE /\ Counted("store_errors", 1)
          /\ UNCHANGED tries
          /\ Goto(t, "idle")
  /\ UNCHANGED <<table, knobs, attempts, persisted, batch, number, nanos, current,
                 left, history>>

-----------------------------------------------------------------------------
(* persist_batch                                                           *)

CheckHealth(t) ==
  /\ pc[t] = "health"
  /\ IF healthy THEN Goto(t, "countdown") /\ UNCHANGED rejected ELSE Rejected(t)
  /\ UNCHANGED <<table, knobs, attempts, persisted, count, locals, left, armed,
                 injected, periodic, counted, settled, begun, unrecorded, unlogged>>

(* Mutant: a load and a store in place of fetch_update.                    *)
CountDownInTwo(t) ==
  /\ \/ /\ pc[t] = "countdown"
        /\ number' = [number EXCEPT ![t] = failNext]
        /\ Goto(t, IF failNext > 0 THEN "countdown2" ELSE "number")
        /\ UNCHANGED <<failNext, injected, rejected>>
     \/ /\ pc[t] = "countdown2"
        /\ failNext' = number[t] - 1
        /\ injected' = injected + 1
        /\ Rejected(t)
        /\ UNCHANGED number
  /\ UNCHANGED <<table, healthy, failEvery, attempts, persisted, count, batch,
                 tries, nanos, current, left, armed, periodic, counted, settled,
                 begun, unrecorded, unlogged>>

(* fetch_update: consume one armed failure, if any.                        *)
CountDown(t) ==
  /\ pc[t] = "countdown"
  /\ IF failNext > 0
     THEN failNext' = failNext - 1 /\ injected' = injected + 1 /\ Rejected(t)
     ELSE Goto(t, "number") /\ UNCHANGED <<failNext, injected, rejected>>
  /\ UNCHANGED <<table, healthy, failEvery, attempts, persisted, count, locals,
                 left, armed, periodic, counted, settled, begun, unrecorded,
                 unlogged>>

(* Mutant: the number is taken from the counter after another thread may   *)
(* have moved it.                                                          *)
NumberReread(t) ==
  /\ \/ /\ pc[t] = "number"
        /\ attempts' = attempts + 1
        /\ Goto(t, "reread")
        /\ UNCHANGED number
     \/ /\ pc[t] = "reread"
        /\ number' = [number EXCEPT ![t] = attempts]
        /\ Goto(t, "period")
        /\ UNCHANGED attempts
  /\ UNCHANGED <<table, knobs, persisted, count, batch, tries, nanos, current, left,
                 history>>

(* attempts.fetch_add                                                      *)
NumberAttempt(t) ==
  /\ pc[t] = "number"
  /\ attempts' = attempts + 1
  /\ number' = [number EXCEPT ![t] = attempts + 1]
  /\ Goto(t, "period")
  /\ UNCHANGED <<table, knobs, persisted, count, batch, tries, nanos, current, left,
                 history>>

Due(n) == failEvery > 0 /\ n % failEvery = 0

CheckPeriod(t) ==
  /\ pc[t] = "period"
  /\ IF Due(number[t])
     THEN periodic' = periodic + 1 /\ Rejected(t)
     ELSE Goto(t, "upsert") /\ UNCHANGED <<periodic, rejected>>
  /\ UNCHANGED <<table, knobs, attempts, persisted, count, locals, left, armed,
                 injected, counted, settled, begun, unrecorded, unlogged>>

(* Mutant: the batch is counted before it is in the table.                 *)
CountThenUpsert(t) ==
  /\ \/ /\ pc[t] = "upsert"
        /\ persisted' = persisted + 1
        /\ counted' = counted \union batch[t]
        /\ Goto(t, "late")
        /\ UNCHANGED table
     \/ /\ pc[t] = "late"
        /\ table' = Upserted(table, batch[t])
        /\ Goto(t, "flushed")
        /\ UNCHANGED <<persisted, counted>>
  /\ UNCHANGED <<knobs, attempts, count, locals, left, armed, injected, periodic,
                 settled, begun, unrecorded, rejected, unlogged>>

Upsert(t) ==
  /\ pc[t] = "upsert"
  /\ table' = Upserted(table, batch[t])
  /\ Goto(t, "count")
  /\ UNCHANGED <<knobs, attempts, persisted, count, locals, left, history>>

CountBatch(t) ==
  /\ pc[t] = "count"
  /\ persisted' = persisted + 1
  /\ counted' = counted \union batch[t]
  /\ Goto(t, "flushed")
  /\ UNCHANGED <<table, knobs, attempts, count, locals, left, armed, injected,
                 periodic, settled, begun, unrecorded, rejected, unlogged>>

-----------------------------------------------------------------------------
(* Metrics                                                                 *)

(* record_flush, after a checkpoint the worker ignores the outcome of.     *)
RecordFlush(t) ==
  /\ pc[t] = "flushed"
  /\ \E n \in Nanos : nanos' = [nanos EXCEPT ![t] = n]
  /\ Counted("flushes", 1)
  /\ Goto(t, "records")
  /\ UNCHANGED <<table, knobs, attempts, persisted, batch, tries, number, current,
                 left, history>>

(* flush_now returns the error of the checkpoint instead.                  *)
CheckpointFails(t) ==
  /\ pc[t] = "flushed" /\ t # Worker /\ Spend("wal")
  /\ unrecorded' = unrecorded + 1
  /\ Goto(t, "idle")
  /\ UNCHANGED <<table, knobs, attempts, persisted, count, locals, armed, injected,
                 periodic, counted, settled, begun, rejected, unlogged>>

RecordRecords(t) ==
  /\ pc[t] = "records"
  /\ Counted("records_flushed", Cardinality(batch[t]))
  /\ Goto(t, Load.max_flush_nanos)
  /\ UNCHANGED <<table, knobs, attempts, persisted, locals, left, history>>

(* record_submit_enqueued and record_submit_dropped                        *)
RecordEnqueued(t, n) ==
  /\ t \in Callers /\ pc[t] = "idle" /\ Spend("submit")
  /\ Counted("submits_enqueued", 1)
  /\ nanos' = [nanos EXCEPT ![t] = n]
  /\ Goto(t, "sum")
  /\ UNCHANGED <<table, knobs, attempts, persisted, batch, tries, number, current,
                 history>>

RecordDropped(t) ==
  /\ t \in Callers /\ pc[t] = "idle" /\ Spend("submit")
  /\ Counted("submits_dropped", 1)
  /\ UNCHANGED <<table, knobs, attempts, persisted, pc, locals, history>>

AddSum(t) ==
  /\ pc[t] = "sum"
  /\ Counted("sum_submit_nanos", nanos[t])
  /\ Goto(t, Load.max_submit_nanos)
  /\ UNCHANGED <<table, knobs, attempts, persisted, locals, left, history>>

(* fetch_max: load; then compare_exchange while the value is higher.       *)
LoadGauge(t, g) ==
  /\ pc[t] = Load[g]
  /\ current' = [current EXCEPT ![t] = count[g]]
  /\ Goto(t, Swap[g])
  /\ UNCHANGED <<table, knobs, attempts, persisted, count, batch, tries, number,
                 nanos, left, history>>

(* Mutant: a store in place of the compare_exchange.                       *)
SwapBlindly(t, g) ==
  /\ pc[t] = Swap[g]
  /\ count' = IF nanos[t] > current[t] THEN [count EXCEPT ![g] = nanos[t]] ELSE count
  /\ settled' = [settled EXCEPT ![g] = IF nanos[t] > @ THEN nanos[t] ELSE @]
  /\ Goto(t, "idle")
  /\ UNCHANGED <<table, knobs, attempts, persisted, locals, left, armed, injected,
                 periodic, counted, begun, unrecorded, rejected, unlogged>>

(* (a spurious failure of the weak form changes nothing)                   *)
SwapGauge(t, g) ==
  /\ pc[t] = Swap[g]
  /\ \/ /\ nanos[t] <= current[t] \/ current[t] = count[g]
        /\ count' = IF nanos[t] > current[t] THEN [count EXCEPT ![g] = nanos[t]]
                    ELSE count
        /\ settled' = [settled EXCEPT ![g] = IF nanos[t] > @ THEN nanos[t] ELSE @]
        /\ Goto(t, "idle")
        /\ UNCHANGED current
     \/ /\ nanos[t] > current[t] /\ current[t] # count[g]
        /\ current' = [current EXCEPT ![t] = count[g]]
        /\ UNCHANGED <<count, settled, pc>>
  /\ UNCHANGED <<table, knobs, attempts, persisted, batch, tries, number, nanos,
                 left, armed, injected, periodic, counted, begun, unrecorded,
                 rejected, unlogged>>

-----------------------------------------------------------------------------
Test == SetHealthy \/ \E n \in ArmedCounts : FailNextBatches(n)

PersistBatch(t) ==
  \/ CheckHealth(t) \/ CountDown(t) \/ NumberAttempt(t) \/ CheckPeriod(t)
  \/ Upsert(t) \/ CountBatch(t)

Report(t) ==
  \/ RecordFlush(t) \/ RecordRecords(t) \/ CheckpointFails(t)
  \/ RecordDropped(t) \/ AddSum(t) \/ \E n \in Nanos : RecordEnqueued(t, n)
  \/ \E g \in Gauges : LoadGauge(t, g) \/ SwapGauge(t, g)

Next ==
  \/ Test
  \/ \E t \in Threads :
       \/ \E b \in Batches : Log(t, b)
       \/ LogFails(t) \/ RetryOrGiveUp(t) \/ PersistBatch(t) \/ Report(t)

Spec == Init /\ [][Next]_vars

-----------------------------------------------------------------------------
(* Properties                                                              *)

Resting == \A t \in Threads : pc[t] = "idle"

(* fail_next_batches (store.rs: "fail exactly the next N calls"): however  *)
(* many flushers run into the knob at once, the failures injected since it *)
(* was armed and those still armed add up to what was asked for.           *)
ExactlyArmed == injected + failNext = armed

Fetched(t) == pc[t] = "period"

(* fail_every (store.rs: "attempts 3, 6, 9, ... fail"): as many periodic   *)
(* failures as multiples of it among the attempts, those just numbered     *)
(* aside, whichever thread made which attempt.                             *)
PeriodExact ==
  failEvery > 0 =>
    attempts \div failEvery =
      periodic + Cardinality({t \in Threads : Fetched(t) /\ Due(number[t])})

(* persisted_batches (store.rs: "observers that see the bumped counter     *)
(* also see the data"): every state of a counted batch is in the table, or *)
(* a newer one.                                                            *)
CounterShowsData ==
  \A s \in counted : VersionOf(table[s.id]) >= s.ver

(* Last write wins (store.rs: "never regress a newer value"), with batches *)
(* of two flushers arriving in either order.                               *)
NeverRegresses ==
  [][\A i \in Ids : VersionOf(table'[i]) >= VersionOf(table[i])]_vars

(* The peaks (metrics.rs fetch_max): a gauge is never below a value whose  *)
(* recording has returned, whoever lost the compare-exchange.              *)
PeaksHold == \A g \in Gauges : count[g] >= settled[g]

(* The counters (metrics.rs, worker.rs, api.rs) account for every flush:   *)
(* with no call under way, each one begun is a flush or an error, except   *)
(* those flush_now abandons on an error of the log; every rejection of the *)
(* store is a retry or the end of its flush; and the retries stay within   *)
(* the limit.                                                              *)
Accounted ==
  /\ Resting => /\ begun = count.flushes + count.store_errors + unrecorded
                /\ rejected = count.store_retries + count.store_errors - unlogged
                /\ count.flushes <= persisted
  /\ count.store_retries <= begun * (RetryLimit - 1)
=============================================================================
