------------------------------- MODULE Cache -------------------------------
(***************************************************************************)
(* The write-behind cache (src/src/cache.rs) and the version rule of the   *)
(* store (src/src/store.rs) as pure operators on their tables.             *)
(*                                                                         *)
(* A cache maps every player id to None or to an entry [ver, val, dirty];  *)
(* a store maps it to None or to a state [ver, val].  The dirty HashSet    *)
(* that the code keeps beside the per-entry bit is the set DirtyIds.  Each *)
(* operator is one critical section of the mutex that guards the table.    *)
(***************************************************************************)
EXTENDS Integers, FiniteSets

CONSTANTS
  Ids,    \* player ids
  None    \* the absent entry

ASSUME IdsAssumption == IsFiniteSet(Ids)

(* Version of a table slot; every version written is at least 0, so an     *)
(* absent entry loses against any write.                                   *)
VersionOf(e) == IF e = None THEN -1 ELSE e.ver

StateOf(r) == [ver |-> r.ver, val |-> r.val]

Dirtied(r) == [ver |-> r.ver, val |-> r.val, dirty |-> TRUE]

EmptyTable == [i \in Ids |-> None]

(* apply: newer or equal wins and is (re)armed dirty; a stale write leaves *)
(* the entry and its dirty bit alone.                                      *)
Apply(cache, r) ==
  IF r.ver >= VersionOf(cache[r.id])
  THEN [cache EXCEPT ![r.id] = Dirtied(r)]
  ELSE cache

DirtyIds(cache) == {i \in Ids : cache[i] # None /\ cache[i].dirty}

(* take_dirty(max): how many of the dirty ids it chooses (which, is up to   *)
(* HashSet order), the copies it hands out and the table it leaves behind.  *)
IsChoice(cache, ids, max) ==
  LET n == Cardinality(DirtyIds(cache))
  IN  Cardinality(ids) = IF n < max THEN n ELSE max

Copies(cache, ids) ==
  {[id |-> i, ver |-> cache[i].ver, val |-> cache[i].val] : i \in ids}

Cleared(cache, ids) ==
  [i \in Ids |-> IF i \in ids THEN [cache[i] EXCEPT !.dirty = FALSE]
                              ELSE cache[i]]

(* The members of a batch (one state per id) that are at least as new as   *)
(* the slot they would go back to.                                         *)
Current(table, states, i) ==
  {s \in states : s.id = i /\ s.ver >= VersionOf(table[i])}

(* Mutant: the failed batch overwrites whatever took over meanwhile.       *)
RequeuedBlindly(cache, states) ==
  [i \in Ids |-> IF {s \in states : s.id = i} = {} THEN cache[i]
                 ELSE Dirtied(CHOOSE s \in states : s.id = i)]

(* requeue_dirty: put a failed batch back unless a newer write took over.  *)
Requeued(cache, states) ==
  [i \in Ids |-> IF Current(cache, states, i) = {} THEN cache[i]
                 ELSE Dirtied(CHOOSE s \in Current(cache, states, i) : TRUE)]

(* Mutant: the last batch to arrive wins.                                  *)
UpsertedBlindly(store, states) ==
  [i \in Ids |-> IF {s \in states : s.id = i} = {} THEN store[i]
                 ELSE StateOf(CHOOSE s \in states : s.id = i)]

(* persist_batch of the store: upsert, stale states are skipped.           *)
Upserted(store, states) ==
  [i \in Ids |-> IF Current(store, states, i) = {} THEN store[i]
                 ELSE StateOf(CHOOSE s \in Current(store, states, i) : TRUE)]
=============================================================================
