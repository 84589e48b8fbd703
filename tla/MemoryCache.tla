----------------------------- MODULE MemoryCache -----------------------------
(* The first-level cache (cache.rs): values computed from files, kept while the  *)
(* modification time of the file is the one seen at insertion, first in first    *)
(* out.  One mutex guards the maps, but get() looks at the file between two      *)
(* critical sections, and callers compute a value before they insert it.  The    *)
(* value computed from version n of a file is n.                                 *)
EXTENDS Integers, Functions, Lists

CONSTANTS
  CacheKeys,   \* each stands for its file
  Threads,
  MaxSize,     \* max_size
  MaxTouch     \* bound on changes of files

ASSUME MemoryAssumption == MaxSize \in Nat /\ MaxTouch \in Nat

VARIABLES
  version,     \* key -> version of the file, its modification time, 0 when it is gone
  touched,
  entries,     \* key -> what is cached
  fifo,        \* fifo_order
  tpc, held,   \* thread -> step, and the key and the value or entry it holds
  served       \* the last entry get() returned, with the version of the file then

memVars == <<version, touched, entries, fifo, tpc, held, served>>

\* mtime 0 is None; path: the key has a file_paths entry; late: the file changed between
\* the computation of the value and its insertion (history).
Entry(v, m, p, l) == [value |-> v, mtime |-> m, path |-> p, late |-> l]
None == Entry(-1, 0, FALSE, FALSE)
Cached == {k \in CacheKeys : entries[k] # None}
Free == [key |-> CHOOSE k \in CacheKeys : TRUE, entry |-> None]

MemInit ==
  /\ version = [k \in CacheKeys |-> 1] /\ touched = 1
  /\ entries = [k \in CacheKeys |-> None] /\ fifo = <<>>
  /\ tpc = [t \in Threads |-> "idle"] /\ held = [t \in Threads |-> Free]
  /\ served = [entry |-> None, version |-> 0]

Touch(k) ==
  /\ touched < MaxTouch /\ touched' = touched + 1
  /\ version' \in {[version EXCEPT ![k] = v] : v \in {0, touched + 1}}
  /\ UNCHANGED <<entries, fifo, tpc, held, served>>

Compute(t, k) ==
  /\ tpc[t] = "idle" /\ version[k] # 0
  /\ tpc' = [tpc EXCEPT ![t] = "insert"]
  /\ held' = [held EXCEPT ![t] = [key |-> k, entry |-> Entry(version[k], 0, FALSE, FALSE)]]
  /\ UNCHANGED <<version, touched, entries, fifo, served>>

Idle(t) == tpc' = [tpc EXCEPT ![t] = "idle"] /\ held' = [held EXCEPT ![t] = Free]
Without(k) == /\ entries' = [entries EXCEPT ![k] = None]
              /\ fifo' = Retained(fifo, {k})

\* insert: the old entry goes, then the oldest ones until there is room.  The modification
\* time is read here, not when the value was computed; without a file there is none.
Insert(t, withFile) ==
  LET k == held[t].key
      v == held[t].entry.value
      queue  == Retained(fifo, {k})
      excess == Cardinality(Cached \ {k}) - MaxSize + 1
      gone   == {queue[i] : i \in {j \in DOMAIN queue : j <= excess}}
      stay   == IF excess > 0 THEN SubSeq(queue, excess + 1, Len(queue)) ELSE queue
      new    == Entry(v, IF withFile THEN version[k] ELSE 0, withFile, withFile /\ version[k] # v)
  IN
  /\ tpc[t] = "insert"
  /\ fifo' = IF MaxSize = 0 THEN stay ELSE Append(stay, k)
  /\ entries' = [j \in CacheKeys |-> IF j = k THEN (IF MaxSize > 0 THEN new ELSE None)
                                     ELSE IF j \in gone THEN None ELSE entries[j]]
  /\ Idle(t)
  /\ UNCHANGED <<version, touched, served>>

\* get: the first section; a miss, or an entry without a file, is answered from it.
GetFirst(t, k) ==
  /\ tpc[t] = "idle"
  /\ IF entries[k].path
       THEN /\ tpc' = [tpc EXCEPT ![t] = "check"]
            /\ held' = [held EXCEPT ![t] = [key |-> k, entry |-> entries[k]]]
            /\ UNCHANGED served
       ELSE /\ served' = IF entries[k] = None THEN served
                         ELSE [entry |-> entries[k], version |-> version[k]]
            /\ UNCHANGED <<tpc, held>>
  /\ UNCHANGED <<version, touched, entries, fifo>>

\* Then the file, without the lock.  A file that is gone, or was when the entry came, does
\* not count as changed; a removal takes whatever entry the key has by now.
Outdated(e, v) == e.mtime # 0 /\ v # 0 /\ v # e.mtime
GetCheck(t) ==
  LET k == held[t].key IN
  /\ tpc[t] = "check"
  /\ IF Outdated(held[t].entry, version[k])
       THEN tpc' = [tpc EXCEPT ![t] = "drop"] /\ UNCHANGED <<held, served>>
       ELSE served' = [entry |-> held[t].entry, version |-> version[k]] /\ Idle(t)
  /\ UNCHANGED <<version, touched, entries, fifo>>
GetDrop(t) ==
  /\ tpc[t] = "drop"
  /\ Without(held[t].key) /\ Idle(t)
  /\ UNCHANGED <<version, touched, served>>

Invalidate(k) ==
  /\ entries[k] # None /\ Without(k)
  /\ UNCHANGED <<version, touched, tpc, held, served>>
Clear ==
  /\ fifo # <<>>
  /\ entries' = [k \in CacheKeys |-> None] /\ fifo' = <<>>
  /\ UNCHANGED <<version, touched, tpc, held, served>>

MemNext ==
  \/ \E t \in Threads : \/ GetCheck(t) \/ GetDrop(t)
                        \/ \E b \in BOOLEAN : Insert(t, b)
                        \/ \E k \in CacheKeys : Compute(t, k) \/ GetFirst(t, k)
  \/ \E k \in CacheKeys : Touch(k) \/ Invalidate(k)
  \/ Clear
MemSpec == MemInit /\ [][MemNext]_memVars

------------------------------------------------------------------------------
\* A value that get() returns for a file it knows was computed from the file as it is,
\* whatever threads evict, replace and drop meanwhile; but not if the file is gone, or
\* changed before the value was inserted.  (MemoryCache::get, insert)
ServedFresh ==
  LET e == served.entry IN
  e.mtime # 0 /\ ~e.late /\ served.version # 0 => e.value = served.version

\* The maps under the mutex always tell the same: the queue holds each cached key once and
\* never more than max_size.  (CacheInner)
MapsAgree ==
  Range(fifo) = Cached /\ Len(fifo) = Cardinality(Cached) /\ Len(fifo) <= MaxSize
=============================================================================
