------------------------------ MODULE KvStore -------------------------------
(* The key-value store of scripts: in memory, or in a redb file that one        *)
(* process at a time can open.  Each instance has one mutex.  Any redb call may  *)
(* fail; a transaction that is dropped instead of committed leaves no trace.     *)
EXTENDS Integers, FiniteSets, Functions

CONSTANTS
  Instances,    \* KvStore values, each of a process of its own, all given the same file
  Threads,      \* callers
  Of,           \* thread -> the instance it uses
  Keys, BadKeys,      \* keys that pass the checks of set(), and keys that do not
  Values, BigValues,  \* values, and values larger than MAX_STORE_VALUE_SIZE
  MaxEntries,   \* MAX_STORE_ENTRIES
  MaxOpens, MaxFaults  \* bounds: openings of instances, failing redb calls

ASSUME KvAssumption ==
  /\ Of \in [Threads -> Instances] /\ MaxEntries \in Nat
  /\ "nobody" \notin Threads \cup Instances

VARIABLES
  mode,    \* instance -> "closed", "memory" or "persistent"
  mem,     \* instance -> the HashMap
  file,    \* what is committed in the file
  owner,   \* the instance that has the file open, or "nobody"
  holder,  \* instance -> the thread in the mutex, or "nobody"
  op,      \* thread -> its call and how far it is
  txn,     \* thread -> the contents its write transaction would commit
  done,    \* ghost: what the calls that returned add up to
  blind,   \* ghost: a new key was stored although the entries could not be counted
  opens, faults
kvVars == <<mode, mem, file, owner, holder, op, txn, done, blind, opens, faults>>

Nothing == [k \in {} |-> 0]
Idle == [pc |-> "idle", do |-> "none", key |-> "none", val |-> "none", ok |-> TRUE]
Put(data, k, v) == [x \in DOMAIN data \cup {k} |-> IF x = k THEN v ELSE data[x]]
Drop(data, k)   == Restrict(data, DOMAIN data \ {k})

KvInit ==
  /\ mode = [p \in Instances |-> "closed"]
  /\ mem = [p \in Instances |-> Nothing]
  /\ file = Nothing /\ done = Nothing
  /\ owner = "nobody"
  /\ holder = [p \in Instances |-> "nobody"]
  /\ op = [t \in Threads |-> Idle]
  /\ txn = [t \in Threads |-> Nothing]
  /\ blind = FALSE
  /\ opens = 0 /\ faults = 0

\* with_persistence: whatever goes wrong, also the file being open elsewhere, the
\* instance falls back to memory without telling its caller.
Open(p) ==
  /\ mode[p] = "closed" /\ opens < MaxOpens
  /\ opens' = opens + 1
  /\ \/ /\ owner = "nobody"
        /\ mode' = [mode EXCEPT ![p] = "persistent"]
        /\ owner' = p
        /\ UNCHANGED faults
     \/ /\ owner # "nobody"
        /\ mode' = [mode EXCEPT ![p] = "memory"]
        /\ UNCHANGED <<owner, faults>>
     \/ /\ owner = "nobody" /\ faults < MaxFaults
        /\ faults' = faults + 1
        /\ mode' = [mode EXCEPT ![p] = "memory"]
        /\ UNCHANGED owner
  /\ UNCHANGED <<mem, file, holder, op, txn, done, blind>>

\* The process of an instance ends, at any point.
Leave(p) ==
  /\ mode[p] # "closed"
  /\ mode' = [mode EXCEPT ![p] = "closed"]
  /\ mem' = [mem EXCEPT ![p] = Nothing]
  /\ owner' = IF owner = p THEN "nobody" ELSE owner
  /\ holder' = [holder EXCEPT ![p] = "nobody"]
  /\ op' = [t \in Threads |-> IF Of[t] = p THEN Idle ELSE op[t]]
  /\ txn' = [t \in Threads |-> IF Of[t] = p THEN Nothing ELSE txn[t]]
  /\ UNCHANGED <<file, done, blind, opens, faults>>

------------------------------------------------------------------------------
Invalid(k, v) == k \in BadKeys \/ v \in BigValues
KvCall(t, do, k, v) ==
  /\ mode[Of[t]] # "closed" /\ op[t].pc = "idle"
  /\ do = "set" => ~Invalid(k, v)  \* set() returns before the lock on the others
  /\ op' = [op EXCEPT ![t] = [pc |-> "lock", do |-> do, key |-> k, val |-> v, ok |-> TRUE]]
  /\ UNCHANGED <<mode, mem, file, owner, holder, txn, done, blind, opens, faults>>

MutexFree(t) == holder[Of[t]] = "nobody"
\* The end of a call: the lock goes, and in the file what the call did counts as done.
Return(t, data) ==
  /\ op' = [op EXCEPT ![t] = Idle]
  /\ txn' = [txn EXCEPT ![t] = Nothing]
  /\ holder' = [holder EXCEPT ![Of[t]] = "nobody"]
  /\ done' = data
Count(data, sees) == IF sees THEN Cardinality(DOMAIN data) ELSE 0
\* MUTANT of Full: one entry more than the limit.
MutFull(data, k, findsKey, counts) ==
  (k \notin DOMAIN data \/ ~findsKey) /\ Count(data, counts) > MaxEntries
\* is_new_key and len_unlocked: a failing read makes the key new and the store empty.
Full(data, k, findsKey, counts) ==
  (k \notin DOMAIN data \/ ~findsKey) /\ Count(data, counts) >= MaxEntries

\* set() in memory: check and insert under one lock.
SetMemory(t) ==
  LET p == Of[t]  k == op[t].key IN
  /\ op[t].pc = "lock" /\ op[t].do = "set" /\ mode[p] = "memory" /\ MutexFree(t)
  /\ mem' = IF Full(mem[p], k, TRUE, TRUE) THEN mem
            ELSE [mem EXCEPT ![p] = Put(mem[p], k, op[t].val)]
  /\ Return(t, done)
  /\ UNCHANGED <<mode, file, owner, blind, opens, faults>>

\* set() in the file: the check takes the lock; the transaction follows.
SetCheck(t) ==
  LET p == Of[t]  k == op[t].key IN
  /\ op[t].pc = "lock" /\ op[t].do = "set" /\ mode[p] = "persistent" /\ MutexFree(t)
  /\ \E findsKey, counts \in BOOLEAN :
       /\ ~(findsKey /\ counts) => faults < MaxFaults
       /\ faults' = faults + (IF findsKey /\ counts THEN 0 ELSE 1)
       /\ IF Full(file, k, findsKey, counts)
            THEN Return(t, done) /\ UNCHANGED blind
            ELSE /\ holder' = [holder EXCEPT ![p] = t]
                 /\ op' = [op EXCEPT ![t].pc = "write"]
                 /\ blind' = (blind \/ (k \notin DOMAIN file /\ ~counts))
                 /\ UNCHANGED <<txn, done>>
  /\ UNCHANGED <<mode, mem, file, owner, opens>>

\* delete() and clear() start their transaction at once.
StartWrite(t) ==
  /\ op[t].pc = "lock" /\ op[t].do \in {"delete", "clear"}
  /\ mode[Of[t]] = "persistent" /\ MutexFree(t)
  /\ holder' = [holder EXCEPT ![Of[t]] = t]
  /\ op' = [op EXCEPT ![t].pc = "write"]
  /\ UNCHANGED <<mode, mem, file, owner, txn, done, blind, opens, faults>>

\* What the transaction of a call would commit.
Wanted(t) ==
  IF op[t].do = "set" THEN Put(file, op[t].key, op[t].val)
  ELSE IF op[t].do = "delete" THEN Drop(file, op[t].key) ELSE Nothing
Write(t) ==
  /\ op[t].pc = "write"
  /\ txn' = [txn EXCEPT ![t] = Wanted(t)]
  /\ op' = [op EXCEPT ![t].pc = "commit"]
  /\ UNCHANGED <<mode, mem, file, owner, holder, done, blind, opens, faults>>
\* begin_write or open_table fails, or delete_table in clear(): the call returns.  A
\* failing insert or remove commits a transaction that is empty.
WriteFails(t) ==
  /\ op[t].pc = "write" /\ faults < MaxFaults
  /\ faults' = faults + 1
  /\ \/ Return(t, done)
     \/ /\ op[t].do # "clear"
        /\ txn' = [txn EXCEPT ![t] = file]
        /\ op' = [op EXCEPT ![t].pc = "commit", ![t].ok = FALSE]
        /\ UNCHANGED <<holder, done>>
  /\ UNCHANGED <<mode, mem, file, owner, blind, opens>>

Committed(t) == txn[t]
CommitTxn(t) ==
  /\ op[t].pc = "commit"
  /\ file' = Committed(t)
  /\ Return(t, IF op[t].ok THEN Wanted(t) ELSE done)
  /\ UNCHANGED <<mode, mem, owner, blind, opens, faults>>
CommitFails(t) ==
  /\ op[t].pc = "commit" /\ faults < MaxFaults
  /\ faults' = faults + 1
  /\ Return(t, done)
  /\ UNCHANGED <<mode, mem, file, owner, blind, opens>>

\* delete() and clear() in memory.
ChangeMemory(t) ==
  LET p == Of[t] IN
  /\ op[t].pc = "lock" /\ op[t].do \in {"delete", "clear"} /\ mode[p] = "memory" /\ MutexFree(t)
  /\ mem' = [mem EXCEPT ![p] = IF op[t].do = "clear" THEN Nothing ELSE Drop(@, op[t].key)]
  /\ Return(t, done)
  /\ UNCHANGED <<mode, file, owner, blind, opens, faults>>

KvNext ==
  \/ \E p \in Instances : Open(p) \/ Leave(p)
  \/ \E t \in Threads :
       \/ \E k \in Keys \cup BadKeys, v \in Values \cup BigValues : KvCall(t, "set", k, v)
       \/ \E k \in Keys : KvCall(t, "delete", k, "none")
       \/ KvCall(t, "clear", "none", "none")
       \/ SetMemory(t) \/ SetCheck(t) \/ StartWrite(t) \/ Write(t) \/ WriteFails(t)
       \/ CommitTxn(t) \/ CommitFails(t) \/ ChangeMemory(t)
KvSpec == KvInit /\ [][KvNext]_kvVars

------------------------------------------------------------------------------
\* No interleaving of callers, faults, crashes and restarts takes a store over its limit,
\* except after the entries could not be counted, when the code takes the store for
\* empty.  (set, len_unlocked)
QuotaKept ==
  /\ blind \/ Cardinality(DOMAIN file) <= MaxEntries
  /\ \A p \in Instances : Cardinality(DOMAIN mem[p]) <= MaxEntries

\* Between calls the file holds what the calls that met no fault add up to, in the order
\* of the lock: none is lost in a crash, half done or undone by one that failed; what an
\* instance that fell back to memory stored is in no file.  (set, delete, clear)
FileDurable == (\A p \in Instances : holder[p] = "nobody") => file = done

\* The store stays within its quota and on disk, whoever writes, fails or reopens it.
\* (kv_store.rs)
StoreKept == QuotaKept /\ FileDurable
=============================================================================
