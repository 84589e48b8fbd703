---------------------------- MODULE ScriptProofs ----------------------------
(***************************************************************************)
(* The store of scripts stays within its quota and on disk (StoreKept),    *)
(* and a call is blamed for a limit only if it was cut there (CallJudged), *)
(* for any number of processes, threads, runtimes and callers.             *)
(*                                                                         *)
(* StoreKept is not inductive: a commit replaces the file by what the      *)
(* transaction holds, so the room found when the key was checked must      *)
(* still be there (RoomLeft) and the transaction must have been written    *)
(* from the file it replaces (TxnFresh); both last because the one writer  *)
(* is in the mutex of the one instance that has the file (WriterAlone).    *)
(*                                                                         *)
(* The lists of a configuration stay in order (ListsKept), and config.set  *)
(* sets its key and nothing else (SetExact), for any lists and any tree.   *)
(***************************************************************************)
EXTENDS KvStore, ScriptRuntime, ScriptApi, FunctionTheorems, FiniteSetTheorems, SequenceTheorems,
        WellFoundedInduction, TLAPS

KeysOrNone == Keys \cup BadKeys \cup {"none"}
ValuesOrNone == Values \cup BigValues \cup {"none"}
Ops == [pc : {"idle", "lock", "write", "commit"}, do : {"none", "set", "delete", "clear"},
        key : KeysOrNone, val : ValuesOrNone, ok : BOOLEAN]
KvTypes ==
  /\ mode \in [Instances -> {"closed", "memory", "persistent"}]
  /\ mem = [p \in Instances |-> mem[p]]
  /\ owner \in Instances \cup {"nobody"}
  /\ holder \in [Instances -> Threads \cup {"nobody"}]
  /\ op \in [Threads -> Ops]
  /\ txn = [t \in Threads |-> txn[t]]
  /\ blind \in BOOLEAN

Writing(t) == op[t].pc \in {"write", "commit"}
OneOwner == \A p \in Instances : mode[p] = "persistent" <=> owner = p
WriterAlone == \A t \in Threads : Writing(t) => holder[Of[t]] = t /\ owner = Of[t]
TxnFresh == \A t \in Threads :
  /\ op[t].pc \in {"lock", "write"} => op[t].ok
  /\ op[t].pc = "commit" => txn[t] = IF op[t].ok THEN Wanted(t) ELSE file
Room(data, k) == Cardinality(DOMAIN data \cup {k}) <= MaxEntries
RoomLeft == \A t \in Threads : Writing(t) /\ op[t].do = "set" => blind \/ Room(file, op[t].key)
StoresFinite ==
  IsFiniteSet(DOMAIN file) /\ \A p \in Instances : IsFiniteSet(DOMAIN mem[p])

DoneIsFile == done = file
KvInv == /\ KvTypes /\ OneOwner /\ WriterAlone /\ TxnFresh /\ RoomLeft
         /\ StoresFinite /\ QuotaKept /\ DoneIsFile


------------------------------------------------------------------------------
(* What the operators on stores do to the number of keys. *)

\* Nothing is empty, and both changes of a store leave it finite; an insertion counts
\* as Room says, and a deletion makes room.
LEMMA NothingIsEmpty == DOMAIN Nothing = {} /\ IsFiniteSet({}) /\ Cardinality({}) = 0
  BY FS_EmptySet DEF Nothing

\* A key put into a map of entries leaves it finite.
LEMMA PutCounts ==
    ASSUME NEW data, NEW k, NEW v, IsFiniteSet(DOMAIN data)
    PROVE  IsFiniteSet(DOMAIN Put(data, k, v))
  <1>1. DOMAIN Put(data, k, v) = DOMAIN data \cup {k}
    BY DEF Put
  <1> QED
    BY <1>1, FS_AddElement

\* What Room says of an insertion, and where there is room.
LEMMA PutFits ==
    ASSUME NEW data, NEW k, NEW v, IsFiniteSet(DOMAIN data)
    PROVE  /\ Room(data, k) => Cardinality(DOMAIN Put(data, k, v)) <= MaxEntries
           /\ k \in DOMAIN data /\ Cardinality(DOMAIN data) <= MaxEntries => Room(data, k)
           /\ Cardinality(DOMAIN data) < MaxEntries => Room(data, k)
  <1>1. DOMAIN Put(data, k, v) = DOMAIN data \cup {k}
    BY DEF Put
  <1>2. Cardinality(DOMAIN data \cup {k}) =
          IF k \in DOMAIN data THEN Cardinality(DOMAIN data) ELSE Cardinality(DOMAIN data) + 1
    BY FS_AddElement
  <1>3. Cardinality(DOMAIN data) \in Nat /\ MaxEntries \in Nat
    BY FS_CardinalityType, KvAssumption
  <1>4. Cardinality(DOMAIN data) < MaxEntries => Cardinality(DOMAIN data) + 1 <= MaxEntries
    BY <1>3
  <1>5. CASE k \in DOMAIN data
    BY <1>1, <1>2, <1>3, <1>5 DEF Room
  <1>6. CASE k \notin DOMAIN data
    BY <1>1, <1>2, <1>4, <1>6 DEF Room
  <1> QED
    BY <1>5, <1>6

\* A key taken from a map leaves it finite and no larger.
LEMMA DropCounts ==
    ASSUME NEW data, NEW k, IsFiniteSet(DOMAIN data)
    PROVE  /\ IsFiniteSet(DOMAIN Drop(data, k))
           /\ Cardinality(DOMAIN Drop(data, k)) <= Cardinality(DOMAIN data)
           /\ Cardinality(DOMAIN Drop(data, k)) \in Nat
           /\ Cardinality(DOMAIN data) \in Nat
  <1>1. DOMAIN Drop(data, k) = DOMAIN data \ {k}
    BY DEF Drop, Restrict
  <1> QED
    BY <1>1, FS_Subset, FS_CardinalityType

------------------------------------------------------------------------------
(* The store. *)

\* Initially every store is empty and nobody uses one.
LEMMA KvInitInv == KvInit => KvInv
  <1> SUFFICES ASSUME KvInit PROVE KvInv
    OBVIOUS
  <1> USE KvAssumption
  <1>1. KvTypes /\ OneOwner
    BY DEF KvInit, KvTypes, OneOwner, Ops, Idle, KeysOrNone, ValuesOrNone
  <1>2. \A t \in Threads : op[t].pc = "idle"
    BY DEF KvInit, Idle
  <1>3. WriterAlone /\ TxnFresh /\ RoomLeft
    BY <1>2 DEF WriterAlone, TxnFresh, RoomLeft, Writing
  <1>4. StoresFinite /\ QuotaKept
    BY NothingIsEmpty DEF KvInit, StoresFinite, QuotaKept
  <1> QED
    BY <1>1, <1>3, <1>4 DEF KvInv, KvInit, DoneIsFile

\* A closed instance has no call under way, so opening it disturbs none.
LEMMA OpenPreserves ==
    ASSUME KvInv, NEW p \in Instances, Open(p)
    PROVE  KvInv'
  <1> USE KvAssumption DEF KvInv
  <1>1. KvTypes'
    BY DEF KvTypes, Open
  <1>2. OneOwner'
    BY DEF KvTypes, OneOwner, Open
  <1>3. WriterAlone'
    BY DEF KvTypes, WriterAlone, Writing, Open
  <1>4. TxnFresh' /\ RoomLeft' /\ DoneIsFile'
    BY DEF TxnFresh, Wanted, RoomLeft, Room, Writing, DoneIsFile, Open
  <1>5. StoresFinite' /\ QuotaKept'
    BY DEF StoresFinite, QuotaKept, Open
  <1> QED
    BY <1>1, <1>2, <1>3, <1>4, <1>5

\* The end of a process takes its calls with it; the file and the calls of the other
\* instances stay.
LEMMA LeavePreserves ==
    ASSUME KvInv, NEW p \in Instances, Leave(p)
    PROVE  KvInv'
  <1> USE KvAssumption DEF KvInv
  <1>1. KvTypes'
    <2>1. /\ mode' \in [Instances -> {"closed", "memory", "persistent"}]
          /\ mem' = [q \in Instances |-> mem'[q]]
          /\ owner' \in Instances \cup {"nobody"}
          /\ holder' \in [Instances -> Threads \cup {"nobody"}]
          /\ txn' = [t \in Threads |-> txn'[t]] /\ blind' \in BOOLEAN
      BY DEF KvTypes, Leave
    <2>2. op' \in [Threads -> Ops]
      BY DEF KvTypes, Leave, Ops, Idle, KeysOrNone, ValuesOrNone
    <2> QED
      BY <2>1, <2>2 DEF KvTypes
  <1>2. OneOwner'
    BY DEF KvTypes, OneOwner, Leave
  <1>3. \A t \in Threads : /\ Of[t] = p => op'[t].pc = "idle"
                           /\ Of[t] # p => op'[t] = op[t] /\ txn'[t] = txn[t]
    BY DEF Leave, Idle
  <1>4. WriterAlone'
    BY <1>3 DEF KvTypes, WriterAlone, Writing, Leave
  <1>5. TxnFresh'
    BY <1>3 DEF TxnFresh, Wanted, Leave
  <1>6. RoomLeft' /\ DoneIsFile'
    BY <1>3 DEF RoomLeft, Room, Writing, DoneIsFile, Leave
  <1>7. StoresFinite' /\ QuotaKept'
    <2>1. \A q \in Instances : mem'[q] = mem[q] \/ mem'[q] = Nothing
      BY DEF KvTypes, Leave
    <2> QED
      BY <2>1, NothingIsEmpty DEF StoresFinite, QuotaKept, Leave
  <1> QED
    BY <1>1, <1>2, <1>4, <1>5, <1>6, <1>7

\* A call that is entered waits for the mutex.
LEMMA KvCallPreserves ==
    ASSUME KvInv, NEW t \in Threads, NEW do \in {"set", "delete", "clear"},
           NEW k \in KeysOrNone, NEW v \in ValuesOrNone, KvCall(t, do, k, v)
    PROVE  KvInv'
  <1> USE KvAssumption DEF KvInv
  <1>1. KvTypes'
    BY DEF KvTypes, KvCall, Ops
  <1>2. /\ op'[t].pc = "lock" /\ op'[t].ok
        /\ \A u \in Threads : u # t => op'[u] = op[u]
    BY DEF KvTypes, KvCall
  <1>3. OneOwner' /\ StoresFinite' /\ QuotaKept' /\ DoneIsFile'
    BY DEF OneOwner, StoresFinite, QuotaKept, DoneIsFile, KvCall
  <1>4. WriterAlone' /\ RoomLeft'
    BY <1>2 DEF WriterAlone, RoomLeft, Room, Writing, KvCall
  <1>5. TxnFresh'
    BY <1>2 DEF TxnFresh, Wanted, KvCall
  <1> QED
    BY <1>1, <1>3, <1>4, <1>5

\* How a call returns: its thread is idle and out of the mutex, and the writers of
\* other instances are not disturbed; if it is this thread that had the mutex, or
\* nobody, there is no other writer of this instance.
LEMMA ReturnPreserves ==
    ASSUME KvInv, NEW t \in Threads, NEW data, Return(t, data),
           holder[Of[t]] \in {t, "nobody"}, UNCHANGED <<mode, owner, blind>>,
           file' = file \/ owner = Of[t], mem' = [p \in Instances |-> mem'[p]]
    PROVE  KvTypes' /\ OneOwner' /\ WriterAlone' /\ TxnFresh' /\ RoomLeft'
  <1> USE KvAssumption DEF KvInv
  <1>1. KvTypes'
    <2>1. op' \in [Threads -> Ops]
      BY DEF KvTypes, Return, Ops, Idle, KeysOrNone, ValuesOrNone
    <2>2. holder' \in [Instances -> Threads \cup {"nobody"}] /\ txn' = [u \in Threads |-> txn'[u]]
      BY DEF KvTypes, Return
    <2> QED
      BY <2>1, <2>2 DEF KvTypes
  <1>2. /\ op'[t].pc = "idle" /\ op'[t].ok
        /\ \A u \in Threads : u # t => op'[u] = op[u] /\ txn'[u] = txn[u]
    BY DEF KvTypes, Return, Idle
  <1>3. \A u \in Threads : Writing(u)' =>
          Writing(u) /\ u # t /\ Of[u] # Of[t] /\ holder'[Of[u]] = u /\ owner # Of[t]
    <2> SUFFICES ASSUME NEW u \in Threads, Writing(u)'
                 PROVE  Writing(u) /\ u # t /\ Of[u] # Of[t] /\ holder'[Of[u]] = u /\ owner # Of[t]
      OBVIOUS
    <2>1. u # t /\ Writing(u)
      BY <1>2 DEF Writing
    <2>2. holder[Of[u]] = u /\ owner = Of[u]
      BY <2>1 DEF WriterAlone
    <2>3. Of[u] # Of[t]
      BY <2>1, <2>2
    <2>4. holder'[Of[u]] = holder[Of[u]]
      BY <2>3 DEF KvTypes, Return
    <2> QED
      BY <2>1, <2>2, <2>3, <2>4
  <1>4. OneOwner' /\ WriterAlone'
    BY <1>3 DEF OneOwner, WriterAlone
  <1>5. TxnFresh'
    BY <1>2, <1>3 DEF TxnFresh, Wanted, Writing
  <1>6. RoomLeft'
    BY <1>2, <1>3 DEF RoomLeft, Room, Writing
  <1> QED
    BY <1>1, <1>4, <1>5, <1>6

\* Changes of a store in memory, checked and made under one lock.
LEMMA MemoryPreserves ==
    ASSUME KvInv, NEW t \in Threads, SetMemory(t) \/ ChangeMemory(t)
    PROVE  KvInv'
  <1> USE KvAssumption DEF KvInv
  <1> DEFINE p == Of[t]
  <1>1. /\ Return(t, done) /\ UNCHANGED <<mode, file, owner, blind>>
        /\ holder[p] = "nobody" /\ p \in Instances
    BY DEF SetMemory, ChangeMemory, MutexFree
  <1>2. mem' = [q \in Instances |-> mem'[q]] /\ \A q \in Instances : q # p => mem'[q] = mem[q]
    BY DEF KvTypes, SetMemory, ChangeMemory
  <1>3. IsFiniteSet(DOMAIN mem'[p]) /\ Cardinality(DOMAIN mem'[p]) <= MaxEntries
    <2>1. IsFiniteSet(DOMAIN mem[p]) /\ Cardinality(DOMAIN mem[p]) <= MaxEntries
      BY <1>1 DEF StoresFinite, QuotaKept
    <2>2. CASE mem'[p] = mem[p]
      BY <2>1, <2>2
    <2>3. CASE mem'[p] = Nothing
      BY <2>3, NothingIsEmpty
    <2>4. CASE mem'[p] = Drop(mem[p], op[t].key)
      BY <2>1, <2>4, DropCounts
    <2>5. CASE /\ mem'[p] = Put(mem[p], op[t].key, op[t].val)
               /\ ~Full(mem[p], op[t].key, TRUE, TRUE)
      <3>1. op[t].key \in DOMAIN mem[p] \/ Cardinality(DOMAIN mem[p]) < MaxEntries
        BY <2>1, <2>5, FS_CardinalityType DEF Full, Count
      <3> QED
        BY <2>1, <2>5, <3>1, PutCounts, PutFits
    <2>6. \/ mem'[p] = mem[p] \/ mem'[p] = Nothing \/ mem'[p] = Drop(mem[p], op[t].key)
          \/ /\ mem'[p] = Put(mem[p], op[t].key, op[t].val)
             /\ ~Full(mem[p], op[t].key, TRUE, TRUE)
      BY DEF KvTypes, SetMemory, ChangeMemory
    <2> QED
      BY <2>2, <2>3, <2>4, <2>5, <2>6
  <1>4. StoresFinite' /\ QuotaKept'
    BY <1>1, <1>2, <1>3 DEF StoresFinite, QuotaKept
  <1>5. DoneIsFile'
    BY <1>1 DEF DoneIsFile, Return
  <1> QED
    BY <1>1, <1>2, <1>4, <1>5, ReturnPreserves

\* A thread that goes into the mutex of the instance with the file writes alone: it
\* was free, and another writer would be in it.
LEMMA EnterPreserves ==
    ASSUME KvInv, NEW t \in Threads,
           op[t].pc = "lock", mode[Of[t]] = "persistent", MutexFree(t),
           holder' = [holder EXCEPT ![Of[t]] = t],
           op' = [op EXCEPT ![t].pc = "write"],
           UNCHANGED <<mode, mem, file, owner, txn, done>>,
           blind' \in BOOLEAN, blind => blind',
           op[t].do = "set" => blind' \/ Room(file, op[t].key)
    PROVE  KvInv'
  <1> USE KvAssumption DEF KvInv
  <1>1. KvTypes'
    <2>1. [op[t] EXCEPT !.pc = "write"] \in Ops
      BY DEF KvTypes, Ops
    <2> QED
      BY <2>1 DEF KvTypes
  <1>2. /\ op'[t].pc = "write" /\ op'[t].do = op[t].do /\ op'[t].key = op[t].key
        /\ op'[t].ok = op[t].ok /\ \A u \in Threads : u # t => op'[u] = op[u]
    BY DEF KvTypes, Ops
  <1>3. \A u \in Threads : u # t /\ Writing(u) => Of[u] # Of[t]
    BY DEF KvTypes, WriterAlone, MutexFree
  <1>4. OneOwner' /\ DoneIsFile' /\ StoresFinite' /\ QuotaKept'
    BY DEF OneOwner, DoneIsFile, StoresFinite, QuotaKept
  <1>5. WriterAlone'
    <2>1. holder'[Of[t]] = t /\ owner' = Of[t]
      BY DEF KvTypes, OneOwner
    <2>2. \A u \in Threads : u # t /\ Writing(u)' => holder'[Of[u]] = u /\ owner' = Of[u]
      BY <1>2, <1>3 DEF KvTypes, WriterAlone, Writing
    <2> QED
      BY <2>1, <2>2 DEF WriterAlone
  <1>6. TxnFresh'
    BY <1>2 DEF TxnFresh, Wanted
  <1>7. RoomLeft'
    BY <1>2 DEF RoomLeft, Room, Writing
  <1> QED
    BY <1>1, <1>4, <1>5, <1>6, <1>7

\* set() in the file refuses a key when there is no room, or goes on with the room that
\* it found, unless the entries could not be counted.
LEMMA SetCheckPreserves ==
    ASSUME KvInv, NEW t \in Threads, SetCheck(t)
    PROVE  KvInv'
  <1> USE KvAssumption DEF KvInv
  <1> DEFINE k == op[t].key
  <1>1. PICK findsKey, counts \in BOOLEAN :
          IF Full(file, k, findsKey, counts)
            THEN Return(t, done) /\ UNCHANGED blind
            ELSE /\ holder' = [holder EXCEPT ![Of[t]] = t]
                 /\ op' = [op EXCEPT ![t].pc = "write"]
                 /\ blind' = (blind \/ (k \notin DOMAIN file /\ ~counts))
                 /\ UNCHANGED <<txn, done>>
    BY DEF SetCheck
  <1>2. /\ op[t].pc = "lock" /\ mode[Of[t]] = "persistent" /\ MutexFree(t)
        /\ UNCHANGED <<mode, mem, file, owner>>
    BY DEF SetCheck
  <1>3. CASE Full(file, k, findsKey, counts)
    <2>1. Return(t, done) /\ UNCHANGED blind
      BY <1>1, <1>3
    <2>2. KvTypes' /\ OneOwner' /\ WriterAlone' /\ TxnFresh' /\ RoomLeft'
      BY <1>2, <2>1, ReturnPreserves DEF MutexFree, KvTypes
    <2>3. DoneIsFile' /\ StoresFinite' /\ QuotaKept'
      BY <1>2, <2>1 DEF Return, DoneIsFile, StoresFinite, QuotaKept
    <2> QED
      BY <2>2, <2>3
  <1>4. CASE ~Full(file, k, findsKey, counts)
    <2>1. blind' = (blind \/ (k \notin DOMAIN file /\ ~counts))
      BY <1>1, <1>4
    <2>2. blind' \/ Room(file, k)
      <3>1. ASSUME ~blind' PROVE Room(file, k)
        <4>1. ~blind /\ (k \in DOMAIN file \/ counts)
          BY <2>1, <3>1
        <4>2. IsFiniteSet(DOMAIN file) /\ Cardinality(DOMAIN file) <= MaxEntries
          BY <4>1 DEF StoresFinite, QuotaKept
        <4>3. k \notin DOMAIN file => Cardinality(DOMAIN file) < MaxEntries
          BY <1>4, <4>1, <4>2, FS_CardinalityType DEF Full, Count
        <4> QED
          BY <4>2, <4>3, PutFits
      <3> QED
        BY <3>1
    <2>3. blind' \in BOOLEAN /\ (blind => blind')
      BY <2>1 DEF KvTypes
    <2>4. /\ holder' = [holder EXCEPT ![Of[t]] = t]
          /\ op' = [op EXCEPT ![t].pc = "write"] /\ UNCHANGED <<txn, done>>
      BY <1>1, <1>4
    <2> QED
      BY <1>2, <2>2, <2>3, <2>4, EnterPreserves
  <1> QED
    BY <1>3, <1>4

\* delete() and clear() need no room.
LEMMA StartWritePreserves ==
    ASSUME KvInv, NEW t \in Threads, StartWrite(t)
    PROVE  KvInv'
  <1>1. blind' \in BOOLEAN /\ (blind => blind')
    BY DEF KvInv, KvTypes, StartWrite
  <1> QED
    BY <1>1, EnterPreserves DEF StartWrite

\* What a call wants depends on the call and on the file.
LEMMA WantedKept ==
    ASSUME NEW u, file' = file, op'[u].do = op[u].do, op'[u].key = op[u].key,
           op'[u].val = op[u].val
    PROVE  Wanted(u)' = Wanted(u)
  BY DEF Wanted

\* The transaction gets what the call wants, or nothing new when the insert failed.
LEMMA FillPreserves ==
    ASSUME KvInv, NEW t \in Threads, NEW good \in BOOLEAN,
           op[t].pc = "write",
           txn' = [txn EXCEPT ![t] = IF good THEN Wanted(t) ELSE file],
           op' = [op EXCEPT ![t].pc = "commit", ![t].ok = good],
           UNCHANGED <<mode, mem, file, owner, holder, done, blind>>
    PROVE  KvInv'
  <1> USE KvAssumption DEF KvInv
  <1>1. KvTypes'
    <2>1. [op[t] EXCEPT !.pc = "commit", !.ok = good] \in Ops
      BY DEF KvTypes, Ops
    <2> QED
      BY <2>1 DEF KvTypes
  <1>2. /\ op'[t].pc = "commit" /\ op'[t].do = op[t].do /\ op'[t].key = op[t].key
        /\ op'[t].val = op[t].val /\ op'[t].ok = good
        /\ \A u \in Threads : u # t => op'[u] = op[u] /\ txn'[u] = txn[u]
    <2>1. op \in [Threads -> Ops] /\ op[t] \in Ops
      BY DEF KvTypes
    <2>2. /\ op'[t] = [op[t] EXCEPT !.pc = "commit", !.ok = good]
          /\ \A u \in Threads : u # t => op'[u] = op[u]
      BY <2>1
    <2>3. \A u \in Threads : u # t => txn'[u] = txn[u]
      BY DEF KvTypes
    <2> QED
      BY <2>1, <2>2, <2>3 DEF Ops
  <1>3. txn'[t] = IF good THEN Wanted(t) ELSE file
    BY DEF KvTypes
  <1>4. OneOwner' /\ DoneIsFile' /\ StoresFinite' /\ QuotaKept'
    <2>1. OneOwner' /\ DoneIsFile'
      BY DEF OneOwner, DoneIsFile
    <2> QED
      BY <2>1 DEF StoresFinite, QuotaKept
  <1>5. \A u \in Threads : /\ Writing(u)' <=> Writing(u)
                            /\ op'[u].do = op[u].do /\ op'[u].key = op[u].key
    BY <1>2 DEF Writing
  <1>5a. WriterAlone'
    BY <1>5 DEF WriterAlone
  <1>5b. RoomLeft'
    BY <1>5 DEF RoomLeft, Room
  <1>6. TxnFresh'
    <2>1. \A u \in Threads : /\ op'[u].do = op[u].do /\ op'[u].key = op[u].key
                              /\ op'[u].val = op[u].val
      BY <1>2
    <2>2. \A u \in Threads : Wanted(u)' = Wanted(u)
      BY <2>1, WantedKept
    <2> SUFFICES ASSUME NEW u \in Threads
                 PROVE  /\ op'[u].pc \in {"lock", "write"} => op'[u].ok
                        /\ op'[u].pc = "commit" => txn'[u] = IF op'[u].ok THEN Wanted(u)' ELSE file'
      BY DEF TxnFresh
    <2>3. CASE u = t
      BY <1>2, <1>3, <2>2, <2>3
    <2>4. CASE u # t
      <3>1. op'[u] = op[u] /\ txn'[u] = txn[u]
        BY <1>2, <2>4
      <3> QED
        BY <2>2, <3>1 DEF TxnFresh
    <2> QED
      BY <2>3, <2>4
  <1> QED
    BY <1>1, <1>4, <1>5a, <1>5b, <1>6

\* The transaction is written from the file as it is.
LEMMA WritePreserves ==
    ASSUME KvInv, NEW t \in Threads, Write(t)
    PROVE  KvInv'
  <1>1. op[t].ok /\ op' = [op EXCEPT ![t].pc = "commit", ![t].ok = TRUE]
    <2>1. op \in [Threads -> Ops] /\ op[t].ok /\ op[t].ok \in BOOLEAN
      BY DEF KvInv, KvTypes, Ops, TxnFresh, Write
    <2>2. [op[t] EXCEPT !.pc = "commit"] = [op[t] EXCEPT !.pc = "commit", !.ok = TRUE]
      BY <2>1 DEF Ops
    <2>3. /\ op' = [op EXCEPT ![t] = [op[t] EXCEPT !.pc = "commit"]]
          /\ [op EXCEPT ![t].pc = "commit", ![t].ok = TRUE] = [op EXCEPT ![t] = [op[t] EXCEPT !.pc = "commit", !.ok = TRUE]]
      BY <2>1 DEF Write
    <2> QED
      BY <2>1, <2>2, <2>3
  <1> QED
    BY <1>1, FillPreserves DEF Write

\* A failed write: the call ends with what was done before it, or writes nothing.
LEMMA WriteFailsPreserves ==
    ASSUME KvInv, NEW t \in Threads, WriteFails(t)
    PROVE  KvInv'
  <1> USE KvAssumption DEF KvInv
  <1>1. CASE Return(t, done)
    <2>1. holder[Of[t]] = t /\ mem' = [p \in Instances |-> mem'[p]]
      BY DEF WriterAlone, Writing, KvTypes, WriteFails
    <2>2. KvTypes' /\ OneOwner' /\ WriterAlone' /\ TxnFresh' /\ RoomLeft'
      BY <1>1, <2>1, ReturnPreserves DEF WriteFails
    <2>3. DoneIsFile' /\ StoresFinite' /\ QuotaKept'
      BY <1>1 DEF WriteFails, Return, DoneIsFile, StoresFinite, QuotaKept
    <2> QED
      BY <2>2, <2>3
  <1>2. CASE txn' = [txn EXCEPT ![t] = file] /\ UNCHANGED <<holder, done>>
             /\ op' = [op EXCEPT ![t].pc = "commit", ![t].ok = FALSE]
    BY <1>2, FillPreserves DEF WriteFails
  <1> QED
    BY <1>1, <1>2 DEF WriteFails

\* A commit replaces the file by what the call wanted of it, within the room it had
\* found, or by the file itself.
LEMMA CommitPreserves ==
    ASSUME KvInv, NEW t \in Threads, CommitTxn(t)
    PROVE  KvInv'
  <1> USE KvAssumption DEF KvInv
  <1>1. holder[Of[t]] = t /\ owner = Of[t]
    BY DEF WriterAlone, Writing, CommitTxn
  <1>2. mem' = [p \in Instances |-> mem'[p]]
    BY DEF KvTypes, CommitTxn
  <1>3. KvTypes' /\ OneOwner' /\ WriterAlone' /\ TxnFresh' /\ RoomLeft'
    <2>1. PICK data : Return(t, data)
      BY DEF CommitTxn
    <2> QED
      BY <1>1, <1>2, <2>1, ReturnPreserves DEF CommitTxn
  <1>4. /\ file' = IF op[t].ok THEN Wanted(t) ELSE file
        /\ done' = IF op[t].ok THEN Wanted(t) ELSE done
    BY DEF CommitTxn, Committed, Return, TxnFresh
  <1>5. DoneIsFile'
    BY <1>4 DEF DoneIsFile
  <1>6. IsFiniteSet(DOMAIN file') /\ (blind \/ Cardinality(DOMAIN file') <= MaxEntries)
    <2>1. IsFiniteSet(DOMAIN file) /\ (blind \/ Cardinality(DOMAIN file) <= MaxEntries)
      BY DEF StoresFinite, QuotaKept
    <2>2. CASE file' = file
      BY <2>1, <2>2
    <2>3. CASE file' = Nothing
      BY <2>3, NothingIsEmpty
    <2>4. CASE file' = Drop(file, op[t].key)
      BY <2>1, <2>4, DropCounts
    <2>5. CASE op[t].do = "set" /\ file' = Put(file, op[t].key, op[t].val)
      <3>1. blind \/ Room(file, op[t].key)
        BY <2>5 DEF CommitTxn, RoomLeft, Writing
      <3> QED
        BY <2>1, <2>5, <3>1, PutCounts, PutFits
    <2> QED
      BY <1>4, <2>2, <2>3, <2>4, <2>5 DEF Wanted
  <1>7. StoresFinite' /\ QuotaKept'
    BY <1>6 DEF StoresFinite, QuotaKept, CommitTxn
  <1> QED
    BY <1>3, <1>5, <1>7

\* A failed commit leaves the file as it was.
LEMMA CommitFailsPreserves ==
    ASSUME KvInv, NEW t \in Threads, CommitFails(t)
    PROVE  KvInv'
  <1> USE KvAssumption DEF KvInv
  <1>1. holder[Of[t]] = t /\ mem' = [p \in Instances |-> mem'[p]]
    BY DEF WriterAlone, Writing, KvTypes, CommitFails
  <1>2. KvTypes' /\ OneOwner' /\ WriterAlone' /\ TxnFresh' /\ RoomLeft'
    BY <1>1, ReturnPreserves DEF CommitFails
  <1>3. DoneIsFile' /\ StoresFinite' /\ QuotaKept'
    BY DEF CommitFails, Return, DoneIsFile, StoresFinite, QuotaKept
  <1> QED
    BY <1>2, <1>3

\* Every step of the store keeps the invariant.
LEMMA KvStepPreserves == KvInv /\ [KvNext]_kvVars => KvInv'
  <1> SUFFICES ASSUME KvInv, [KvNext]_kvVars PROVE KvInv'
    OBVIOUS
  <1>1. CASE UNCHANGED kvVars
    BY <1>1 DEF kvVars, KvInv, KvTypes, OneOwner, WriterAlone, TxnFresh, RoomLeft, Room,
       Writing, Wanted, StoresFinite, QuotaKept, DoneIsFile
  <1>2. CASE \E p \in Instances : Open(p) \/ Leave(p)
    BY <1>2, OpenPreserves, LeavePreserves
  <1>3. ASSUME NEW t \in Threads,
               \/ \E k \in Keys \cup BadKeys, v \in Values \cup BigValues : KvCall(t, "set", k, v)
               \/ \E k \in Keys : KvCall(t, "delete", k, "none")
               \/ KvCall(t, "clear", "none", "none")
        PROVE  KvInv'
    <2>1. PICK do \in {"set", "delete", "clear"}, k \in KeysOrNone, v \in ValuesOrNone :
            KvCall(t, do, k, v)
      BY <1>3 DEF KeysOrNone, ValuesOrNone
    <2> QED
      BY <2>1, KvCallPreserves
  <1>4. ASSUME NEW t \in Threads,
               \/ SetMemory(t) \/ SetCheck(t) \/ StartWrite(t) \/ Write(t) \/ WriteFails(t)
               \/ CommitTxn(t) \/ CommitFails(t) \/ ChangeMemory(t)
        PROVE  KvInv'
    BY <1>4, MemoryPreserves, SetCheckPreserves, StartWritePreserves, WritePreserves,
       WriteFailsPreserves, CommitPreserves, CommitFailsPreserves
  <1> QED
    BY <1>1, <1>2, <1>3, <1>4 DEF KvNext

\* No interleaving of callers, faults, crashes and restarts takes a store over its
\* quota or leaves anything but the finished calls in the file, however many processes,
\* threads and keys there are.  (kv_store.rs)
THEOREM StoreStaysKept == KvSpec => []StoreKept
  <1>1. KvInv => StoreKept
    BY DEF KvInv, StoreKept, FileDurable, DoneIsFile
  <1> QED
    BY <1>1, KvInitInv, KvStepPreserves, PTL DEF KvSpec

------------------------------------------------------------------------------
(* Calls of scripts.  CallJudged is not inductive: the verdict is read from flags *)
(* that belong to the runtime, so a call that is alone must have had no mate       *)
(* since it started (AloneIsAlone), which keeps what the flags say its own         *)
(* (FlagsOwn) until the verdict is in the call (CallSound).                        *)

FirstOf(added) == SubSeq(added, 1, IF Len(added) < MaxPatches THEN Len(added) ELSE MaxPatches)
Entries == Callers \X Nat
Outcomes == {"none", "returns", "returns early", "throws", "no object", "too large", "cut"}
Cuts == {"no", "timeout", "steps", "recursion"}
Errors == (Outcomes \cup Cuts \cup {"refused", "engine"}) \ {"no", "returns", "returns early"}
Lines == Errors \cup {"said", "succeeded", "truncated"}
Runs == [pc : {"idle", "new", "running", "check", "collect"}, kind : {"execute", "write"},
         steps : Nat, logs : Seq({"said"}), patches : Seq(Entries), ends : Outcomes, cut : Cuts,
         error : Errors, alone : BOOLEAN, added : Seq(Entries)]
Results == [kind : {"none", "execute", "write"}, error : Errors, logs : Seq(Lines),
            patches : Seq(Entries), config : {"none", "main's"}, ends : Outcomes, alone : BOOLEAN, cut : Cuts,
            added : Seq(Entries)]
RtTypes ==
  /\ stepHit \in [Runtimes -> BOOLEAN] /\ recHit \in [Runtimes -> BOOLEAN]
  /\ run \in [Callers -> Runs] /\ result \in [Callers -> Results]
  /\ timedOut \in [Callers -> BOOLEAN] /\ ops \in Nat

Busy(c) == run[c].pc # "idle"
AloneIsAlone == \A c, d \in Callers :
  Busy(c) /\ run[c].alone /\ Busy(d) /\ RuntimeOf[c] = RuntimeOf[d] => c = d
OwnFlags(r, steps, recursion, late) ==
  r.alone /\ r.pc \in {"new", "running", "check"}
    => /\ (steps => r.cut = "steps") /\ (r.cut = "steps" => steps)
       /\ (recursion => r.cut = "recursion") /\ (r.cut = "recursion" => recursion)
       /\ (r.cut = "timeout" => late)
       /\ (r.pc = "new" => r.cut = "no")
FlagsOwn == \A c \in Callers :
  OwnFlags(run[c], stepHit[RuntimeOf[c]], recHit[RuntimeOf[c]], timedOut[c])
CallSound(r) ==
  /\ r.pc = "check" /\ r.cut # "no" => r.ends = "cut"
  /\ r.pc = "collect" => /\ r.alone /\ r.error \in {"steps", "recursion"} => r.cut = r.error
                         /\ r.alone /\ r.cut # "no" => r.error = r.cut
                         /\ r.cut # "no" => r.error # "none"
  /\ r.patches = FirstOf(r.added)
  /\ Len(r.logs) <= MaxLogs
ResultSound(r) ==
  /\ r.error \in {"steps", "recursion"} /\ r.alone => r.cut = r.error
  /\ r.alone /\ r.cut # "no" => r.error = r.cut
  /\ r.kind # "none" =>
       /\ r.cut # "no" => r.error # "none"
       /\ r.patches = FirstOf(r.added)
       /\ Len(r.logs) <= MaxLogs + 1
       /\ Last(r.logs) \in (IF r.error = "none" THEN {"succeeded", "truncated"} ELSE {r.error})
       /\ (r.config # "none") <=> (r.error = "none" /\ r.kind = "write" /\ r.ends = "returns")

RtInv == /\ RtTypes /\ AloneIsAlone /\ FlagsOwn
         /\ \A c \in Callers : CallSound(run[c]) /\ ResultSound(result[c])

\* The first MaxPatches entries, as AddPatch keeps them one by one.
LEMMA FirstOfEmpty == FirstOf(<<>>) = <<>>
  BY RuntimeAssumption, SubSeqEmpty DEF FirstOf

\* The first n elements of a sequence.
LEMMA SubSeqFromStart ==
    ASSUME NEW S, NEW s, NEW n \in Nat, \A i \in 1..n : s[i] \in S
    PROVE  /\ SubSeq(s, 1, n) \in Seq(S) /\ Len(SubSeq(s, 1, n)) = n
           /\ \A i \in 1..n : SubSeq(s, 1, n)[i] = s[i]
  <1>1. /\ SubSeq(s, 1, n) \in Seq(S) /\ Len(SubSeq(s, 1, n)) = IF 1 <= n THEN n - 1 + 1 ELSE 0
        /\ \A i \in 1..(n - 1 + 1) : SubSeq(s, 1, n)[i] = s[1 + i - 1]
    BY SubSeqProperties, n \in Int, 1 \in Int
  <1> QED
    BY <1>1

\* One entry more among the first MaxPatches.
LEMMA FirstOfAppend ==
    ASSUME NEW S, NEW s \in Seq(S), NEW x \in S
    PROVE  FirstOf(Append(s, x)) =
             IF Len(FirstOf(s)) < MaxPatches THEN Append(FirstOf(s), x) ELSE FirstOf(s)
  <1> DEFINE t == Append(s, x)
  <1>1. /\ t \in Seq(S) /\ Len(s) \in Nat /\ Len(t) = Len(s) + 1 /\ MaxPatches \in Nat
        /\ \A i \in 1..Len(s) : t[i] = s[i] /\ s[i] \in S
    BY AppendProperties, LenProperties, ElementOfSeq, RuntimeAssumption
  <1> HIDE DEF t
  <1>2. CASE Len(s) < MaxPatches
    <2>1. FirstOf(s) = s
      BY <1>1, <1>2, SubSeqFull DEF FirstOf
    <2>2. (IF Len(t) < MaxPatches THEN Len(t) ELSE MaxPatches) = Len(t)
      BY <1>1, <1>2
    <2>3. FirstOf(t) = t
      BY <1>1, <2>2, SubSeqFull DEF FirstOf
    <2> QED
      BY <1>2, <2>1, <2>3 DEF t
  <1>3. CASE Len(s) >= MaxPatches
    <2>1. FirstOf(s) = SubSeq(s, 1, MaxPatches) /\ FirstOf(t) = SubSeq(t, 1, MaxPatches)
      BY <1>1, <1>3 DEF FirstOf
    <2>2a. \A i \in 1..MaxPatches : s[i] \in S
      BY <1>1, <1>3
    <2>2. /\ SubSeq(s, 1, MaxPatches) \in Seq(S) /\ Len(SubSeq(s, 1, MaxPatches)) = MaxPatches
          /\ \A i \in 1..MaxPatches : SubSeq(s, 1, MaxPatches)[i] = s[i]
      BY <1>1, <2>2a, SubSeqFromStart
    <2>3. \A i \in 1..MaxPatches : t[i] \in S
      BY <1>1, <1>3
    <2>4. /\ SubSeq(t, 1, MaxPatches) \in Seq(S) /\ Len(SubSeq(t, 1, MaxPatches)) = MaxPatches
          /\ \A i \in 1..MaxPatches : SubSeq(t, 1, MaxPatches)[i] = t[i]
      BY <1>1, <2>3, SubSeqFromStart
    <2>5. \A i \in 1..MaxPatches : SubSeq(t, 1, MaxPatches)[i] = SubSeq(s, 1, MaxPatches)[i]
      BY <1>1, <1>3, <2>2, <2>4
    <2>6. SubSeq(t, 1, MaxPatches) = SubSeq(s, 1, MaxPatches)
      BY <1>1, <2>2, <2>4, <2>5, SeqEqual
    <2>7. FirstOf(t) = FirstOf(s) /\ Len(FirstOf(s)) = MaxPatches
      BY <2>1, <2>2, <2>6
    <2> QED
      BY <1>1, <2>7 DEF t
  <1> QED
    BY <1>1, <1>2, <1>3

\* What a call leaves when it starts or returns.
LEMMA NoRunIsSound ==
  /\ NoRun \in Runs /\ CallSound(NoRun)
  /\ NoResult \in Results /\ ResultSound(NoResult)
  <1>1. \A S : <<>> \in Seq(S) /\ Len(<<>>) = 0
    BY EmptySeq
  <1>2. NoRun \in Runs
    BY <1>1 DEF NoRun, Runs, Outcomes, Cuts, Errors
  <1>3. NoResult \in Results
    BY <1>1 DEF NoResult, Results, Outcomes, Cuts, Errors
  <1>4. CallSound(NoRun) /\ ResultSound(NoResult)
    BY <1>1, FirstOfEmpty, RuntimeAssumption DEF NoRun, NoResult, CallSound, ResultSound
  <1> QED
    BY <1>2, <1>3, <1>4

\* It holds before the first call.
LEMMA RtInitInv == RtInit => RtInv
  <1> SUFFICES ASSUME RtInit PROVE RtInv
    OBVIOUS
  <1>1. RtTypes
    BY NoRunIsSound DEF RtInit, RtTypes
  <1>2. \A c \in Callers : run[c] = NoRun /\ result[c] = NoResult /\ run[c].pc = "idle"
    BY DEF RtInit, NoRun
  <1>3. AloneIsAlone /\ FlagsOwn
    BY <1>2 DEF AloneIsAlone, Busy, FlagsOwn, OwnFlags
  <1> QED
    BY <1>1, <1>2, <1>3, NoRunIsSound DEF RtInv

\* An error without a script: its message is the log.
LEMMA ErrorIsSound ==
    ASSUME RtTypes, NEW c \in Callers, NEW kind \in {"execute", "write"},
           NEW e \in {"refused", "engine"}, ErrorResult(c, kind, e)
    PROVE  /\ result' \in [Callers -> Results]
           /\ ResultSound(result'[c]) /\ \A d \in Callers : d # c => result'[d] = result[d]
  <1> DEFINE r == [NoResult EXCEPT !.kind = kind, !.error = e, !.logs = <<e>>]
  <1>1. /\ r.kind = kind /\ r.error = e /\ r.logs = <<e>> /\ r.patches = <<>> /\ r.added = <<>>
        /\ r.alone = TRUE /\ r.cut = "no" /\ r.config = "none"
    BY DEF NoResult
  <1>2. Len(<<e>>) = 1 /\ <<e>>[1] = e /\ <<e>> \in Seq(Lines)
    <2>1. e \in Lines
      BY DEF Lines, Errors
    <2> QED
      BY <2>1
  <1>3. r \in Results
    BY <1>2, NoRunIsSound DEF NoResult, Results, Errors
  <1>4. ResultSound(r)
    BY <1>1, <1>2, FirstOfEmpty, RuntimeAssumption DEF ResultSound, Last
  <1>5. result' = [result EXCEPT ![c] = r]
    BY DEF ErrorResult
  <1> QED
    BY <1>3, <1>4, <1>5 DEF RtTypes

\* A step of one call, which is under way: the others see of it at most the flags of
\* their runtime, and none that shares the runtime is alone.
LEMMA OwnStepPreserves ==
    ASSUME RtInv, NEW c \in Callers, Busy(c),
           NEW r \in Runs, run' = [run EXCEPT ![c] = r],
           r.pc # "idle" => r.alone = run[c].alone,
           CallSound(r),
           stepHit' \in [Runtimes -> BOOLEAN], recHit' \in [Runtimes -> BOOLEAN],
           \A q \in Runtimes : q # RuntimeOf[c] => stepHit'[q] = stepHit[q] /\ recHit'[q] = recHit[q],
           OwnFlags(r, stepHit'[RuntimeOf[c]], recHit'[RuntimeOf[c]], timedOut'[c]),
           timedOut' \in [Callers -> BOOLEAN], ops' \in Nat,
           \A d \in Callers : d # c => timedOut'[d] = timedOut[d],
           result' \in [Callers -> Results],
           \A d \in Callers : ResultSound(result'[d])
    PROVE  RtInv'
  <1> USE RuntimeAssumption DEF RtInv
  <1>1. run'[c] = r /\ \A d \in Callers : d # c => run'[d] = run[d]
    BY DEF RtTypes
  <1>2. RtTypes'
    BY DEF RtTypes
  <1>3. AloneIsAlone'
    BY <1>1 DEF AloneIsAlone, Busy
  <1>4. ASSUME NEW d \in Callers, d # c
        PROVE  OwnFlags(run[d], stepHit'[RuntimeOf[d]], recHit'[RuntimeOf[d]], timedOut'[d])
    <2>1. CASE RuntimeOf[d] # RuntimeOf[c]
      BY <1>4, <2>1 DEF FlagsOwn
    <2>2. CASE RuntimeOf[d] = RuntimeOf[c]
      <3>1. ~(Busy(d) /\ run[d].alone)
        BY <1>4, <2>2 DEF AloneIsAlone
      <3> QED
        BY <3>1 DEF OwnFlags, Busy
    <2> QED
      BY <2>1, <2>2
  <1>5. FlagsOwn'
    BY <1>1, <1>4 DEF FlagsOwn
  <1>6. \A d \in Callers : CallSound(run'[d])
    BY <1>1
  <1> QED
    BY <1>2, <1>3, <1>5, <1>6

\* A call that starts while another is under way on its runtime is not alone, and
\* neither is the other from now on; if it is alone, the flags are its own.
LEMMA ExecutePreserves ==
    ASSUME RtInv, NEW c \in Callers, NEW kind \in Kinds[c], Execute(c, kind)
    PROVE  RtInv'
  <1> USE RuntimeAssumption DEF RtInv
  <1>1. kind \in {"execute", "write"}
    OBVIOUS
  <1> DEFINE new == [NoRun EXCEPT !.pc = "new", !.kind = kind, !.alone = Mates(c) = {}]
  <1>2. /\ new \in Runs /\ CallSound(new) /\ new.pc = "new" /\ new.cut = "no"
        /\ new.alone = (Mates(c) = {})
    BY <1>1, NoRunIsSound DEF NoRun, Runs, CallSound
  <1>3. ASSUME NEW d \in Callers
        PROVE  LET r == [run[d] EXCEPT !.alone = FALSE] IN
               /\ r \in Runs /\ CallSound(r) /\ r.pc = run[d].pc /\ r.alone = FALSE
    <2> DEFINE r == [run[d] EXCEPT !.alone = FALSE]
    <2>1. run[d] \in Runs /\ CallSound(run[d])
      BY DEF RtTypes
    <2>2. r \in Runs
      BY <2>1 DEF Runs
    <2>3. /\ r.pc = run[d].pc /\ r.alone = FALSE /\ r.cut = run[d].cut /\ r.ends = run[d].ends
          /\ r.error = run[d].error /\ r.patches = run[d].patches /\ r.added = run[d].added /\ r.logs = run[d].logs
      BY <2>1 DEF Runs
    <2> HIDE DEF r
    <2>4. CallSound(r)
      BY <2>1, <2>3 DEF CallSound
    <2> QED
      BY <2>2, <2>3, <2>4 DEF r
  <1>4. run' = [d \in Callers |-> IF d = c THEN new
                ELSE IF d \in Mates(c) THEN [run[d] EXCEPT !.alone = FALSE] ELSE run[d]]
    BY DEF Execute, Start
  <1> HIDE DEF new
  <1>5. /\ run'[c] = new
        /\ \A d \in Callers : d # c /\ d \in Mates(c) => run'[d] = [run[d] EXCEPT !.alone = FALSE]
        /\ \A d \in Callers : d # c /\ d \notin Mates(c) => run'[d] = run[d]
    BY <1>4
  <1>6. \A d \in Callers : run'[d] \in Runs /\ CallSound(run'[d])
    BY <1>2, <1>3, <1>5 DEF RtTypes
  <1>7. \A d \in Callers : d # c => run'[d].pc = run[d].pc
    BY <1>3, <1>5
  <1>8. \A d \in Callers : d # c /\ Busy(d)' /\ run'[d].alone =>
          run'[d] = run[d] /\ RuntimeOf[d] # RuntimeOf[c]
    <2>1. ASSUME NEW d \in Callers, d # c, Busy(d)', run'[d].alone
          PROVE  run'[d] = run[d] /\ RuntimeOf[d] # RuntimeOf[c]
      <3>1. d \notin Mates(c)
        BY <1>3, <1>5, <2>1
      <3>2. Busy(d)
        BY <1>7, <2>1 DEF Busy
      <3> QED
        BY <1>5, <2>1, <3>1, <3>2 DEF Mates, At, Busy
    <2> QED
      BY <2>1
  <1>9. RtTypes'
    <2>1. run' \in [Callers -> Runs]
      BY <1>4, <1>6
    <2>2. result' \in [Callers -> Results]
      BY NoRunIsSound DEF RtTypes, Execute
    <2> QED
      BY <2>1, <2>2 DEF RtTypes, Execute, ResetLimitFlags
  <1>10. AloneIsAlone'
    <2>1. ASSUME NEW d \in Callers, NEW e \in Callers, Busy(d)', run'[d].alone, Busy(e)',
                 RuntimeOf[d] = RuntimeOf[e]
          PROVE  d = e
      <3>1. CASE d = c
        <4>1. Mates(c) = {}
          BY <1>2, <1>5, <2>1, <3>1
        <4> QED
          BY <1>7, <2>1, <3>1, <4>1 DEF Mates, At, Busy
      <3>2. CASE d # c
        <4>1. run'[d] = run[d] /\ RuntimeOf[d] # RuntimeOf[c]
          BY <1>8, <2>1, <3>2
        <4> QED
          BY <1>7, <2>1, <3>2, <4>1 DEF AloneIsAlone, Busy
      <3> QED
        BY <3>1, <3>2
    <2> QED
      BY <2>1 DEF AloneIsAlone
  <1>11. FlagsOwn'
    <2>1. ASSUME NEW d \in Callers
          PROVE  OwnFlags(run'[d], stepHit'[RuntimeOf[d]], recHit'[RuntimeOf[d]], timedOut'[d])
      <3>1. CASE d = c
        <4>1. stepHit'[RuntimeOf[c]] = FALSE /\ recHit'[RuntimeOf[c]] = FALSE
          BY DEF RtTypes, Execute, ResetLimitFlags
        <4> QED
          BY <1>2, <1>5, <3>1, <4>1 DEF OwnFlags
      <3>2. CASE d # c /\ ~(Busy(d)' /\ run'[d].alone)
        BY <3>2 DEF OwnFlags, Busy
      <3>3. CASE d # c /\ Busy(d)' /\ run'[d].alone
        <4>1. run'[d] = run[d] /\ RuntimeOf[d] # RuntimeOf[c]
          BY <1>8, <3>3
        <4>2. stepHit'[RuntimeOf[d]] = stepHit[RuntimeOf[d]] /\ recHit'[RuntimeOf[d]] = recHit[RuntimeOf[d]]
          BY <4>1 DEF RtTypes, Execute, ResetLimitFlags
        <4> QED
          BY <4>1, <4>2 DEF FlagsOwn, Execute
      <3> QED
        BY <3>1, <3>2, <3>3
    <2> QED
      BY <2>1 DEF FlagsOwn
  <1>12. \A d \in Callers : ResultSound(result'[d])
    <2>1. \A d \in Callers : result'[d] = result[d] \/ result'[d] = NoResult
      BY DEF RtTypes, Execute
    <2> QED
      BY <2>1, NoRunIsSound
  <1> QED
    BY <1>6, <1>9, <1>10, <1>11, <1>12

\* A call refused before it runs.
LEMMA RefusePreserves ==
    ASSUME RtInv, NEW c \in Callers, NEW kind \in Kinds[c], Refuse(c, kind)
    PROVE  RtInv'
  <1> USE RuntimeAssumption DEF RtInv
  <1>1. kind \in {"execute", "write"}
    OBVIOUS
  <1>2. /\ result' \in [Callers -> Results]
        /\ \A d \in Callers : ResultSound(result'[d])
    BY <1>1, ErrorIsSound DEF Refuse
  <1>3. UNCHANGED <<stepHit, recHit, run, timedOut, ops>>
    BY DEF Refuse
  <1> QED
    BY <1>2, <1>3 DEF RtTypes, AloneIsAlone, Busy, FlagsOwn

\* The engine starts, or fails to.
LEMMA NewPreserves ==
    ASSUME RtInv, NEW c \in Callers, New(c) \/ NewFails(c)
    PROVE  RtInv'
  <1> USE RuntimeAssumption DEF RtInv
  <1>1. Busy(c) /\ run[c] \in Runs /\ run[c].kind \in {"execute", "write"} /\ run[c].pc = "new"
    BY DEF New, NewFails, At, Busy, RtTypes, Runs
  <1>2. OwnFlags(run[c], stepHit[RuntimeOf[c]], recHit[RuntimeOf[c]], timedOut[c])
    BY DEF FlagsOwn
  <1>3. CASE New(c)
    <2> DEFINE r == [run[c] EXCEPT !.pc = "running"]
    <2>1. /\ r \in Runs /\ r.alone = run[c].alone /\ CallSound(r)
          /\ OwnFlags(r, stepHit[RuntimeOf[c]], recHit[RuntimeOf[c]], timedOut'[c])
      BY <1>1, <1>2 DEF Runs, CallSound, OwnFlags
    <2>2. run' = [run EXCEPT ![c] = r]
      BY <1>3 DEF New
    <2> HIDE DEF r
    <2> QED
      BY <1>1, <1>3, <2>1, <2>2, OwnStepPreserves DEF New, RtTypes
  <1>4. CASE NewFails(c)
    <2>1. result' \in [Callers -> Results] /\ \A d \in Callers : ResultSound(result'[d])
      BY <1>1, <1>4, ErrorIsSound DEF NewFails
    <2>2. NoRun.pc = "idle" /\ OwnFlags(NoRun, stepHit[RuntimeOf[c]], recHit[RuntimeOf[c]], timedOut[c])
      BY DEF NoRun, OwnFlags
    <2> QED
      BY <1>1, <1>4, <2>1, <2>2, NoRunIsSound, OwnStepPreserves DEF NewFails, RtTypes
  <1> QED
    BY <1>3, <1>4

\* The timer raises its flag at any time.
LEMMA ExpirePreserves ==
    ASSUME RtInv, NEW c \in Callers, Expire(c)
    PROVE  RtInv'
  <1> USE RuntimeAssumption DEF RtInv
  <1>1. /\ timedOut' \in [Callers -> BOOLEAN] /\ timedOut'[c] = TRUE
        /\ \A d \in Callers : d # c => timedOut'[d] = timedOut[d]
        /\ UNCHANGED <<stepHit, recHit, recDepth, run, result, ops, calls>>
    BY DEF Expire, RtTypes
  <1>2. \A d \in Callers : timedOut[d] => timedOut'[d]
    BY <1>1
  <1>3. FlagsOwn'
    BY <1>1, <1>2 DEF FlagsOwn, OwnFlags
  <1> QED
    BY <1>1, <1>3 DEF RtTypes, AloneIsAlone, Busy

\* What a script adds and says.
LEMMA ActPreserves ==
    ASSUME RtInv, NEW c \in Callers, AddPatch(c) \/ Log(c)
    PROVE  RtInv'
  <1> USE RuntimeAssumption DEF RtInv
  <1>1. /\ Busy(c) /\ run[c] \in Runs /\ run[c].pc = "running" /\ CallSound(run[c])
        /\ ops \in Nat /\ ops' \in Nat /\ UNCHANGED <<stepHit, recHit, timedOut, result>>
        /\ OwnFlags(run[c], stepHit[RuntimeOf[c]], recHit[RuntimeOf[c]], timedOut[c])
    <2>1. At(c, "running") /\ ops' \in {ops, ops + 1} /\ UNCHANGED <<stepHit, recHit, timedOut, result>>
      BY DEF AddPatch, Log, CanAct
    <2>2. run[c] \in Runs /\ ops \in Nat /\ CallSound(run[c])
      BY DEF RtTypes
    <2>3. ops' \in Nat
      BY <2>1, <2>2
    <2>4. OwnFlags(run[c], stepHit[RuntimeOf[c]], recHit[RuntimeOf[c]], timedOut[c])
      BY DEF FlagsOwn
    <2> QED
      BY <2>1, <2>2, <2>3, <2>4 DEF At, Busy
  <1>2. CASE AddPatch(c)
    <2> DEFINE new == <<c, ops>>
               kept == IF Len(run[c].patches) < MaxPatches THEN Append(run[c].patches, new)
                       ELSE run[c].patches
               r == [run[c] EXCEPT !.patches = kept, !.added = Append(run[c].added, new)]
    <2>1. /\ run[c].added \in Seq(Entries) /\ run[c].patches \in Seq(Entries)
          /\ new \in Entries /\ run[c].patches = FirstOf(run[c].added)
      BY <1>1 DEF Entries, Runs, CallSound
    <2>2. /\ Append(run[c].added, new) \in Seq(Entries) /\ kept \in Seq(Entries)
          /\ kept = FirstOf(Append(run[c].added, new))
      <3> HIDE DEF new
      <3>1. Append(run[c].added, new) \in Seq(Entries) /\ Append(run[c].patches, new) \in Seq(Entries)
        BY <2>1, AppendProperties
      <3>2. FirstOf(Append(run[c].added, new)) = kept
        BY <2>1, FirstOfAppend
      <3> QED
        BY <2>1, <3>1, <3>2
    <2>3. run' = [run EXCEPT ![c] = r]
      <3>1. run' = [run EXCEPT ![c].patches = IF Len(@) < MaxPatches THEN Append(@, <<c, ops>>) ELSE @,
                               ![c].added = Append(@, <<c, ops>>)]
        BY <1>2 DEF AddPatch
      <3> QED
        BY <3>1
    <2> HIDE DEF new, kept
    <2>4. r \in Runs
      BY <1>1, <2>2 DEF Runs
    <2>5. /\ r.pc = run[c].pc /\ r.alone = run[c].alone /\ r.cut = run[c].cut
          /\ r.logs = run[c].logs /\ r.patches = FirstOf(r.added)
      BY <1>1, <2>2 DEF Runs
    <2>6. CallSound(r) /\ OwnFlags(r, stepHit[RuntimeOf[c]], recHit[RuntimeOf[c]], timedOut[c])
      BY <1>1, <2>5 DEF CallSound, OwnFlags
    <2> HIDE DEF r
    <2> QED
      BY <1>1, <2>3, <2>4, <2>5, <2>6, OwnStepPreserves DEF RtTypes
  <1>3. CASE Log(c)
    <2> DEFINE kept == IF Len(run[c].logs) < MaxLogs THEN Append(run[c].logs, "said")
                       ELSE run[c].logs
               r == [run[c] EXCEPT !.logs = kept]
    <2>1. run[c].logs \in Seq({"said"}) /\ Len(run[c].logs) <= MaxLogs
      BY <1>1 DEF Runs, CallSound
    <2>2. kept \in Seq({"said"}) /\ Len(kept) <= MaxLogs
      BY <2>1, AppendProperties, LenProperties
    <2>3. run' = [run EXCEPT ![c] = r]
      BY <1>3 DEF Log
    <2> HIDE DEF kept
    <2>4. r \in Runs
      BY <1>1, <2>2 DEF Runs
    <2>5. /\ r.pc = run[c].pc /\ r.alone = run[c].alone /\ r.cut = run[c].cut
          /\ r.logs = kept /\ r.patches = run[c].patches /\ r.added = run[c].added
      BY <1>1 DEF Runs
    <2>6. CallSound(r) /\ OwnFlags(r, stepHit[RuntimeOf[c]], recHit[RuntimeOf[c]], timedOut[c])
      BY <1>1, <2>2, <2>5 DEF CallSound, OwnFlags
    <2> HIDE DEF r
    <2> QED
      BY <1>1, <2>3, <2>4, <2>5, <2>6, OwnStepPreserves DEF RtTypes
  <1> QED
    BY <1>2, <1>3

\* The handler raises the flag of a limit exactly when it cuts the script there.
LEMMA PollPreserves ==
    ASSUME RtInv, NEW c \in Callers, Poll(c)
    PROVE  RtInv'
  <1> USE RuntimeAssumption DEF RtInv
  <1> DEFINE q == RuntimeOf[c]
             over == ~timedOut[c] /\ OverSteps(c)
             deep == ~timedOut[c] /\ ~OverSteps(c) /\ recDepth[q] > MaxRecursion
             count == IF timedOut[c] \/ run[c].steps > MaxSteps THEN run[c].steps ELSE run[c].steps + 1
             cutAt == IF timedOut[c] THEN "timeout" ELSE IF over THEN "steps"
                      ELSE IF deep THEN "recursion" ELSE "no"
             r == [run[c] EXCEPT !.steps = count, !.cut = cutAt]
  <1>1. /\ Busy(c) /\ run[c] \in Runs /\ run[c].pc = "running" /\ run[c].cut = "no"
        /\ CallSound(run[c]) /\ q \in Runtimes /\ UNCHANGED <<timedOut, result, ops>>
    BY DEF Poll, At, Busy, RtTypes
  <1>2. /\ run' = [run EXCEPT ![c] = r]
        /\ stepHit' = [stepHit EXCEPT ![q] = stepHit[q] \/ over]
        /\ recHit' = [recHit EXCEPT ![q] = recHit[q] \/ deep]
    BY DEF Poll
  <1>3. count \in Nat /\ cutAt \in Cuts
    BY <1>1 DEF Runs, Cuts
  <1>4. /\ over => cutAt = "steps"
        /\ cutAt = "steps" => over
        /\ deep => cutAt = "recursion"
        /\ cutAt = "recursion" => deep
        /\ cutAt = "timeout" => timedOut[c]
    OBVIOUS
  <1>5. over \in BOOLEAN /\ deep \in BOOLEAN
    OBVIOUS
  <1>6. OwnFlags(run[c], stepHit[q], recHit[q], timedOut[c])
    BY DEF FlagsOwn
  <1> HIDE DEF q, over, deep, count, cutAt
  <1>7. /\ r \in Runs /\ r.pc = "running" /\ r.alone = run[c].alone /\ r.cut = cutAt
        /\ r.patches = run[c].patches /\ r.added = run[c].added /\ r.logs = run[c].logs
    BY <1>1, <1>3 DEF Runs
  <1>8. CallSound(r)
    BY <1>1, <1>7 DEF CallSound
  <1> HIDE DEF r
  <1>9. /\ stepHit' \in [Runtimes -> BOOLEAN] /\ recHit' \in [Runtimes -> BOOLEAN]
        /\ stepHit'[q] = (stepHit[q] \/ over) /\ recHit'[q] = (recHit[q] \/ deep)
        /\ \A u \in Runtimes : u # q => stepHit'[u] = stepHit[u] /\ recHit'[u] = recHit[u]
    BY <1>1, <1>2, <1>5 DEF RtTypes
  <1>10. OwnFlags(r, stepHit'[q], recHit'[q], timedOut[c])
    BY <1>1, <1>4, <1>6, <1>7, <1>9 DEF OwnFlags
  <1> QED
    BY <1>1, <1>2, <1>7, <1>8, <1>9, <1>10, OwnStepPreserves DEF RtTypes, q

\* The script ends, and its end is judged.
LEMMA FinishPreserves ==
    ASSUME RtInv, NEW c \in Callers, Finish(c)
    PROVE  RtInv'
  <1> USE RuntimeAssumption DEF RtInv
  <1>1. PICK e \in Ends(c) : run' = [run EXCEPT ![c].pc = "check", ![c].ends = e]
    BY DEF Finish
  <1> DEFINE r == [run[c] EXCEPT !.pc = "check", !.ends = e]
  <1>2. /\ Busy(c) /\ run[c] \in Runs /\ run[c].pc = "running" /\ CallSound(run[c])
        /\ UNCHANGED <<stepHit, recHit, timedOut, result, ops>>
        /\ OwnFlags(run[c], stepHit[RuntimeOf[c]], recHit[RuntimeOf[c]], timedOut[c])
    BY DEF Finish, At, Busy, RtTypes, FlagsOwn
  <1>3. e \in Outcomes /\ (run[c].cut # "no" => e = "cut")
    BY DEF Ends, Outcomes
  <1>4. /\ r \in Runs /\ r.pc = "check" /\ r.ends = e /\ r.alone = run[c].alone /\ r.cut = run[c].cut
        /\ r.patches = run[c].patches /\ r.added = run[c].added /\ r.logs = run[c].logs
    BY <1>2, <1>3 DEF Runs
  <1>5. CallSound(r) /\ OwnFlags(r, stepHit[RuntimeOf[c]], recHit[RuntimeOf[c]], timedOut[c])
    BY <1>2, <1>3, <1>4 DEF CallSound, OwnFlags
  <1>6. run' = [run EXCEPT ![c] = r]
    BY <1>1
  <1> HIDE DEF r
  <1> QED
    BY <1>2, <1>4, <1>5, <1>6, OwnStepPreserves DEF RtTypes

\* The verdict on what cut the call.
LEMMA CheckInterruptsPreserves ==
    ASSUME RtInv, NEW c \in Callers, CheckInterrupts(c)
    PROVE  RtInv'
  <1> USE RuntimeAssumption DEF RtInv
  <1> DEFINE r == [run[c] EXCEPT !.pc = "collect", !.error = Verdict(c)]
  <1>1. /\ Busy(c) /\ run[c] \in Runs /\ run[c].pc = "check" /\ CallSound(run[c])
        /\ UNCHANGED <<stepHit, recHit, timedOut, result, ops>>
        /\ OwnFlags(run[c], stepHit[RuntimeOf[c]], recHit[RuntimeOf[c]], timedOut[c])
        /\ run' = [run EXCEPT ![c] = r]
    BY DEF CheckInterrupts, At, Busy, RtTypes, FlagsOwn
  <1>2. run[c].ends \in Outcomes
    BY <1>1 DEF Runs
  <1>3. /\ Verdict(c) \in Errors
        /\ Verdict(c) = "none" => run[c].ends \in {"none", "returns", "returns early"}
        /\ Verdict(c) = "steps" => stepHit[RuntimeOf[c]]
        /\ Verdict(c) = "recursion" => recHit[RuntimeOf[c]]
    BY <1>2 DEF Verdict, Errors, Outcomes, Cuts
  <1>3a. run[c].alone /\ run[c].cut # "no" => Verdict(c) = run[c].cut
    <2> SUFFICES ASSUME run[c].alone, run[c].cut # "no" PROVE Verdict(c) = run[c].cut
      OBVIOUS
    <2>1. /\ stepHit[RuntimeOf[c]] => run[c].cut = "steps"
          /\ run[c].cut = "steps" => stepHit[RuntimeOf[c]]
          /\ recHit[RuntimeOf[c]] => run[c].cut = "recursion"
          /\ run[c].cut = "recursion" => recHit[RuntimeOf[c]]
          /\ run[c].cut = "timeout" => timedOut[c]
      BY <1>1 DEF OwnFlags
    <2>2. run[c].cut \in {"timeout", "steps", "recursion"}
      BY <1>1 DEF Runs, Cuts
    <2> QED
      BY <2>1, <2>2 DEF Verdict
  <1>4. /\ r \in Runs /\ r.pc = "collect" /\ r.error = Verdict(c) /\ r.alone = run[c].alone
        /\ r.cut = run[c].cut /\ r.patches = run[c].patches /\ r.added = run[c].added /\ r.logs = run[c].logs
    BY <1>1, <1>3 DEF Runs
  <1>5. CallSound(r) /\ OwnFlags(r, stepHit[RuntimeOf[c]], recHit[RuntimeOf[c]], timedOut[c])
    BY <1>1, <1>3, <1>3a, <1>4 DEF CallSound, OwnFlags
  <1> HIDE DEF r
  <1> QED
    BY <1>1, <1>4, <1>5, OwnStepPreserves DEF RtTypes

\* The log of a result is the script's own, with its outcome last, and at most one
\* entry over the limit.
LEMMA LogsOfResult ==
    ASSUME RtTypes, NEW c \in Callers, NEW tooBig \in BOOLEAN, Len(run[c].logs) <= MaxLogs
    PROVE  LET logs == ResultLogs(c, tooBig) IN
           /\ logs \in Seq(Lines) /\ Len(logs) <= MaxLogs + 1
           /\ Last(logs) \in (IF run[c].error = "none" THEN {"succeeded", "truncated"}
                              ELSE {run[c].error})
  <1> DEFINE own == run[c].logs
             e == run[c].error
             logs == ResultLogs(c, tooBig)
  <1>1. /\ own \in Seq({"said"}) /\ e \in Errors
    BY DEF RtTypes, Runs
  <1>2. /\ own \in Seq(Lines) /\ e \in Lines /\ Len(own) \in Nat /\ Len(own) <= MaxLogs
        /\ MaxLogs \in Nat /\ "succeeded" \in Lines /\ "truncated" \in Lines
    BY <1>1, SeqMonotonic, LenProperties, RuntimeAssumption DEF Lines
  <1> HIDE DEF own, e
  <1>3. \A s \in Seq(Lines), x \in Lines :
          Append(s, x) \in Seq(Lines) /\ Len(Append(s, x)) = Len(s) + 1 /\ Last(Append(s, x)) = x
    BY AppendProperties DEF Last
  <1>4. CASE e # "none"
    <2> DEFINE spoken == IF run[c].kind = "write" THEN own ELSE <<>>
    <2>1. logs = spoken \o <<e>>
      BY <1>4 DEF ResultLogs, own, e
    <2>2. spoken \in Seq(Lines) /\ Len(spoken) \in Nat /\ Len(spoken) <= MaxLogs
      BY <1>2, EmptySeq
    <2> HIDE DEF spoken, logs
    <2>3. logs = Append(spoken, e)
      BY <1>2, <2>1, <2>2, AppendIsConcat
    <2> QED
      BY <1>2, <1>3, <1>4, <2>2, <2>3 DEF logs, e
  <1>5. CASE e = "none"
    <2> DEFINE all == Append(own, "succeeded")
               cut == IF Len(all) < MaxLogs THEN all ELSE SubSeq(all, 1, MaxLogs - 1)
    <2>1. logs = IF run[c].kind = "execute" /\ tooBig THEN Append(cut, "truncated") ELSE all
      BY <1>5 DEF ResultLogs, own, e
    <2>2. all \in Seq(Lines) /\ Len(all) = Len(own) + 1 /\ Last(all) = "succeeded"
      BY <1>2, <1>3
    <2> HIDE DEF all
    <2>3. cut \in Seq(Lines) /\ Len(cut) <= MaxLogs /\ Len(cut) \in Nat
      <3>1. CASE Len(all) < MaxLogs
        BY <1>2, <2>2, <3>1, LenProperties
      <3>2. CASE Len(all) >= MaxLogs /\ MaxLogs # 0
        <4>1. MaxLogs - 1 \in Nat /\ \A i \in 1..(MaxLogs - 1) : i \in 1..Len(all)
          BY <1>2, <2>2, <3>2
        <4>2. \A i \in 1..(MaxLogs - 1) : all[i] \in Lines
          BY <2>2, <4>1, ElementOfSeq
        <4>3. SubSeq(all, 1, MaxLogs - 1) \in Seq(Lines) /\ Len(SubSeq(all, 1, MaxLogs - 1)) = MaxLogs - 1
          BY <4>1, <4>2, SubSeqFromStart
        <4> QED
          BY <1>2, <2>2, <3>2, <4>1, <4>3
      <3>3. CASE MaxLogs = 0
        <4>1. SubSeq(all, 1, MaxLogs - 1) = <<>>
          BY <3>3, SubSeqEmpty
        <4> QED
          BY <1>2, <2>2, <3>3, <4>1, EmptySeq
      <3> QED
        BY <1>2, <2>2, <3>1, <3>2, <3>3
    <2> HIDE DEF cut, logs
    <2>4. /\ Append(cut, "truncated") \in Seq(Lines) /\ Len(Append(cut, "truncated")) <= MaxLogs + 1
          /\ Last(Append(cut, "truncated")) = "truncated"
      BY <1>2, <1>3, <2>3
    <2>5. all \in Seq(Lines) /\ Len(all) <= MaxLogs + 1 /\ Last(all) = "succeeded"
      BY <1>2, <2>2
    <2>6. logs = Append(cut, "truncated") \/ logs = all
      BY <2>1
    <2> QED
      BY <1>5, <2>4, <2>5, <2>6 DEF logs, e
  <1> QED
    BY <1>4, <1>5

\* The result of a call is sound because the call was.
LEMMA CollectPreserves ==
    ASSUME RtInv, NEW c \in Callers, Collect(c)
    PROVE  RtInv'
  <1> USE RuntimeAssumption DEF RtInv
  <1>1. /\ Busy(c) /\ run[c] \in Runs /\ run[c].pc = "collect" /\ CallSound(run[c])
        /\ UNCHANGED <<stepHit, recHit, ops>> /\ timedOut' \in [Callers -> BOOLEAN]
        /\ \A d \in Callers : d # c => timedOut'[d] = timedOut[d]
        /\ run' = [run EXCEPT ![c] = NoRun]
    BY DEF Collect, At, Busy, RtTypes
  <1>2. PICK tooBig \in BOOLEAN : result' = [result EXCEPT ![c] =
         [kind |-> run[c].kind, error |-> run[c].error, logs |-> ResultLogs(c, tooBig),
          patches |-> run[c].patches, ends |-> run[c].ends, alone |-> run[c].alone, cut |-> run[c].cut,
          added |-> run[c].added,
          config |-> IF run[c].kind = "write" /\ run[c].error = "none" /\ run[c].ends = "returns"
                       THEN "main's" ELSE "none"]]
    BY DEF Collect
  <1> DEFINE logs == ResultLogs(c, tooBig)
             config == IF run[c].kind = "write" /\ run[c].error = "none" /\ run[c].ends = "returns"
                         THEN "main's" ELSE "none"
             r == [kind |-> run[c].kind, error |-> run[c].error, logs |-> logs,
                   patches |-> run[c].patches, ends |-> run[c].ends, alone |-> run[c].alone, cut |-> run[c].cut,
                   added |-> run[c].added, config |-> config]
  <1>3. /\ logs \in Seq(Lines) /\ Len(logs) <= MaxLogs + 1
        /\ Last(logs) \in (IF run[c].error = "none" THEN {"succeeded", "truncated"}
                           ELSE {run[c].error})
    BY <1>1, LogsOfResult DEF CallSound
  <1>4. /\ run[c].kind \in {"execute", "write"} /\ run[c].error \in Errors
        /\ run[c].patches \in Seq(Entries) /\ run[c].alone \in BOOLEAN /\ run[c].cut \in Cuts
        /\ run[c].added \in Seq(Entries) /\ run[c].ends \in Outcomes
    BY <1>1 DEF Runs
  <1>5. /\ config \in {"none", "main's"}
        /\ (config # "none") <=> (run[c].error = "none" /\ run[c].kind = "write" /\ run[c].ends = "returns")
    BY <1>4
  <1> HIDE DEF logs, config
  <1>6. r \in Results
    BY <1>3, <1>4, <1>5 DEF Results
  <1>7. ResultSound(r)
    BY <1>1, <1>3, <1>5 DEF ResultSound, CallSound
  <1>8. result' = [result EXCEPT ![c] = r]
    BY <1>2 DEF logs, config
  <1> HIDE DEF r
  <1>9. result' \in [Callers -> Results] /\ \A d \in Callers : ResultSound(result'[d])
    BY <1>6, <1>7, <1>8 DEF RtTypes
  <1>10. NoRun.pc = "idle" /\ OwnFlags(NoRun, stepHit[RuntimeOf[c]], recHit[RuntimeOf[c]], timedOut'[c])
    BY DEF NoRun, OwnFlags
  <1> QED
    BY <1>1, <1>9, <1>10, NoRunIsSound, OwnStepPreserves DEF RtTypes

\* Every step of the runtimes keeps the invariant.
LEMMA RtStepPreserves == RtInv /\ [RtNext]_rtVars => RtInv'
  <1> SUFFICES ASSUME RtInv, [RtNext]_rtVars PROVE RtInv'
    OBVIOUS
  <1>1. CASE UNCHANGED rtVars
    BY <1>1 DEF rtVars, RtInv, RtTypes, AloneIsAlone, Busy, FlagsOwn
  <1>2. CASE RtNext
    BY <1>2, ExecutePreserves, RefusePreserves, NewPreserves, ExpirePreserves, ActPreserves,
       PollPreserves, FinishPreserves, CheckInterruptsPreserves, CollectPreserves DEF RtNext
  <1> QED
    BY <1>1, <1>2

\* However many callers share a runtime: a call that no other overlapped is blamed for a
\* limit its own handler cut it at, and for no other that only a handler finds; a script that
\* was cut never succeeds; a result has the patches and the log of its own script, its outcome
\* last, and a config exactly if main() gave one.
\* (reset_limit_flags, check_interrupts, execute, execute_with_write)
THEOREM CallsAreJudged == RtSpec => []CallJudged
  <1>1. RtInv => CallJudged
    BY DEF RtInv, ResultSound, CallJudged, LimitBlamed, CutNeverSucceeds, ResultsOwn, Returned,
       FirstOf
  <1> QED
    BY <1>1, RtInitInv, RtStepPreserves, PTL DEF RtSpec

------------------------------------------------------------------------------
(* Lists of a configuration.  ListsKept is not inductive: what a removal writes back was read   *)
(* when its callback began, so the snapshot must still be the list unless the callback changed  *)
(* it (SnapshotFresh); that a call adds or takes without moving anything is a matter of one     *)
(* list lying in another in its order (Embeds).                                                 *)

\* s lies in t, in its order.
Embeds(s, t) ==
  \E e \in [DOMAIN s -> DOMAIN t] :
    /\ \A i \in DOMAIN s : s[i] = t[e[i]]
    /\ \A i, j \in DOMAIN s : i < j => e[i] < e[j]

\* A set of numbers that is not empty has a least one.
LEMMA LeastNumber ==
  ASSUME NEW T \in SUBSET Nat, T # {}
  PROVE  \E t \in T : \A n \in T : t <= n
  <1>1. PICK t \in T : \A n \in T : ~(<<n, t>> \in OpToRel(<, Nat))
    BY NatLessThanWellFounded, WFMin, Zenon
  <1>2. \A n \in T : ~(n < t)
    BY <1>1 DEF OpToRel
  <1>3. \A n \in T : t <= n
    BY <1>2
  <1> QED
    BY <1>3

\* What is chosen from a list stands at the chosen places, in their order.
LEMMA ChosenProperties ==
  ASSUME NEW T, NEW s \in Seq(T), NEW P, P \subseteq DOMAIN s
  PROVE  LET r == Chosen(s, P) IN
         /\ r \in Seq(T)
         /\ \E e \in [DOMAIN r -> P] :
              /\ \A k \in DOMAIN r : r[k] = s[e[k]]
              /\ \A i \in P : \E k \in DOMAIN r : e[k] = i
              /\ \A j, k \in DOMAIN r : j < k => e[j] < e[k]
  <1> DEFINE upto(i) == {j \in P : j <= i}
             rank(i) == Cardinality(upto(i))
             n == Cardinality(P)
             at(k) == CHOOSE i \in P : rank(i) = k
             r == Chosen(s, P)
  <1>1. Len(s) \in Nat /\ DOMAIN s = 1..Len(s) /\ P \subseteq 1..Len(s)
    OBVIOUS
  <1>2. IsFiniteSet(P) /\ n \in Nat
    <2>1. IsFiniteSet(1..Len(s))
      BY <1>1, FS_Interval
    <2> QED
      BY <1>1, <2>1, FS_Subset, FS_CardinalityType
  <1>3. ASSUME NEW i PROVE IsFiniteSet(upto(i)) /\ rank(i) \in Nat /\ rank(i) <= n
    <2>1. upto(i) \in SUBSET P
      OBVIOUS
    <2> HIDE DEF upto
    <2> QED
      BY <1>2, <2>1, FS_Subset, FS_CardinalityType
  <1>4. \A i \in P : rank(i) \in 1..n
    <2> SUFFICES ASSUME NEW i \in P PROVE rank(i) \in 1..n
      OBVIOUS
    <2>1. i \in upto(i)
      BY <1>1
    <2>2. IsFiniteSet(upto(i)) /\ rank(i) \in Nat /\ rank(i) <= n
      BY <1>3
    <2> HIDE DEF upto, n
    <2>3. rank(i) # 0
      BY <2>1, <2>2, FS_EmptySet
    <2> QED
      BY <1>2, <2>2, <2>3
  <1>5. ASSUME NEW i \in P, NEW j \in P, i < j PROVE rank(i) < rank(j)
    <2>1. upto(i) \subseteq upto(j) /\ j \in upto(j) /\ j \notin upto(i)
      BY <1>1, <1>5
    <2>2. IsFiniteSet(upto(j)) /\ rank(i) \in Nat /\ rank(j) \in Nat
      BY <1>3
    <2> HIDE DEF upto
    <2>3. rank(i) <= rank(j) /\ rank(i) # rank(j)
      BY <2>1, <2>2, FS_Subset
    <2> QED
      BY <2>2, <2>3
  <1>6. \A i, j \in P : rank(i) = rank(j) => i = j
    <2>1. \A i \in P : rank(i) \in Nat
      BY <1>3
    <2> HIDE DEF rank
    <2> QED
      BY <1>1, <1>5, <2>1
  <1>7. \A k \in 1..n : \E i \in P : rank(i) = k
    <2> DEFINE f == [i \in P |-> rank(i)]
    <2>1. f \in Injection(P, 1..n)
      <3>1. f \in [P -> 1..n]
        BY <1>4
      <3>2. \A i, j \in P : f[i] = f[j] => i = j
        BY <1>6
      <3> QED
        BY <3>1, <3>2 DEF Injection, IsInjective
    <2>2. IsFiniteSet(1..n) /\ Cardinality(1..n) = n
      BY <1>2, FS_Interval
    <2>3. f \in Surjection(P, 1..n)
      BY <2>1, <2>2, FS_Injection
    <2> QED
      BY <2>3 DEF Surjection
  <1>8. \A k \in 1..n : at(k) \in P /\ rank(at(k)) = k
    BY <1>7
  <1>9. r = [k \in 1..n |-> s[at(k)]]
    BY DEF Chosen
  <1> HIDE DEF rank, n, at, r
  <1>10. r \in Seq(T) /\ DOMAIN r = 1..n
    <2>1. \A k \in 1..n : s[at(k)] \in T
      BY <1>1, <1>8
    <2>2. r \in [1..n -> T]
      BY <1>9, <2>1
    <2> QED
      BY <1>2, <2>2, SeqDef
  <1> DEFINE e == [k \in 1..n |-> at(k)]
  <1>11. e \in [DOMAIN r -> P] /\ \A k \in DOMAIN r : r[k] = s[e[k]]
    BY <1>8, <1>9, <1>10
  <1>12. \A i \in P : \E k \in DOMAIN r : e[k] = i
    <2> SUFFICES ASSUME NEW i \in P PROVE rank(i) \in 1..n /\ at(rank(i)) = i
      BY <1>10
    <2>1. rank(i) \in 1..n
      BY <1>4
    <2> QED
      BY <2>1, <1>6, <1>8
  <1>13. \A j, k \in DOMAIN r : j < k => e[j] < e[k]
    <2> SUFFICES ASSUME NEW j \in 1..n, NEW k \in 1..n, j < k PROVE at(j) < at(k)
      BY <1>10
    <2>1. at(j) \in 1..Len(s) /\ at(k) \in 1..Len(s) /\ at(j) # at(k)
      BY <1>1, <1>8, <1>2
    <2>2. CASE at(k) < at(j)
      <3>1. rank(at(k)) < rank(at(j))
        BY <1>5, <1>8, <2>2
      <3> QED
        BY <1>2, <1>8, <3>1
    <2> QED
      BY <1>1, <2>1, <2>2
  <1> HIDE DEF e
  <1> QED
    BY <1>10, <1>11, <1>12, <1>13 DEF r

\* What is chosen from a list lies in it.
LEMMA ChosenEmbeds ==
  ASSUME NEW T, NEW s \in Seq(T), NEW P, P \subseteq DOMAIN s
  PROVE  Chosen(s, P) \in Seq(T) /\ Embeds(Chosen(s, P), s)
  <1> DEFINE r == Chosen(s, P)
  <1>1. /\ r \in Seq(T)
        /\ \E e \in [DOMAIN r -> P] : /\ \A k \in DOMAIN r : r[k] = s[e[k]]
                                      /\ \A j, k \in DOMAIN r : j < k => e[j] < e[k]
    BY ChosenProperties
  <1> HIDE DEF r
  <1>2. PICK e \in [DOMAIN r -> P] : /\ \A k \in DOMAIN r : r[k] = s[e[k]]
                                     /\ \A j, k \in DOMAIN r : j < k => e[j] < e[k]
    BY <1>1
  <1>3. e \in [DOMAIN r -> DOMAIN s]
    BY <1>2
  <1>4. Embeds(r, s)
    BY <1>2, <1>3 DEF Embeds
  <1> QED
    BY <1>1, <1>4 DEF r

\* What lies in a list that lies in another lies in the other.
LEMMA EmbedsThrough ==
  ASSUME NEW s, NEW t, NEW u, Embeds(s, t), Embeds(t, u)
  PROVE  Embeds(s, u)
  <1>1. PICK e \in [DOMAIN s -> DOMAIN t] :
          /\ \A i \in DOMAIN s : s[i] = t[e[i]]
          /\ \A i, j \in DOMAIN s : i < j => e[i] < e[j]
    BY DEF Embeds
  <1>2. PICK f \in [DOMAIN t -> DOMAIN u] :
          /\ \A i \in DOMAIN t : t[i] = u[f[i]]
          /\ \A i, j \in DOMAIN t : i < j => f[i] < f[j]
    BY DEF Embeds
  <1> DEFINE g == [i \in DOMAIN s |-> f[e[i]]]
  <1>3. g \in [DOMAIN s -> DOMAIN u]
    BY <1>1, <1>2
  <1>4. \A i \in DOMAIN s : s[i] = u[g[i]]
    BY <1>1, <1>2
  <1>5. \A i, j \in DOMAIN s : i < j => g[i] < g[j]
    BY <1>1, <1>2
  <1> HIDE DEF g
  <1> QED
    BY <1>3, <1>4, <1>5 DEF Embeds

\* The search of InOrder: the next place of x in t behind k, and how far n of s reach.
IsNext(t, k, x, j) == (j = Len(t) + 1 \/ t[j] = x) /\ \A i \in k + 1..j - 1 : t[i] # x
NextIn(t, k, x) == CHOOSE j \in k + 1..Len(t) + 1 : IsNext(t, k, x, j)
Reached(s, t, k, n) == IF k > Len(t) THEN k ELSE NextIn(t, k, s[n])
IsSearch(g, s, t, m) == g = [n \in 0..m |-> IF n = 0 THEN 0 ELSE Reached(s, t, g[n - 1], n)]

\* There is a next place, at the latest beyond the end, and none before it.
LEMMA NextExists ==
  ASSUME NEW t, Len(t) \in Nat, NEW k \in 0..Len(t), NEW x
  PROVE  /\ NextIn(t, k, x) \in k + 1..Len(t) + 1
         /\ \A i \in k + 1..Len(t) : t[i] = x => NextIn(t, k, x) <= i
  <1> DEFINE T == {j \in k + 1..Len(t) + 1 : j = Len(t) + 1 \/ t[j] = x}
  <1>1. T \in SUBSET Nat /\ Len(t) + 1 \in T
    OBVIOUS
  <1>2. PICK j \in T : \A i \in T : j <= i
    BY <1>1, LeastNumber
  <1>3. j \in k + 1..Len(t) + 1 /\ IsNext(t, k, x, j)
    <2>1. \A i \in k + 1..j - 1 : i \in k + 1..Len(t) + 1 /\ ~(j <= i)
      BY <1>2
    <2> QED
      BY <1>2, <2>1 DEF IsNext
  <1>4. NextIn(t, k, x) \in k + 1..Len(t) + 1 /\ IsNext(t, k, x, NextIn(t, k, x))
    BY <1>3 DEF NextIn
  <1>5. ASSUME NEW i \in k + 1..Len(t), t[i] = x, ~(NextIn(t, k, x) <= i) PROVE FALSE
    <2>1. i \in k + 1..NextIn(t, k, x) - 1
      BY <1>4, <1>5
    <2> QED
      BY <1>4, <1>5, <2>1 DEF IsNext
  <1> QED
    BY <1>4, <1>5

\* The search exists: no first length is without one.
LEMMA SearchExists ==
  ASSUME NEW s, NEW t, Len(s) \in Nat
  PROVE  \E g : IsSearch(g, s, t, Len(s))
  <1> DEFINE N == Len(s)
             bad == {m \in 0..N : ~\E g : IsSearch(g, s, t, m)}
  <1>1. IsSearch([n \in 0..0 |-> 0], s, t, 0)
    BY DEF IsSearch
  <1>2. ASSUME NEW m \in 1..N, NEW g, IsSearch(g, s, t, m - 1) PROVE \E h : IsSearch(h, s, t, m)
    <2> DEFINE h == [n \in 0..m |-> IF n = m THEN Reached(s, t, g[m - 1], m) ELSE g[n]]
    <2>1. \A n \in 0..m : n # 0 => n - 1 \in 0..m - 1
      BY <1>2
    <2>2. \A n \in 0..m : n # m => n \in 0..m - 1
      BY <1>2
    <2>3. m # 0 /\ m \in 0..m /\ \A n \in 0..m - 1 : n \in 0..m /\ n # m
      BY <1>2
    <2>4. \A n \in 0..m - 1 : g[n] = IF n = 0 THEN 0 ELSE Reached(s, t, g[n - 1], n)
      BY <1>2 DEF IsSearch
    <2>5. \A n \in 0..m - 1 : h[n] = g[n]
      BY <2>3
    <2>6. \A n \in 0..m : h[n] = IF n = 0 THEN 0 ELSE Reached(s, t, h[n - 1], n)
      BY <2>1, <2>2, <2>3, <2>4, <2>5
    <2>7. h = [n \in 0..m |-> h[n]]
      OBVIOUS
    <2> HIDE DEF h
    <2>8. IsSearch(h, s, t, m)
      BY <2>6, <2>7 DEF IsSearch
    <2> QED
      BY <2>8
  <1>3. bad = {}
    <2> SUFFICES ASSUME bad # {} PROVE FALSE
      OBVIOUS
    <2>1. bad \in SUBSET Nat
      OBVIOUS
    <2>2. PICK m \in bad : \A k \in bad : m <= k
      BY <2>1, LeastNumber
    <2>3. m # 0
      BY <1>1, <2>2
    <2>4. m \in 1..N /\ m - 1 \in 0..N /\ m - 1 \notin bad
      BY <2>2, <2>3
    <2> QED
      BY <1>2, <2>2, <2>4
  <1>4. N \in 0..N
    OBVIOUS
  <1> QED
    BY <1>3, <1>4

\* Whatever lies in a list is found in it by the search, which is never behind.
LEMMA EmbedsInOrder ==
  ASSUME NEW T, NEW s \in Seq(T), NEW t \in Seq(T), Embeds(s, t)
  PROVE  InOrder(s, t)
  <1> DEFINE N == Len(s)
             f == CHOOSE g : IsSearch(g, s, t, N)
  <1>1. N \in Nat /\ Len(t) \in Nat /\ DOMAIN s = 1..N /\ DOMAIN t = 1..Len(t)
    OBVIOUS
  <1>2. InOrder(s, t) <=> f[N] <= Len(t)
    BY DEF InOrder, IsSearch, Reached, NextIn, IsNext
  <1>3. IsSearch(f, s, t, N)
    <2>1. \E g : IsSearch(g, s, t, N)
      BY <1>1, SearchExists
    <2> QED
      BY <2>1, Zenon
  <1> HIDE DEF f
  <1>4. f[0] = 0 /\ \A n \in 1..N : f[n] = Reached(s, t, f[n - 1], n)
    <2>1. 0 \in 0..N /\ \A n \in 1..N : n \in 0..N /\ n # 0
      BY <1>1
    <2>2. \A n \in 0..N : f[n] = IF n = 0 THEN 0 ELSE Reached(s, t, f[n - 1], n)
      BY <1>3 DEF IsSearch
    <2> QED
      BY <2>1, <2>2
  <1>5. PICK e \in [1..N -> 1..Len(t)] :
          /\ \A i \in 1..N : s[i] = t[e[i]]
          /\ \A i, j \in 1..N : i < j => e[i] < e[j]
    BY <1>1 DEF Embeds
  <1> DEFINE Behind(n) == f[n] \in 0..Len(t) /\ (n # 0 => f[n] <= e[n])
             bad == {n \in 0..N : ~Behind(n)}
  <1>6. Behind(0)
    BY <1>1, <1>4
  <1>7. ASSUME NEW n \in 1..N, Behind(n - 1) PROVE Behind(n)
    <2> DEFINE k == f[n - 1]
    <2>1. e[n] \in 1..Len(t) /\ s[n] = t[e[n]]
      BY <1>5
    <2>2. k \in 0..Len(t) /\ k < e[n]
      <3>1. CASE n = 1
        BY <1>4, <1>7, <2>1, <3>1
      <3>2. CASE n # 1
        <4>1. n - 1 \in 1..N /\ n - 1 < n /\ n - 1 # 0
          BY <1>1, <3>2
        <4>2. e[n - 1] < e[n] /\ e[n - 1] \in 1..Len(t)
          BY <1>5, <4>1
        <4> QED
          BY <1>1, <1>7, <2>1, <4>1, <4>2
      <3> QED
        BY <3>1, <3>2
    <2>3. f[n] = NextIn(t, k, s[n])
      BY <1>1, <1>4, <2>2 DEF Reached
    <2> HIDE DEF k
    <2>4. e[n] \in k + 1..Len(t)
      BY <1>1, <2>1, <2>2
    <2>5. NextIn(t, k, s[n]) \in k + 1..Len(t) + 1 /\ NextIn(t, k, s[n]) <= e[n]
      BY <1>1, <2>1, <2>2, <2>4, NextExists
    <2> QED
      BY <1>1, <2>1, <2>2, <2>3, <2>5
  <1>8. bad = {}
    <2> SUFFICES ASSUME bad # {} PROVE FALSE
      OBVIOUS
    <2>1. bad \in SUBSET Nat
      OBVIOUS
    <2> HIDE DEF Behind
    <2>2. PICK m \in bad : \A k \in bad : m <= k
      BY <2>1, LeastNumber
    <2>3. m # 0 /\ m \in 0..N
      BY <1>6, <2>2
    <2>4. m \in 1..N /\ m - 1 \in 0..N /\ m - 1 \notin bad
      BY <1>1, <2>2, <2>3
    <2> QED
      BY <1>7, <2>2, <2>4
  <1>9. Behind(N)
    BY <1>1, <1>8
  <1> QED
    BY <1>1, <1>2, <1>9

\* A list lies in another by where each of its elements stands there.
LEMMA EmbedsBy ==
  ASSUME NEW s, NEW t, NEW e \in [DOMAIN s -> DOMAIN t],
         \A i \in DOMAIN s : s[i] = t[e[i]], \A i, j \in DOMAIN s : i < j => e[i] < e[j]
  PROVE  Embeds(s, t)
  BY DEF Embeds

\* What SubSeq gives of a sequence from some place on.
LEMMA PartOf ==
  ASSUME NEW T, NEW x \in Seq(T), NEW m \in 1..Len(x) + 1, NEW n \in m - 1..Len(x)
  PROVE  /\ SubSeq(x, m, n) \in Seq(T) /\ Len(SubSeq(x, m, n)) = n - m + 1
         /\ \A i \in 1..n - m + 1 : SubSeq(x, m, n)[i] = x[m + i - 1]
  <1>1. m \in Int /\ n \in Int /\ Len(x) \in Nat /\ \A i \in m..n : i \in 1..Len(x)
    OBVIOUS
  <1>2. \A i \in m..n : x[i] \in T
    BY <1>1, ElementOfSeq
  <1>3. IF m <= n THEN n - m + 1 = n - m + 1 ELSE n - m + 1 = 0
    BY <1>1
  <1> DEFINE r == SubSeq(x, m, n)
  <1>4. r \in Seq(T) /\ Len(r) = (IF m <= n THEN n - m + 1 ELSE 0) /\ \A i \in 1..n - m + 1 : r[i] = x[m + i - 1]
    BY <1>1, <1>2, SubSeqProperties
  <1> HIDE DEF r
  <1>5. Len(r) = n - m + 1
    BY <1>1, <1>3, <1>4
  <1> QED
    BY <1>4, <1>5 DEF r

\* A list lies in what rules.prepend, append and insertAt make of it, which is no shorter.
LEMMA AddedEmbeds ==
  ASSUME NEW T, NEW items \in Seq(T), NEW new \in Seq(T)
  PROVE  /\ Reverse(new) \o items \in Seq(T) /\ Embeds(items, Reverse(new) \o items)
         /\ Len(Reverse(new) \o items) >= Len(items)
         /\ items \o new \in Seq(T) /\ Embeds(items, items \o new) /\ Len(items \o new) >= Len(items)
         /\ \A at \in 0..Len(items) :
              /\ Inserted(items, at, new) \in Seq(T) /\ Embeds(items, Inserted(items, at, new))
              /\ Len(Inserted(items, at, new)) >= Len(items)
  <1> DEFINE n == Len(items)
             m == Len(new)
             r == Reverse(new)
  <1>1. n \in Nat /\ m \in Nat /\ DOMAIN items = 1..n /\ \A i \in 1..n : items[i] \in T
    OBVIOUS
  <1>2. r \in Seq(T) /\ Len(r) = m
    BY DEF Reverse
  <1>3. r \o items \in Seq(T) /\ Embeds(items, r \o items) /\ Len(r \o items) >= n
    <2>1. r \o items \in Seq(T) /\ Len(r \o items) = m + n /\ \A i \in 1..n : (r \o items)[i + m] = items[i]
      BY <1>1, <1>2
    <2> DEFINE e == [i \in 1..n |-> i + m]
    <2>2. e \in [DOMAIN items -> DOMAIN (r \o items)]
      BY <1>1, <2>1
    <2>3. \A i, j \in DOMAIN items : i < j => e[i] < e[j]
      BY <1>1
    <2>4. \A i \in DOMAIN items : items[i] = (r \o items)[e[i]]
      BY <1>1, <2>1
    <2> HIDE DEF e
    <2> QED
      <3> DEFINE t == r \o items
      <3>1. e \in [DOMAIN items -> DOMAIN t] /\ \A i \in DOMAIN items : items[i] = t[e[i]]
        BY <2>2, <2>4
      <3> HIDE DEF t
      <3>2. Embeds(items, t)
        BY <2>3, <3>1, EmbedsBy
      <3> QED
        BY <1>1, <2>1, <3>2 DEF t
  <1>4. items \o new \in Seq(T) /\ Embeds(items, items \o new) /\ Len(items \o new) >= n
    <2>1. items \o new \in Seq(T) /\ Len(items \o new) = n + m /\ \A i \in 1..n : (items \o new)[i] = items[i]
      BY <1>1
    <2> DEFINE e == [i \in 1..n |-> i]
    <2>2. e \in [DOMAIN items -> DOMAIN (items \o new)]
      BY <1>1, <2>1
    <2>3. \A i, j \in DOMAIN items : i < j => e[i] < e[j]
      BY <1>1
    <2>4. \A i \in DOMAIN items : items[i] = (items \o new)[e[i]]
      BY <1>1, <2>1
    <2> HIDE DEF e
    <2> QED
      <3> DEFINE t == items \o new
      <3>1. e \in [DOMAIN items -> DOMAIN t] /\ \A i \in DOMAIN items : items[i] = t[e[i]]
        BY <2>2, <2>4
      <3> HIDE DEF t
      <3>2. Embeds(items, t)
        BY <2>3, <3>1, EmbedsBy
      <3> QED
        BY <1>1, <2>1, <3>2 DEF t
  <1>5. ASSUME NEW at \in 0..n
        PROVE  /\ Inserted(items, at, new) \in Seq(T) /\ Embeds(items, Inserted(items, at, new))
               /\ Len(Inserted(items, at, new)) >= n
    <2> DEFINE a == SubSeq(items, 1, at)
               b == SubSeq(items, at + 1, n)
               t == a \o new \o b
    <2>1. a \in Seq(T) /\ Len(a) = at /\ \A i \in 1..at : a[i] = items[i]
      BY <1>1
    <2>2. b \in Seq(T) /\ Len(b) = n - at /\ \A i \in 1..n - at : b[i] = items[at + i]
      <3> DEFINE k == at + 1
      <3>1. k \in 1..Len(items) + 1 /\ n \in k - 1..Len(items)
        BY <1>1
      <3> HIDE DEF k
      <3> DEFINE z == SubSeq(items, k, n)
      <3>2. z \in Seq(T) /\ Len(z) = n - k + 1 /\ \A i \in 1..n - k + 1 : z[i] = items[k + i - 1]
        BY <1>1, <3>1, PartOf
      <3>3. z = b
        BY DEF k
      <3> HIDE DEF z, b
      <3>4. n - k + 1 = n - at /\ \A i \in 1..n - at : k + i - 1 = at + i
        BY <1>1 DEF k
      <3> QED
        BY <3>2, <3>3, <3>4
    <2> HIDE DEF a, b
    <2>3. t \in Seq(T) /\ Len(t) = n + m
      <3>1. a \o new \in Seq(T) /\ Len(a \o new) = at + m
        BY <2>1, ConcatProperties
      <3>2. (a \o new) \o b \in Seq(T) /\ Len((a \o new) \o b) = (at + m) + (n - at)
        <4> DEFINE c == a \o new
        <4> HIDE DEF c
        <4>1. c \in Seq(T) /\ Len(c) = at + m
          BY <3>1 DEF c
        <4>2. b \in Seq(T) /\ Len(b) = n - at
          BY <2>2
        <4>3. c \o b \in Seq(T) /\ Len(c \o b) = Len(c) + Len(b)
          BY <4>1, <4>2, ConcatProperties
        <4> QED
          BY <4>1, <4>2, <4>3 DEF c
      <3> QED
        BY <1>1, <3>2
    <2>4. \A i \in 1..at : t[i] = items[i]
      BY <1>1, <2>1, <2>2
    <2>5. \A i \in at + 1..n : t[i + m] = items[i]
      <3> SUFFICES ASSUME NEW i \in at + 1..n PROVE t[i + m] = items[i]
        OBVIOUS
      <3>1. i - at \in 1..n - at /\ at + (i - at) = i /\ i + m = (at + m) + (i - at)
        BY <1>1
      <3>2. b[i - at] = items[i]
        BY <2>2, <3>1
      <3>3. a \o new \in Seq(T) /\ Len(a \o new) = at + m
        BY <2>1, ConcatProperties
      <3>4. t[(at + m) + (i - at)] = b[i - at]
        <4> DEFINE c == a \o new
        <4>1. c \in Seq(T) /\ Len(c) = at + m /\ t = c \o b
          BY <3>3
        <4> HIDE DEF c, t
        <4>2. \A k \in 1..Len(b) : (c \o b)[Len(c) + k] = b[k]
          <5>1. \A k \in 1..Len(c) + Len(b) : (c \o b)[k] = IF k <= Len(c) THEN c[k] ELSE b[k - Len(c)]
            BY <2>2, <4>1, ConcatProperties
          <5>2. Len(c) \in Nat /\ Len(b) \in Nat
            BY <2>2, <4>1
          <5>3. \A k \in 1..Len(b) : Len(c) + k \in 1..Len(c) + Len(b) /\ ~(Len(c) + k <= Len(c)) /\ (Len(c) + k) - Len(c) = k
            BY <5>2
          <5> QED
            BY <5>1, <5>3
        <4> QED
          BY <1>1, <2>2, <3>1, <4>1, <4>2
      <3> QED
        BY <3>1, <3>2, <3>4
    <2>6. Inserted(items, at, new) = t
      BY DEF Inserted, a, b
    <2> HIDE DEF t
    <2> DEFINE e == [i \in 1..n |-> IF i <= at THEN i ELSE i + m]
    <2>7. e \in [DOMAIN items -> DOMAIN t]
      BY <1>1, <2>3
    <2>8. \A i, j \in DOMAIN items : i < j => e[i] < e[j]
      BY <1>1
    <2>9. \A i \in DOMAIN items : items[i] = t[e[i]]
      BY <1>1, <2>4, <2>5
    <2> HIDE DEF e
    <2> QED
      <3>1. Embeds(items, t)
        BY <2>7, <2>8, <2>9, EmbedsBy
      <3> QED
        BY <1>1, <2>3, <2>6, <3>1
  <1> QED
    BY <1>3, <1>4, <1>5

\* retain with a set of those seen takes nothing but what is there another time.
LEMMA FirstsKept ==
  ASSUME NEW T, NEW s \in Seq(T)
  PROVE  KeepFirst(s, s) \in Seq(T) /\ Embeds(KeepFirst(s, s), s) /\ Range(KeepFirst(s, s)) = Range(s)
  <1> DEFINE P == {n \in DOMAIN s : \A k \in 1..n - 1 : s[k] # s[n]}
             r == Chosen(s, P)
  <1>1. r = KeepFirst(s, s) /\ P \subseteq DOMAIN s
    BY DEF KeepFirst
  <1>2. ASSUME NEW n \in DOMAIN s PROVE \E k \in P : s[k] = s[n]
    <2> DEFINE same == {k \in DOMAIN s : s[k] = s[n]}
    <2>1. same \in SUBSET Nat /\ n \in same
      OBVIOUS
    <2>2. PICK k \in same : \A j \in same : k <= j
      <3> HIDE DEF same
      <3> QED
        BY <2>1, LeastNumber
    <2>3. \A j \in 1..k - 1 : j \in DOMAIN s /\ ~(k <= j)
      OBVIOUS
    <2>4. k \in P
      BY <2>2, <2>3
    <2> QED
      BY <2>4
  <1> HIDE DEF P
  <1>3. /\ r \in Seq(T)
        /\ \E e \in [DOMAIN r -> P] :
             (\A k \in DOMAIN r : r[k] = s[e[k]]) /\ (\A i \in P : \E k \in DOMAIN r : e[k] = i)
    BY <1>1, ChosenProperties
  <1>4. Embeds(r, s)
    BY <1>1, ChosenEmbeds
  <1> HIDE DEF r
  <1>5. PICK e \in [DOMAIN r -> P] :
             (\A k \in DOMAIN r : r[k] = s[e[k]]) /\ (\A i \in P : \E k \in DOMAIN r : e[k] = i)
    BY <1>3
  <1>6. Range(r) \subseteq Range(s)
    BY <1>1, <1>5 DEF Range
  <1>7. Range(s) \subseteq Range(r)
    <2> SUFFICES ASSUME NEW n \in DOMAIN s PROVE \E k \in DOMAIN r : r[k] = s[n]
      BY DEF Range
    <2> QED
      BY <1>2, <1>5
  <1> QED
    BY <1>1, <1>3, <1>4, <1>6, <1>7

\* What is chosen from a list is no longer than it.
LEMMA ChosenIsNoLonger ==
  ASSUME NEW T, NEW s \in Seq(T), NEW P, P \subseteq DOMAIN s
  PROVE  Chosen(s, P) \in Seq(T) /\ Len(Chosen(s, P)) <= Len(s)
  <1>1. Len(s) \in Nat /\ P \subseteq 1..Len(s)
    OBVIOUS
  <1>2. IsFiniteSet(1..Len(s)) /\ Cardinality(1..Len(s)) = Len(s)
    <2> DEFINE n == Len(s)
    <2>1. n \in Nat
      BY <1>1
    <2> HIDE DEF n
    <2>2. IsFiniteSet(1..n) /\ Cardinality(1..n) = IF 1 > n THEN 0 ELSE n - 1 + 1
      BY <2>1, 1 \in Int, n \in Int, FS_Interval
    <2>3. Cardinality(1..n) = n
      BY <2>1, <2>2
    <2> QED
      BY <2>2, <2>3 DEF n
  <1>3. Cardinality(P) \in Nat /\ Cardinality(P) <= Len(s)
    <2> DEFINE D == 1..Len(s)
    <2>1. IsFiniteSet(D) /\ P \in SUBSET D /\ Cardinality(D) = Len(s)
      BY <1>1, <1>2
    <2> HIDE DEF D
    <2>2. IsFiniteSet(P) /\ Cardinality(P) <= Cardinality(D)
      BY <2>1, FS_Subset
    <2> QED
      BY <2>1, <2>2, FS_CardinalityType
  <1>4. Chosen(s, P) \in Seq(T)
    BY ChosenEmbeds
  <1>5. DOMAIN Chosen(s, P) = 1..Cardinality(P)
    BY DEF Chosen
  <1> DEFINE r == Chosen(s, P)  n == Cardinality(P)
  <1> HIDE DEF r, n
  <1>6. r \in Seq(T) /\ DOMAIN r = 1..n /\ n \in Nat => Len(r) = n
    OBVIOUS
  <1> QED
    BY <1>1, <1>3, <1>4, <1>5, <1>6 DEF r, n

\* What is left of the members does not grow; what is pushed is new, and behind what is there.
LEMMA MembersGrow ==
  ASSUME NEW T, NEW s \in Seq(T)
  PROVE  /\ Grown(s, s)
         /\ \A S : Retained(s, S) \in Seq(T) /\ Grown(s, Retained(s, S))
         /\ \A new \in Seq(T) : Pushed(s, new) \in Seq(T) /\ Grown(s, Pushed(s, new))
  <1>1. Grown(s, s)
    BY DEF Grown
  <1>2. ASSUME NEW S PROVE Retained(s, S) \in Seq(T) /\ Grown(s, Retained(s, S))
    <2> DEFINE P == {i \in DOMAIN s : s[i] \notin S}
    <2>1. P \subseteq DOMAIN s /\ Retained(s, S) = Chosen(s, P)
      BY DEF Retained
    <2> HIDE DEF P
    <2>2. Chosen(s, P) \in Seq(T) /\ Len(Chosen(s, P)) <= Len(s)
      BY <2>1, ChosenIsNoLonger
    <2> DEFINE r == Chosen(s, P)
    <2> HIDE DEF r
    <2>3. r \in Seq(T) /\ Len(r) <= Len(s) => ~(Len(r) > Len(s))
      OBVIOUS
    <2> QED
      BY <2>1, <2>2, <2>3 DEF Grown, r
  <1>3. ASSUME NEW new \in Seq(T) PROVE Pushed(s, new) \in Seq(T) /\ Grown(s, Pushed(s, new))
    <2> DEFINE P == {n \in DOMAIN new : new[n] \notin Range(s) /\ \A k \in 1..n - 1 : new[k] # new[n]}
               r == Chosen(new, P)
               t == s \o r
    <2>1. P \subseteq DOMAIN new /\ \A i \in P : new[i] \notin Range(s)
      OBVIOUS
    <2>2. ASSUME NEW i \in P, NEW j \in P, i < j PROVE new[i] # new[j]
      <3>1. i \in Nat \ {0} /\ j \in Nat \ {0}
        OBVIOUS
      <3>2. i \in 1..j - 1
        BY <2>2, <3>1
      <3> QED
        BY <3>2
    <2>3. Pushed(s, new) = t
      BY DEF Pushed
    <2> HIDE DEF P
    <2>4. /\ r \in Seq(T)
          /\ \E e \in [DOMAIN r -> P] : /\ \A k \in DOMAIN r : r[k] = new[e[k]]
                                        /\ \A j, k \in DOMAIN r : j < k => e[j] < e[k]
      BY <2>1, ChosenProperties
    <2> HIDE DEF r
    <2>5. PICK e \in [DOMAIN r -> P] : /\ \A k \in DOMAIN r : r[k] = new[e[k]]
                                       /\ \A j, k \in DOMAIN r : j < k => e[j] < e[k]
      BY <2>4
    <2>6. /\ \A k \in DOMAIN r : r[k] \notin Range(s)
          /\ \A j, k \in DOMAIN r : j < k => r[j] # r[k]
      BY <2>1, <2>2, <2>5
    <2>7. /\ t \in Seq(T) /\ Len(t) = Len(s) + Len(r) /\ Len(s) \in Nat /\ Len(r) \in Nat
          /\ DOMAIN r = 1..Len(r)
      BY <2>4
    <2>8. ASSUME NEW i \in 1..Len(s) + Len(r)
          PROVE  /\ i <= Len(s) => i \in DOMAIN s /\ t[i] = s[i]
                 /\ ~(i <= Len(s)) => i - Len(s) \in DOMAIN r /\ t[i] = r[i - Len(s)]
      BY <2>4
    <2> HIDE DEF t
    <2>9. ASSUME NEW j \in Len(s) + 1..Len(t), NEW i \in 1..j - 1 PROVE t[i] # t[j]
      <3>1. /\ j \in 1..Len(s) + Len(r) /\ i \in 1..Len(s) + Len(r) /\ ~(j <= Len(s)) /\ i < j
            /\ i - Len(s) < j - Len(s)
        BY <2>7
      <3>2. t[j] = r[j - Len(s)] /\ j - Len(s) \in DOMAIN r
        BY <2>8, <3>1
      <3>3. CASE i <= Len(s)
        <4>1. t[i] \in Range(s)
          BY <2>8, <3>1, <3>3 DEF Range
        <4> QED
          BY <2>6, <3>2, <4>1
      <3>4. CASE ~(i <= Len(s))
        BY <2>6, <2>8, <3>1, <3>2, <3>4
      <3> QED
        BY <3>3, <3>4
    <2>10. SubSeq(t, 1, Len(s)) = s
      <3>1. \A i \in 1..Len(s) : i \in 1..Len(s) + Len(r) /\ t[i] = s[i] /\ t[i] \in T
        BY <2>7, <2>8, ElementOfSeq
      <3>2. /\ SubSeq(t, 1, Len(s)) \in Seq(T) /\ Len(SubSeq(t, 1, Len(s))) = Len(s)
            /\ \A i \in 1..Len(s) : SubSeq(t, 1, Len(s))[i] = t[i]
        BY <2>7, <3>1, SubSeqFromStart
      <3>3. \A i \in 1..Len(s) : SubSeq(t, 1, Len(s))[i] = s[i]
        BY <3>1, <3>2
      <3> QED
        BY <3>2, <3>3, SeqEqual
    <2> QED
      BY <2>3, <2>7, <2>9, <2>10 DEF Grown
  <1> QED
    BY <1>1, <1>2, <1>3

Group == [name : STRING, members : Seq(Names)]
RulesType == rules \in [kind : RuleKinds, items : Seq(STRING)]
SnapshotFresh ==
  /\ callback.list \in {"none", "proxies", "rules"}
  /\ callback.list = "proxies" /\ ~shifted => callback.snapshot = proxies
  /\ callback.list = "rules" =>
       /\ callback.snapshot \in Seq(STRING)
       /\ ~shifted => callback.snapshot = Shown(rules.items)
GroupsDiffer(gs) ==
  /\ gs \in Seq(Group)
  /\ \A n, k \in DOMAIN gs : gs[n].name = gs[k].name => n = k
ListsInv == RulesType /\ SnapshotFresh /\ GroupsDiffer(groups)

\* What a call that writes the rules has to do with the list before it, and what a removal
\* writes back.
RulesMove ==
  rules'.items # rules.items =>
    \/ InOrder(rules.items, rules'.items)
    \/ InOrder(rules'.items, rules.items) /\ Range(rules'.items) = Range(rules.items)
    \/ callback.list = "rules" /\ callback'.list = "none"
RemovalExact ==
  callback.list # "none" /\ callback'.list = "none" /\ ~shifted =>
    \/ UNCHANGED <<proxies, rules>>
    \/ callback.list = "proxies" /\ proxies' = KeptProxies(proxies) /\ UNCHANGED rules
    \/ callback.list = "rules" /\ rules'.items = KeptRules(Shown(rules.items)) /\ UNCHANGED proxies
\* The groups of a name before and after.
GroupsGrow(new) ==
  \A n \in DOMAIN groups, k \in DOMAIN new :
    groups[n].name = new[k].name => Grown(groups[n].members, new[k].members)

\* It holds before the first call.
LEMMA ListsStart == ApiInit => ListsInv
  <1> SUFFICES ASSUME ApiInit PROVE ListsInv
    OBVIOUS
  <1>1. RulesType /\ SnapshotFresh
    BY ApiAssumption DEF ApiInit, RulesType, SnapshotFresh, NoCallback
  <1>2. GroupsDiffer(groups)
    BY ApiAssumption DEF ApiInit, GroupsDiffer, Group
  <1> QED
    BY <1>1, <1>2 DEF ListsInv

\* What is written as rules is typed as they are.
LEMMA RulesTyped ==
  ASSUME NEW S, NEW items \in S
  PROVE  [kind |-> "list", items |-> items] \in [kind : RuleKinds, items : S]
  BY DEF RuleKinds

\* A call that writes the rules, and a call that writes the proxies.
LEMMA RulesCallKeeps ==
  ASSUME ListsInv, NEW items \in Seq(STRING), RulesCall(items)
  PROVE  ListsInv' /\ rules'.items = items /\ proxies' = proxies /\ groups' = groups
  <1>1. rules' = [kind |-> "list", items |-> items] /\ proxies' = proxies /\ groups' = groups /\ callback' = callback
        /\ shifted' = (shifted \/ InCallback)
    BY DEF RulesCall
  <1>2. RulesType' /\ rules'.items = items
    BY <1>1, RulesTyped DEF RulesType
  <1>3. SnapshotFresh'
    BY <1>1 DEF ListsInv, SnapshotFresh, InCallback
  <1> QED
    BY <1>1, <1>2, <1>3 DEF ListsInv, GroupsDiffer

\* A call that writes the proxies.
LEMMA ProxyCallKeeps ==
  ASSUME ListsInv, NEW new, ProxyCall(new)
  PROVE  ListsInv' /\ rules' = rules /\ groups' = groups
  BY DEF ProxyCall, ListsInv, RulesType, SnapshotFresh, GroupsDiffer, InCallback

\* The rules after each call that adds some or takes those that are twice.
LEMMA RuleCalls ==
  ASSUME ListsInv,
         \/ \E new \in NewRules : RulesPrepend(new) \/ RulesAppend(new)
         \/ \E new \in NewRules, at \in 0..2 : RulesInsert(at, new) \/ RulesInsertPanics(at, new)
         \/ RulesDedup
  PROVE  ListsInv' /\ RulesMove /\ callback' = callback /\ groups' = groups
  <1>1. rules.items \in Seq(STRING) /\ Len(rules.items) \in Nat
    BY DEF ListsInv, RulesType
  <1>2. ASSUME NEW items \in Seq(STRING), RulesCall(items), Embeds(rules.items, items), Len(items) >= Len(rules.items)
        PROVE  ListsInv' /\ RulesMove /\ callback' = callback /\ groups' = groups
    <2>1. ListsInv' /\ rules'.items = items /\ groups' = groups /\ callback' = callback
      BY <1>2, RulesCallKeeps DEF RulesCall
    <2>2. InOrder(rules.items, items)
      BY <1>1, <1>2, EmbedsInOrder
    <2>3. ~(Len(items) < Len(rules.items))
      BY <1>1, <1>2
    <2> QED
      BY <2>1, <2>2, <2>3 DEF RulesMove
  <1>3. ASSUME NEW new \in NewRules,
               \/ RulesPrepend(new) \/ RulesAppend(new)
               \/ \E at \in 0..2 : RulesInsert(at, new) \/ RulesInsertPanics(at, new)
        PROVE  ListsInv' /\ RulesMove /\ callback' = callback /\ groups' = groups
    <2>1. new \in Seq(STRING)
      BY ApiAssumption
    <2>2. CASE RulesPrepend(new)
      BY <1>1, <1>2, <2>1, <2>2, AddedEmbeds DEF RulesPrepend
    <2>3. CASE RulesAppend(new)
      BY <1>1, <1>2, <2>1, <2>3, AddedEmbeds DEF RulesAppend
    <2>4. ASSUME NEW at \in 0..2, RulesInsert(at, new)
          PROVE  ListsInv' /\ RulesMove /\ callback' = callback /\ groups' = groups
      <3>1. at \in 0..Len(rules.items) /\ RulesCall(Inserted(rules.items, at, new))
        BY <1>1, <2>4 DEF RulesInsert
      <3>2. /\ Inserted(rules.items, at, new) \in Seq(STRING) /\ Embeds(rules.items, Inserted(rules.items, at, new))
            /\ Len(Inserted(rules.items, at, new)) >= Len(rules.items)
        BY <1>1, <2>1, <3>1, AddedEmbeds
      <3> QED
        BY <1>2, <3>1, <3>2
    <2>5. ASSUME NEW at \in 0..2, RulesInsertPanics(at, new)
          PROVE  ListsInv' /\ RulesMove /\ callback' = callback /\ groups' = groups
      <3>1. /\ UNCHANGED <<doc, said, proxies, groups, callback, shifted>>
            /\ rules' = rules \/ rules' = [kind |-> "list", items |-> rules.items]
        BY <2>5 DEF RulesInsertPanics
      <3>2. RulesType' /\ rules'.items = rules.items
        BY <1>1, <3>1, RulesTyped DEF ListsInv, RulesType
      <3> QED
        BY <3>1, <3>2 DEF ListsInv, SnapshotFresh, GroupsDiffer, RulesMove
    <2> QED
      BY <1>3, <2>2, <2>3, <2>4, <2>5
  <1>4. CASE RulesDedup
    <2> DEFINE items == KeepFirst(rules.items, rules.items)
    <2>1. RulesCall(items)
      BY <1>4 DEF RulesDedup
    <2>2. items \in Seq(STRING) /\ Embeds(items, rules.items) /\ Range(items) = Range(rules.items)
      BY <1>1, FirstsKept
    <2> HIDE DEF items
    <2>3. InOrder(items, rules.items)
      BY <1>1, <2>2, EmbedsInOrder
    <2>4. ListsInv' /\ rules'.items = items /\ groups' = groups /\ callback' = callback
      BY <2>1, <2>2, RulesCallKeeps DEF RulesCall
    <2> QED
      BY <2>2, <2>3, <2>4 DEF RulesMove
  <1> QED
    BY <1>3, <1>4

\* A removal: what its callback was shown is the list as it is unless something changed it.
LEMMA RemoveBeginKeeps ==
  ASSUME ListsInv, NEW list \in {"proxies", "rules"}, NEW keep, RemoveBegin(list, keep)
  PROVE  ListsInv' /\ rules' = rules /\ groups' = groups
  <1>1. rules.items \in Seq(STRING)
    BY DEF ListsInv, RulesType
  <1>2. Shown(rules.items) \in Seq(STRING)
    <2>1. {i \in DOMAIN rules.items : rules.items[i] \notin {"object"}} \subseteq DOMAIN rules.items
      OBVIOUS
    <2> QED
      BY <1>1, <2>1, ChosenEmbeds DEF Retained, Shown
  <1> DEFINE shown == IF list = "proxies" THEN proxies ELSE Shown(rules.items)
  <1>3. callback' = [list |-> list, keep |-> keep, snapshot |-> shown]
    BY DEF RemoveBegin
  <1>4. callback'.list = list /\ callback'.snapshot = shown
    BY <1>3
  <1>5. rules' = rules /\ groups' = groups /\ proxies' = proxies
    BY DEF RemoveBegin
  <1> QED
    BY <1>2, <1>4, <1>5 DEF ListsInv, RulesType, SnapshotFresh, GroupsDiffer

\* What a removal writes back, if its callback does not throw.
LEMMA RemoveEndKeeps ==
  ASSUME ListsInv, RemoveEnd \/ RemoveThrows
  PROVE  ListsInv' /\ RulesMove /\ RemovalExact /\ groups' = groups
  <1>1. groups' = groups /\ callback' = NoCallback
    BY DEF RemoveEnd, RemoveThrows
  <1>2. RulesType /\ SnapshotFresh /\ InCallback /\ rules.items \in Seq(STRING)
    BY DEF ListsInv, RulesType, RemoveEnd, RemoveThrows
  <1>3. SnapshotFresh' /\ callback'.list = "none"
    BY <1>1 DEF SnapshotFresh, NoCallback
  <1>4. CASE RemoveThrows
    <2>1. UNCHANGED <<proxies, rules>>
      BY <1>4 DEF RemoveThrows
    <2> QED
      BY <1>1, <1>2, <1>3, <2>1 DEF ListsInv, RulesType, GroupsDiffer, RulesMove, RemovalExact
  <1>5. CASE RemoveEnd /\ callback.list = "proxies"
    <2>1. rules' = rules /\ proxies' = KeptProxies(callback.snapshot)
      BY <1>5 DEF RemoveEnd
    <2>2. ~shifted => proxies' = KeptProxies(proxies)
      BY <1>2, <1>5, <2>1 DEF SnapshotFresh
    <2> QED
      BY <1>1, <1>2, <1>3, <1>5, <2>1, <2>2 DEF ListsInv, RulesType, GroupsDiffer, RulesMove, RemovalExact
  <1>6. CASE RemoveEnd /\ callback.list = "rules"
    <2> DEFINE seen == callback.snapshot
               P == {i \in DOMAIN seen : seen[i] \notin Range(seen) \ callback.keep}
    <2>1. proxies' = proxies /\ (rules' = rules \/ rules' = [kind |-> "list", items |-> KeptRules(seen)])
      BY <1>6 DEF RemoveEnd
    <2>2. seen \in Seq(STRING) /\ (~shifted => seen = Shown(rules.items))
      BY <1>2, <1>6 DEF SnapshotFresh
    <2>3. KeptRules(seen) \in Seq(STRING)
      <3>1. KeptRules(seen) = Chosen(seen, P) /\ P \subseteq DOMAIN seen
        BY DEF Retained, KeptRules
      <3> HIDE DEF P, seen
      <3> QED
        BY <2>2, <3>1, ChosenEmbeds
    <2> DEFINE items == KeptRules(seen)
    <2>4. ~shifted => items = KeptRules(Shown(rules.items))
      BY <2>2
    <2> HIDE DEF seen, items
    <2>5. [kind |-> "list", items |-> items] \in [kind : RuleKinds, items : Seq(STRING)]
      BY <2>3, RulesTyped DEF items
    <2>6. RulesType' /\ (rules' = rules \/ rules'.items = items)
      BY <1>2, <2>1, <2>5 DEF RulesType, items
    <2>7. RulesMove
      BY <1>3, <1>6 DEF RulesMove
    <2>8. RemovalExact
      BY <1>6, <2>1, <2>4, <2>6 DEF RemovalExact
    <2> QED
      BY <1>1, <1>3, <2>6, <2>7, <2>8 DEF ListsInv, GroupsDiffer
  <1> QED
    BY <1>2, <1>4, <1>5, <1>6 DEF SnapshotFresh, InCallback

\* The groups: names stay apart.
LEMMA GroupCallKeeps ==
  ASSUME ListsInv, NEW new, GroupsDiffer(new), GroupsGrow(new), GroupCall(new)
  PROVE  ListsInv' /\ rules' = rules /\ callback' = callback /\ GroupsGrow(groups')
  BY DEF GroupCall, ListsInv, RulesType, SnapshotFresh, GroupsDiffer

\* Groups that stay do not grow.
LEMMA GroupsStay ==
  ASSUME GroupsDiffer(groups)
  PROVE  GroupsGrow(groups)
  <1>1. ASSUME NEW n \in DOMAIN groups PROVE Grown(groups[n].members, groups[n].members)
    <2>1. groups[n] \in Group
      BY DEF GroupsDiffer
    <2>2. groups[n].members \in Seq(Names)
      BY <2>1 DEF Group
    <2> QED
      BY <2>2, MembersGrow
  <1> QED
    BY <1>1 DEF GroupsGrow, GroupsDiffer

\* A group gets other members and keeps its name.
LEMMA MembersChanged ==
  ASSUME GroupsDiffer(groups), NEW g, NEW ms, DOMAIN ms = DOMAIN groups,
         \A n \in DOMAIN groups : ms[n] \in Seq(Names) /\ Grown(groups[n].members, ms[n])
  PROVE  LET new == [n \in DOMAIN groups |-> IF ~Meant(n, g) THEN groups[n] ELSE [name |-> g, members |-> ms[n]]]
         IN  GroupsDiffer(new) /\ GroupsGrow(new)
  <1> DEFINE new == [n \in DOMAIN groups |-> IF ~Meant(n, g) THEN groups[n] ELSE [name |-> g, members |-> ms[n]]]
  <1>1. groups \in Seq(Group) /\ Len(groups) \in Nat /\ DOMAIN groups = 1..Len(groups)
    BY DEF GroupsDiffer
  <1>2. ASSUME NEW n \in DOMAIN groups
        PROVE  new[n] \in Group /\ new[n].name = groups[n].name /\ Grown(groups[n].members, new[n].members)
    <2>1. groups[n] \in Group
      BY <1>1
    <2>2. Grown(groups[n].members, groups[n].members)
      <3>1. groups[n].members \in Seq(Names)
        BY <2>1 DEF Group
      <3> QED
        BY <3>1, MembersGrow
    <2>3. CASE ~Meant(n, g)
      BY <2>1, <2>2, <2>3
    <2>4. CASE Meant(n, g)
      <3>1. new[n] = [name |-> g, members |-> ms[n]] /\ groups[n].name = g
        BY <2>4 DEF Meant
      <3>2. g \in STRING
        BY <2>1, <3>1 DEF Group
      <3> QED
        BY <3>1, <3>2 DEF Group
    <2> QED
      BY <2>3, <2>4
  <1>3. DOMAIN new = DOMAIN groups
    OBVIOUS
  <1>4. new \in Seq(Group)
    <2>1. new = [n \in 1..Len(groups) |-> new[n]]
      BY <1>1
    <2> HIDE DEF new
    <2> QED
      BY <1>1, <1>2, <1>3, <2>1
  <1> HIDE DEF new
  <1>5. GroupsDiffer(new)
    BY <1>2, <1>3, <1>4 DEF GroupsDiffer
  <1>6. GroupsGrow(new)
    BY <1>2, <1>3 DEF GroupsGrow, GroupsDiffer
  <1> QED
    BY <1>5, <1>6 DEF new

\* The calls on the groups.
LEMMA GroupCalls ==
  ASSUME ListsInv,
         \/ \E g \in GroupNames, x, y \in Names : GroupAdd(g, <<x, y>>) \/ GroupCreate(g, <<x, y>>)
         \/ \E g \in GroupNames, gone \in SUBSET Names : GroupDrop(g, gone)
         \/ \E g \in GroupNames : GroupRemove(g)
  PROVE  ListsInv' /\ rules' = rules /\ callback' = callback /\ GroupsGrow(groups')
  <1>1. GroupsDiffer(groups) /\ groups \in Seq(Group) /\ Len(groups) \in Nat /\ DOMAIN groups = 1..Len(groups)
    BY DEF ListsInv, GroupsDiffer
  <1>2. ASSUME NEW n \in DOMAIN groups PROVE groups[n] \in Group /\ groups[n].members \in Seq(Names)
    <2>1. groups[n] \in Group
      BY <1>1
    <2> QED
      BY <1>1, <2>1 DEF GroupsDiffer, Group
  <1>3. ASSUME NEW g \in GroupNames, NEW x \in Names, NEW y \in Names, GroupAdd(g, <<x, y>>)
        PROVE  ListsInv' /\ rules' = rules /\ callback' = callback /\ GroupsGrow(groups')
    <2> DEFINE ms == [n \in DOMAIN groups |-> Pushed(groups[n].members, <<x, y>>)]
    <2>1. <<x, y>> \in Seq(Names)
      OBVIOUS
    <2>2. \A n \in DOMAIN groups : ms[n] \in Seq(Names) /\ Grown(groups[n].members, ms[n])
      BY <1>2, <2>1, MembersGrow
    <2>3. GroupCall([n \in DOMAIN groups |-> IF ~Meant(n, g) THEN groups[n] ELSE [name |-> g, members |-> ms[n]]])
      BY <1>3 DEF GroupAdd
    <2> HIDE DEF ms
    <2> QED
      BY <1>1, <2>2, <2>3, MembersChanged, GroupCallKeeps DEF ms
  <1>4. ASSUME NEW g \in GroupNames, NEW gone, GroupDrop(g, gone)
        PROVE  ListsInv' /\ rules' = rules /\ callback' = callback /\ GroupsGrow(groups')
    <2> DEFINE ms == [n \in DOMAIN groups |-> Retained(groups[n].members, gone)]
    <2>1. \A n \in DOMAIN groups : ms[n] \in Seq(Names) /\ Grown(groups[n].members, ms[n])
      BY <1>2, MembersGrow
    <2>2. GroupCall([n \in DOMAIN groups |-> IF ~Meant(n, g) THEN groups[n] ELSE [name |-> g, members |-> ms[n]]])
      BY <1>4 DEF GroupDrop
    <2> HIDE DEF ms
    <2> QED
      BY <1>1, <2>1, <2>2, MembersChanged, GroupCallKeeps DEF ms
  <1>5. ASSUME NEW g \in GroupNames, NEW x \in Names, NEW y \in Names, GroupCreate(g, <<x, y>>)
        PROVE  ListsInv' /\ rules' = rules /\ callback' = callback /\ GroupsGrow(groups')
    <2> DEFINE made == [name |-> g, members |-> <<x, y>>]
    <2>1. made \in Group /\ made.name = g
      BY ApiAssumption DEF Group
    <2>2. GroupCall(IF GroupTaken(g) THEN groups ELSE Append(groups, made))
      BY <1>5 DEF GroupCreate
    <2> HIDE DEF made
    <2>3. CASE GroupTaken(g)
      BY <1>1, <2>2, <2>3, GroupsStay, GroupCallKeeps
    <2>4. CASE ~GroupTaken(g)
      <3> DEFINE new == Append(groups, made)
      <3>1. new \in Seq(Group) /\ Len(new) = Len(groups) + 1 /\ DOMAIN new = 1..Len(groups) + 1
        BY <1>1, <2>1
      <3>2. new[Len(groups) + 1] = made /\ \A n \in DOMAIN groups : new[n] = groups[n]
        BY <1>1, <2>1
      <3>3. \A n \in 1..Len(groups) + 1 : n # Len(groups) + 1 => n \in DOMAIN groups
        BY <1>1
      <3>4. \A n \in DOMAIN groups : groups[n].name # g
        BY <2>4 DEF GroupTaken
      <3> HIDE DEF new
      <3>5. \A n, k \in DOMAIN new : new[n].name = new[k].name => n = k
        BY <1>1, <2>1, <3>1, <3>2, <3>3, <3>4 DEF GroupsDiffer
      <3>6. GroupsDiffer(new)
        BY <3>1, <3>5 DEF GroupsDiffer
      <3>7. GroupsGrow(new)
        <4> SUFFICES ASSUME NEW n \in DOMAIN groups, NEW k \in DOMAIN new, groups[n].name = new[k].name
                     PROVE  Grown(groups[n].members, new[k].members)
          BY DEF GroupsGrow
        <4>1. k \in DOMAIN groups
          BY <2>1, <3>1, <3>2, <3>3, <3>4
        <4> QED
          BY <1>1, <3>2, <4>1, GroupsStay DEF GroupsGrow
      <3> QED
        BY <2>2, <2>4, <3>6, <3>7, GroupCallKeeps DEF new
    <2> QED
      BY <2>3, <2>4
  <1>6. ASSUME NEW g \in GroupNames, GroupRemove(g)
        PROVE  ListsInv' /\ rules' = rules /\ callback' = callback /\ GroupsGrow(groups')
    <2> DEFINE P == {n \in DOMAIN groups : groups[n].name # g}
               new == Chosen(groups, P)
    <2>1. GroupCall(new) /\ P \subseteq DOMAIN groups
      BY <1>6 DEF GroupRemove
    <2> HIDE DEF P
    <2>2. /\ new \in Seq(Group)
          /\ \E e \in [DOMAIN new -> P] : /\ \A k \in DOMAIN new : new[k] = groups[e[k]]
                                          /\ \A j, k \in DOMAIN new : j < k => e[j] < e[k]
      BY <1>1, <2>1, ChosenProperties
    <2> HIDE DEF new
    <2>3. PICK e \in [DOMAIN new -> P] : /\ \A k \in DOMAIN new : new[k] = groups[e[k]]
                                         /\ \A j, k \in DOMAIN new : j < k => e[j] < e[k]
      BY <2>2
    <2>4. ASSUME NEW j \in DOMAIN new, NEW k \in DOMAIN new, new[j].name = new[k].name PROVE j = k
      <3>1. e[j] \in DOMAIN groups /\ e[k] \in DOMAIN groups
        BY <2>1, <2>3
      <3>2. e[j] = e[k]
        BY <1>1, <2>3, <2>4, <3>1 DEF GroupsDiffer
      <3>3. j \in Nat /\ k \in Nat /\ e[j] \in Nat
        BY <1>1, <2>2, <3>1
      <3> QED
        BY <2>3, <3>2, <3>3
    <2>5. GroupsDiffer(new)
      BY <2>2, <2>4 DEF GroupsDiffer
    <2>6. GroupsGrow(new)
      BY <1>1, <2>1, <2>3, GroupsStay DEF GroupsGrow
    <2> QED
      BY <2>1, <2>5, <2>6, GroupCallKeeps
  <1> QED
    BY <1>3, <1>4, <1>5, <1>6

\* What a step may do to the lists.
ListsStep == RulesMove /\ RemovalExact /\ GroupsGrow(groups')

\* Every step keeps the lists.
LEMMA ListsStepKeeps == ListsInv /\ [ApiNext]_apiVars => ListsInv' /\ ListsStep
  <1> SUFFICES ASSUME ListsInv, [ApiNext]_apiVars PROVE ListsInv' /\ ListsStep
    OBVIOUS
  <1>1. GroupsGrow(groups)
    BY GroupsStay DEF ListsInv
  <1>2. ASSUME rules' = rules, callback' = callback \/ callback.list = "none", GroupsGrow(groups') PROVE ListsStep
    BY <1>2 DEF ListsStep, RulesMove, RemovalExact
  <1>4. ASSUME NEW key, NEW v, ConfigSet(key, v) PROVE ListsInv' /\ ListsStep
    <2>1. proxies' = proxies /\ rules' = rules /\ groups' = groups /\ callback' = callback /\ shifted' = shifted
      BY <1>4 DEF ConfigSet
    <2>2. GroupsGrow(groups')
      BY <1>1, <2>1
    <2>3. ListsStep
      BY <1>2, <2>1, <2>2
    <2> QED
      BY <2>1, <2>3 DEF ListsInv, RulesType, SnapshotFresh, GroupsDiffer
  <1>5. ASSUME NEW new, ProxyCall(new) PROVE ListsInv' /\ ListsStep
    <2>1. ListsInv' /\ rules' = rules /\ groups' = groups /\ callback' = callback
      BY <1>5, ProxyCallKeeps DEF ProxyCall
    <2>2. GroupsGrow(groups')
      BY <1>1, <2>1
    <2> QED
      BY <1>2, <2>1, <2>2
  <1>6. CASE RenameProxies \/ DedupProxies \/ SortProxies
    BY <1>5, <1>6 DEF RenameProxies, DedupProxies, SortProxies
  <1>7. CASE \/ \E new \in NewRules : RulesPrepend(new) \/ RulesAppend(new)
             \/ \E new \in NewRules, at \in 0..2 : RulesInsert(at, new) \/ RulesInsertPanics(at, new)
             \/ RulesDedup
    <2>1. ListsInv' /\ RulesMove /\ callback' = callback /\ groups' = groups
      BY <1>7, RuleCalls
    <2>2. GroupsGrow(groups') /\ RemovalExact
      BY <1>1, <2>1 DEF RemovalExact
    <2> QED
      BY <2>1, <2>2 DEF ListsStep
  <1>8. ASSUME NEW list \in {"proxies", "rules"}, NEW keep, RemoveBegin(list, keep) PROVE ListsInv' /\ ListsStep
    <2>1. ListsInv' /\ rules' = rules /\ groups' = groups
      BY <1>8, RemoveBeginKeeps
    <2>2. callback.list = "none"
      BY <1>8 DEF RemoveBegin, InCallback
    <2>3. GroupsGrow(groups')
      BY <1>1, <2>1
    <2> QED
      BY <1>2, <2>1, <2>2, <2>3
  <1>9. CASE RemoveEnd \/ RemoveThrows
    <2>1. ListsInv' /\ RulesMove /\ RemovalExact /\ groups' = groups
      BY <1>9, RemoveEndKeeps
    <2> QED
      BY <1>1, <2>1 DEF ListsStep
  <1>10. CASE \/ \E g \in GroupNames, x, y \in Names : GroupAdd(g, <<x, y>>) \/ GroupCreate(g, <<x, y>>)
              \/ \E g \in GroupNames, gone \in SUBSET Names : GroupDrop(g, gone)
              \/ \E g \in GroupNames : GroupRemove(g)
    BY <1>2, <1>10, GroupCalls
  <1>11. CASE UNCHANGED apiVars
    <2>1. UNCHANGED <<rules, callback, groups, proxies, shifted>>
      BY <1>11 DEF apiVars
    <2>2. GroupsGrow(groups')
      BY <1>1, <2>1
    <2>3. ListsStep
      BY <1>2, <2>1, <2>2
    <2> QED
      BY <2>1, <2>3 DEF ListsInv, RulesType, SnapshotFresh, GroupsDiffer
  <1> QED
    BY <1>4, <1>6, <1>7, <1>8, <1>9, <1>10, <1>11 DEF ApiNext

\* Whatever the lists, the members of groups and the calls, also those of a callback: rules that are added
\* move and push out none; a removal takes what its callback, shown the strings only, does not answer true
\* for and every rule that is no string, or nothing, unless the callback changed a list; other calls take
\* duplicates only; no two groups get one name, and addProxy gives a group nothing it has.
\* (utils.rules, utils.proxies.remove, utils.groups)
THEOREM ListsAreKept == ApiSpec => ListsKept
  <1>1. ListsInv' => \A n, k \in DOMAIN groups' : groups'[n].name = groups'[k].name => n = k
    BY DEF ListsInv, GroupsDiffer
  <1>2. ListsInv /\ [ApiNext]_apiVars =>
          /\ ListsInv'
          /\ [/\ rules'.items # rules.items =>
                   \/ InOrder(rules.items, rules'.items)
                   \/ InOrder(rules'.items, rules.items) /\ Range(rules'.items) = Range(rules.items)
                   \/ callback.list = "rules" /\ callback'.list = "none"
              /\ callback.list # "none" /\ callback'.list = "none" /\ ~shifted =>
                   \/ UNCHANGED <<proxies, rules>>
                   \/ callback.list = "proxies" /\ proxies' = KeptProxies(proxies) /\ UNCHANGED rules
                   \/ callback.list = "rules" /\ rules'.items = KeptRules(Shown(rules.items)) /\ UNCHANGED proxies
              /\ \A n, k \in DOMAIN groups' : groups'[n].name = groups'[k].name => n = k
              /\ \A n \in DOMAIN groups, k \in DOMAIN groups' :
                   groups[n].name = groups'[k].name => Grown(groups[n].members, groups'[k].members)]_apiVars
    BY <1>1, ListsStepKeeps DEF ListsStep, RulesMove, RemovalExact, GroupsGrow
  <1> QED
    BY <1>2, ListsStart, PTL DEF ApiSpec, ListsKept

------------------------------------------------------------------------------
(* The tree of config.set.  SetExact is inductive once every tree stays one: a path of the tree *)
(* has all its prefixes (IsTree).  How far set_path_value has come (OnWay) is the invariant of  *)
(* its loop.                                                                                    *)

\* A prefix, element by element.
LEMMA PrefixIs ==
  ASSUME NEW T, NEW p \in Seq(T), NEW x \in Seq(T)
  PROVE  /\ IsPrefix(p, x) <=> Len(p) <= Len(x) /\ SubSeq(x, 1, Len(p)) = p
         /\ IsPrefix(p, x) <=> Len(p) <= Len(x) /\ \A i \in 1..Len(p) : x[i] = p[i]
  <1>1. SubSeq(p, 1, Len(p)) = p /\ Len(p) \in Nat /\ Len(x) \in Nat
    BY SubSeqFull
  <1>2. IsPrefix(p, x) <=> Len(p) <= Len(x) /\ SubSeq(x, 1, Len(p)) = p
    BY <1>1 DEF IsPrefix
  <1>3. ASSUME Len(p) <= Len(x)
        PROVE  SubSeq(x, 1, Len(p)) = p <=> \A i \in 1..Len(p) : x[i] = p[i]
    <2> DEFINE r == SubSeq(x, 1, Len(p))
    <2>1. 1 \in 1..Len(x) + 1 /\ Len(p) \in 1 - 1..Len(x) /\ Len(p) - 1 + 1 = Len(p)
      BY <1>1, <1>3
    <2>2. r \in Seq(T) /\ Len(r) = Len(p) - 1 + 1 /\ \A i \in 1..Len(p) - 1 + 1 : r[i] = x[1 + i - 1]
      BY <2>1, PartOf
    <2> HIDE DEF r
    <2>3. Len(r) = Len(p) /\ \A i \in 1..Len(p) : r[i] = x[i]
      BY <1>1, <2>2
    <2>4. (\A i \in 1..Len(p) : r[i] = p[i]) => r = p
      BY <2>2, <2>3, SeqEqual
    <2>5. r = p <=> \A i \in 1..Len(p) : x[i] = p[i]
      BY <2>3, <2>4
    <2> QED
      BY <2>5 DEF r
  <1> QED
    BY <1>2, <1>3

\* What lies below p: p and a rest.
LEMMA BelowIs ==
  ASSUME NEW T, NEW p \in Seq(T), NEW q \in Seq(T)
  PROVE  /\ p \o q \in Seq(T) /\ IsPrefix(p, p \o q) /\ Len(p \o q) = Len(p) + Len(q)
         /\ SubSeq(p \o q, Len(p) + 1, Len(p \o q)) = q
  <1> DEFINE x == p \o q
  <1>1. Len(p) \in Nat /\ Len(q) \in Nat
    OBVIOUS
  <1>2. /\ x \in Seq(T) /\ Len(x) = Len(p) + Len(q)
        /\ \A i \in 1..Len(p) + Len(q) : x[i] = IF i <= Len(p) THEN p[i] ELSE q[i - Len(p)]
    BY ConcatProperties
  <1> HIDE DEF x
  <1>3. Len(p) <= Len(x) /\ \A i \in 1..Len(p) : x[i] = p[i]
    BY <1>1, <1>2
  <1>4. IsPrefix(p, x)
    BY <1>2, <1>3, PrefixIs
  <1> DEFINE m == Len(p) + 1
             n == Len(x)
             r == SubSeq(x, m, n)
  <1>5. m \in 1..Len(x) + 1 /\ n \in m - 1..Len(x) /\ n - m + 1 = Len(q)
    BY <1>1, <1>2
  <1>6. r \in Seq(T) /\ Len(r) = n - m + 1 /\ \A i \in 1..n - m + 1 : r[i] = x[m + i - 1]
    <2> HIDE DEF m, n
    <2> QED
      BY <1>2, <1>5, PartOf
  <1> HIDE DEF r
  <1>7. \A i \in 1..Len(q) : r[i] = q[i]
    <2> TAKE i \in 1..Len(q)
    <2>1. i \in 1..n - m + 1 /\ m + i - 1 \in 1..Len(p) + Len(q) /\ ~(m + i - 1 <= Len(p)) /\ (m + i - 1) - Len(p) = i
      BY <1>1, <1>5
    <2> QED
      BY <1>2, <1>6, <2>1
  <1>8. r = q
    BY <1>5, <1>6, <1>7, SeqEqual
  <1> QED
    BY <1>2, <1>4, <1>8 DEF x, r

\* What has p as a prefix is p and a rest.
LEMMA RestIs ==
  ASSUME NEW T, NEW p \in Seq(T), NEW x \in Seq(T), IsPrefix(p, x)
  PROVE  SubSeq(x, Len(p) + 1, Len(x)) \in Seq(T) /\ p \o SubSeq(x, Len(p) + 1, Len(x)) = x
  <1> DEFINE m == Len(p) + 1
             n == Len(x)
             q == SubSeq(x, m, n)
             y == p \o q
  <1>1. Len(p) \in Nat /\ Len(x) \in Nat /\ Len(p) <= Len(x) /\ \A i \in 1..Len(p) : x[i] = p[i]
    BY PrefixIs
  <1>2. m \in 1..Len(x) + 1 /\ n \in m - 1..Len(x) /\ n - m + 1 = Len(x) - Len(p)
    BY <1>1
  <1>3. q \in Seq(T) /\ Len(q) = n - m + 1 /\ \A i \in 1..n - m + 1 : q[i] = x[m + i - 1]
    <2> HIDE DEF m, n
    <2> QED
      BY <1>2, PartOf
  <1> HIDE DEF q
  <1>4. y \in Seq(T) /\ Len(y) = Len(p) + Len(q)
        /\ \A i \in 1..Len(p) + Len(q) : y[i] = IF i <= Len(p) THEN p[i] ELSE q[i - Len(p)]
    BY <1>3, ConcatProperties
  <1> HIDE DEF y
  <1>5. Len(y) = Len(x)
    BY <1>1, <1>2, <1>3, <1>4
  <1>6. \A i \in 1..Len(y) : y[i] = x[i]
    <2> TAKE i \in 1..Len(y)
    <2>1. CASE i <= Len(p)
      BY <1>1, <1>4, <1>5, <2>1
    <2>2. CASE ~(i <= Len(p))
      <3>1. i \in 1..Len(p) + Len(q) /\ i - Len(p) \in 1..n - m + 1 /\ m + (i - Len(p)) - 1 = i
        BY <1>1, <1>2, <1>3, <1>4, <1>5, <2>2
      <3> QED
        BY <1>3, <1>4, <2>2, <3>1
    <2> QED
      BY <2>1, <2>2
  <1>7. y = x
    BY <1>4, <1>5, <1>6, SeqEqual
  <1> QED
    BY <1>3, <1>7 DEF q, y

\* The prefixes of the paths of a tree.
LEMMA TreePaths ==
  ASSUME NEW d, IsTree(d), NEW x \in DOMAIN d, NEW p \in Seq(STRING), IsPrefix(p, x)
  PROVE  Has(d, p)
  <1>1. x \in Seq(STRING) /\ Len(p) \in Nat /\ Len(x) \in Nat
    BY DEF IsTree
  <1>2. Len(p) \in 0..Len(x) /\ SubSeq(x, 1, Len(p)) = p
    BY <1>1, PrefixIs
  <1> QED
    BY <1>2 DEF IsTree

\* The first n elements, and what they begin with.
LEMMA PrefixOfPrefix ==
  ASSUME NEW T, NEW p \in Seq(T), NEW x \in Seq(T), NEW n \in 0..Len(x)
  PROVE  /\ SubSeq(x, 1, n) \in Seq(T) /\ Len(SubSeq(x, 1, n)) = n
         /\ \A i \in 1..n : SubSeq(x, 1, n)[i] = x[i]
         /\ IsPrefix(p, SubSeq(x, 1, n)) <=> IsPrefix(p, x) /\ Len(p) <= n
  <1> DEFINE y == SubSeq(x, 1, n)
  <1>1. 1 \in 1..Len(x) + 1 /\ n \in 1 - 1..Len(x) /\ n - 1 + 1 = n /\ Len(p) \in Nat /\ Len(x) \in Nat
    OBVIOUS
  <1>2. y \in Seq(T) /\ Len(y) = n - 1 + 1 /\ \A i \in 1..n - 1 + 1 : y[i] = x[1 + i - 1]
    BY <1>1, PartOf
  <1> HIDE DEF y
  <1>3. Len(y) = n /\ \A i \in 1..n : y[i] = x[i]
    BY <1>1, <1>2
  <1>4. IsPrefix(p, y) <=> Len(p) <= n /\ \A i \in 1..Len(p) : y[i] = p[i]
    BY <1>2, <1>3, PrefixIs
  <1>5. IsPrefix(p, x) <=> Len(p) <= Len(x) /\ \A i \in 1..Len(p) : x[i] = p[i]
    BY PrefixIs
  <1>6. ASSUME Len(p) <= n PROVE IsPrefix(p, y) <=> IsPrefix(p, x)
    <2>1. Len(p) <= Len(x) /\ \A i \in 1..Len(p) : i \in 1..n
      BY <1>1, <1>6
    <2>2. \A i \in 1..Len(p) : y[i] = x[i]
      BY <1>3, <2>1
    <2> QED
      BY <1>4, <1>5, <1>6, <2>1, <2>2
  <1> QED
    BY <1>2, <1>3, <1>4, <1>6 DEF y

\* A part of a tree replaced: the new part is there, nothing else changes, and it is a tree.
Replaced(d, p, v, r) ==
  /\ IsTree(r) /\ Has(r, p) /\ SubTree(r, p) = v
  /\ \A q \in DOMAIN d : ~IsPrefix(p, q) => Has(r, q) /\ r[q] = d[q]
  /\ \A q \in DOMAIN r : ~IsPrefix(p, q) => Has(d, q)
  /\ \A q \in DOMAIN r : IsPrefix(p, q) => \E u \in DOMAIN v : q = p \o u /\ r[q] = v[u]

\* Replace does that to a tree that has what is above the part.
LEMMA ReplaceIs ==
  ASSUME NEW d, NEW v, IsTree(d), IsTree(v), NEW p \in Seq(STRING), p # <<>>, Has(d, SubSeq(p, 1, Len(p) - 1))
  PROVE  Replaced(d, p, v, Replace(d, p, v))
  <1> DEFINE r == Replace(d, p, v)
             Rest(x) == SubSeq(x, Len(p) + 1, Len(x))
             D == {x \in DOMAIN d : ~IsPrefix(p, x)} \cup {p \o q : q \in DOMAIN v}
  <1>1. DOMAIN r = D /\ r = [x \in D |-> r[x]] /\ \A x \in D : r[x] = IF IsPrefix(p, x) THEN v[Rest(x)] ELSE d[x]
    BY DEF Replace
  <1>2. Len(p) \in Nat /\ Len(p) # 0
    OBVIOUS
  <1>3. DOMAIN d \subseteq Seq(STRING) /\ DOMAIN v \subseteq Seq(STRING) /\ <<>> \in DOMAIN d /\ <<>> \in DOMAIN v
        /\ v = [q \in DOMAIN v |-> v[q]]
    BY DEF IsTree
  <1>4. \A q \in DOMAIN v : p \o q \in Seq(STRING) /\ IsPrefix(p, p \o q) /\ Rest(p \o q) = q
    BY <1>3, BelowIs
  <1>5. \A x \in Seq(STRING) : IsPrefix(p, x) => Rest(x) \in Seq(STRING) /\ p \o Rest(x) = x
    BY RestIs
  <1> HIDE DEF r, Rest
  <1>6. \A x \in D : IsPrefix(p, x) => Rest(x) \in DOMAIN v /\ x = p \o Rest(x) /\ r[x] = v[Rest(x)]
    BY <1>1, <1>4
  <1>7. D \subseteq Seq(STRING)
    BY <1>3, <1>4
  <1>8. ~IsPrefix(p, <<>>)
    BY <1>2 DEF IsPrefix
  <1>9. Has(r, p) /\ \A q \in DOMAIN d : ~IsPrefix(p, q) => Has(r, q) /\ r[q] = d[q]
    <2>1. p \o <<>> = p
      BY ConcatEmptySeq
    <2>2. p \in D
      BY <1>3, <2>1
    <2> QED
      BY <1>1, <2>2 DEF Has
  <1>10. /\ \A q \in DOMAIN r : ~IsPrefix(p, q) => Has(d, q)
         /\ \A q \in DOMAIN r : IsPrefix(p, q) => \E u \in DOMAIN v : q = p \o u /\ r[q] = v[u]
    BY <1>1, <1>4, <1>6 DEF Has
  <1>11. SubTree(r, p) = v
    <2> DEFINE S == {Rest(x) : x \in {x \in DOMAIN r : IsPrefix(p, x)}}
    <2>1. SubTree(r, p) = [q \in S |-> r[p \o q]]
      BY DEF SubTree, Rest
    <2>2. S = DOMAIN v
      <3>1. \A q \in DOMAIN v : p \o q \in DOMAIN r /\ IsPrefix(p, p \o q) /\ q = Rest(p \o q)
        BY <1>1, <1>4
      <3>2. \A x \in DOMAIN r : IsPrefix(p, x) => Rest(x) \in DOMAIN v
        BY <1>1, <1>6
      <3> QED
        BY <3>1, <3>2
    <2>3. \A q \in DOMAIN v : r[p \o q] = v[q]
      BY <1>1, <1>4
    <2> HIDE DEF S
    <2>4. [q \in S |-> r[p \o q]] = [q \in DOMAIN v |-> v[q]]
      BY <2>2, <2>3
    <2> QED
      BY <1>3, <2>1, <2>4
  <1>12. ASSUME NEW x \in D, NEW n \in 0..Len(x) PROVE SubSeq(x, 1, n) \in D
    <2> DEFINE y == SubSeq(x, 1, n)
    <2>1. x \in Seq(STRING)
      BY <1>7
    <2>2. y \in Seq(STRING) /\ Len(y) = n /\ (\A i \in 1..n : y[i] = x[i]) /\ (IsPrefix(p, y) <=> IsPrefix(p, x) /\ Len(p) <= n)
      BY <2>1, PrefixOfPrefix
    <2>3. CASE ~IsPrefix(p, x)
      <3>1. x \in DOMAIN d /\ ~IsPrefix(p, y)
        BY <1>4, <2>2, <2>3
      <3>2. y \in DOMAIN d
        BY <3>1 DEF IsTree, Has
      <3> QED
        BY <3>1, <3>2
    <2>4. CASE IsPrefix(p, x) /\ ~(Len(p) <= n)
      <3> DEFINE k == Len(p) - 1
                 f == SubSeq(p, 1, k)
      <3>1. k \in 0..Len(p) /\ n <= k
        BY <1>2, <2>4
      <3> HIDE DEF k
      <3>2. f \in Seq(STRING) /\ Len(f) = k /\ \A i \in 1..k : f[i] = p[i]
        BY <3>1, PrefixOfPrefix
      <3>3. \A i \in 1..Len(p) : x[i] = p[i]
        BY <2>1, <2>4, PrefixIs
      <3> HIDE DEF f, y
      <3>4. Len(y) <= Len(f) /\ \A i \in 1..Len(y) : f[i] = y[i]
        <4>1. k \in Nat /\ k <= Len(p)
          BY <1>2, <3>1
        <4>2. Len(y) <= Len(f)
          BY <2>2, <3>1, <3>2
        <4>3. \A i \in 1..Len(y) : i \in 1..k /\ i \in 1..Len(p) /\ i \in 1..n
          BY <1>2, <2>2, <3>1, <4>1
        <4> QED
          BY <2>2, <3>2, <3>3, <4>2, <4>3
      <3>5. IsPrefix(y, f)
        BY <2>2, <3>2, <3>4, PrefixIs
      <3>6. f \in DOMAIN d
        BY DEF Has, f, k
      <3>7. y \in DOMAIN d
        BY <2>2, <3>5, <3>6, TreePaths DEF Has
      <3>8. ~IsPrefix(p, y)
        BY <2>2, <2>4
      <3> QED
        BY <3>7, <3>8 DEF y
    <2>5. CASE IsPrefix(p, x) /\ Len(p) <= n
      <3> DEFINE q == Rest(x)
                 u == Rest(y)
      <3>1. q \in DOMAIN v /\ x = p \o q /\ q \in Seq(STRING)
        BY <1>3, <1>6, <2>5
      <3>2. IsPrefix(p, y) /\ u \in Seq(STRING) /\ p \o u = y
        BY <1>5, <2>2, <2>5
      <3> HIDE DEF q, u, y
      <3>3. /\ Len(y) = Len(p) + Len(u) /\ Len(x) = Len(p) + Len(q)
            /\ \A i \in 1..Len(p) + Len(u) : y[i] = IF i <= Len(p) THEN p[i] ELSE u[i - Len(p)]
            /\ \A i \in 1..Len(p) + Len(q) : x[i] = IF i <= Len(p) THEN p[i] ELSE q[i - Len(p)]
        BY <3>1, <3>2, ConcatProperties
      <3>4. Len(u) \in Nat /\ Len(q) \in Nat /\ Len(u) <= Len(q)
        BY <1>2, <2>2, <3>1, <3>2, <3>3
      <3>5. \A i \in 1..Len(u) : q[i] = u[i]
        <4> TAKE i \in 1..Len(u)
        <4>1. /\ i + Len(p) \in 1..Len(p) + Len(u) /\ i + Len(p) \in 1..Len(p) + Len(q) /\ i + Len(p) \in 1..n
              /\ ~(i + Len(p) <= Len(p)) /\ (i + Len(p)) - Len(p) = i
          BY <1>2, <2>2, <3>3, <3>4
        <4> QED
          BY <2>2, <3>3, <4>1
      <3>6. IsPrefix(u, q)
        BY <3>1, <3>2, <3>4, <3>5, PrefixIs
      <3>7. u \in DOMAIN v
        BY <3>1, <3>2, <3>6, TreePaths DEF Has
      <3>8. y \in D
        BY <3>2, <3>7
      <3> QED
        BY <3>8 DEF y
    <2> QED
      BY <2>3, <2>4, <2>5
  <1>13. IsTree(r)
    <2>1. <<>> \in D
      BY <1>3, <1>8
    <2>2. \A x \in DOMAIN r : \A n \in 0..Len(x) : Has(r, SubSeq(x, 1, n))
      BY <1>1, <1>12 DEF Has
    <2> HIDE DEF D
    <2> QED
      BY <1>1, <1>7, <2>1, <2>2 DEF IsTree
  <1> HIDE DEF D
  <1> QED
    BY <1>9, <1>10, <1>11, <1>13 DEF r, Replaced

\* The way of set_path_value, segment by segment.
IsWay(g, d, key, m) ==
  g = [n \in 0..m |-> IF n = 0 THEN [d |-> d, at |-> <<>>, open |-> TRUE] ELSE Enter(g[n - 1], key[n])]
\* The first n segments of a key are looked up in what fits them.
Fits(t, key, n) == \A m \in 1..n : Has(t, SubSeq(key, 1, m - 1)) /\ t[SubSeq(key, 1, m - 1)].ty = Holder(key[m])
\* After n segments: the tree has what it had, and objects on the way; the way is open if
\* the key can be reached, and has then come n segments far.
OnWay(d, key, n, w) ==
  /\ IsTree(w.d)
  /\ \A q \in DOMAIN d : Has(w.d, q) /\ w.d[q] = d[q]
  /\ \A q \in DOMAIN w.d : Has(d, q) \/ (IsPrefix(q, key) /\ w.d[q].ty = "object")
  /\ w.open => w.at = SubSeq(key, 1, n) /\ Has(w.d, w.at) /\ Fits(w.d, key, n)
  /\ Reachable(d, key) => w.open

\* The way exists: no first length is without one.
LEMMA WayExists ==
  ASSUME NEW d, NEW key, NEW N \in Nat
  PROVE  \E g : IsWay(g, d, key, N)
  <1> DEFINE start == [d |-> d, at |-> <<>>, open |-> TRUE]
             bad == {m \in 0..N : ~\E g : IsWay(g, d, key, m)}
  <1> HIDE DEF start
  <1>1. IsWay([n \in 0..0 |-> start], d, key, 0)
    BY DEF IsWay, start
  <1>2. ASSUME NEW m \in 1..N, NEW g, IsWay(g, d, key, m - 1) PROVE \E h : IsWay(h, d, key, m)
    <2> DEFINE h == [n \in 0..m |-> IF n = m THEN Enter(g[m - 1], key[m]) ELSE g[n]]
    <2>1. \A n \in 0..m : n # 0 => n - 1 \in 0..m - 1
      BY <1>2
    <2>2. \A n \in 0..m : n # m => n \in 0..m - 1
      BY <1>2
    <2>3. m # 0 /\ m \in 0..m /\ \A n \in 0..m - 1 : n \in 0..m /\ n # m
      BY <1>2
    <2>4. \A n \in 0..m - 1 : g[n] = IF n = 0 THEN start ELSE Enter(g[n - 1], key[n])
      BY <1>2 DEF IsWay, start
    <2>5. \A n \in 0..m - 1 : h[n] = g[n]
      BY <2>3
    <2>6. \A n \in 0..m : h[n] = IF n = 0 THEN start ELSE Enter(h[n - 1], key[n])
      BY <2>1, <2>2, <2>3, <2>4, <2>5
    <2>7. h = [n \in 0..m |-> h[n]]
      OBVIOUS
    <2> HIDE DEF h
    <2>8. IsWay(h, d, key, m)
      BY <2>6, <2>7 DEF IsWay, start
    <2> QED
      BY <2>8
  <1>3. bad = {}
    <2> SUFFICES ASSUME bad # {} PROVE FALSE
      OBVIOUS
    <2>1. bad \in SUBSET Nat
      OBVIOUS
    <2>2. PICK m \in bad : \A k \in bad : m <= k
      BY <2>1, LeastNumber
    <2>3. m # 0
      BY <1>1, <2>2
    <2>4. m \in 1..N /\ m - 1 \in 0..N /\ m - 1 \notin bad
      BY <2>2, <2>3
    <2> QED
      BY <1>2, <2>2, <2>4
  <1>4. N \in 0..N
    OBVIOUS
  <1> QED
    BY <1>3, <1>4

\* One segment more.
LEMMA PrefixGrows ==
  ASSUME NEW T, NEW key \in Seq(T), NEW n \in 1..Len(key)
  PROVE  /\ Append(SubSeq(key, 1, n - 1), key[n]) = SubSeq(key, 1, n)
         /\ SubSeq(key, 1, n) \in Seq(T) /\ SubSeq(key, 1, n) # <<>>
         /\ SubSeq(SubSeq(key, 1, n), 1, Len(SubSeq(key, 1, n)) - 1) = SubSeq(key, 1, n - 1)
         /\ IsPrefix(SubSeq(key, 1, n), key)
  <1> DEFINE k == n - 1
             f == SubSeq(key, 1, k)
             p == SubSeq(key, 1, n)
             g == SubSeq(p, 1, k)
             a == Append(f, key[n])
  <1>1. k \in 0..Len(key) /\ n \in 0..Len(key) /\ k \in 0..n /\ n = k + 1 /\ Len(key) \in Nat
    OBVIOUS
  <1> HIDE DEF k
  <1>2. f \in Seq(T) /\ Len(f) = k /\ \A i \in 1..k : f[i] = key[i]
    BY <1>1, PrefixOfPrefix
  <1>3. p \in Seq(T) /\ Len(p) = n /\ \A i \in 1..n : p[i] = key[i]
    BY <1>1, PrefixOfPrefix
  <1> HIDE DEF p, f
  <1>4. g \in Seq(T) /\ Len(g) = k /\ \A i \in 1..k : g[i] = p[i]
    BY <1>1, <1>3, PrefixOfPrefix
  <1> HIDE DEF g
  <1>5. \A i \in 1..k : i \in 1..n
    BY <1>1
  <1>6. g = f
    BY <1>2, <1>3, <1>4, <1>5, SeqEqual
  <1>7. key[n] \in T
    BY <1>1, ElementOfSeq
  <1>8. a \in Seq(T) /\ Len(a) = k + 1 /\ a[k + 1] = key[n] /\ \A i \in 1..k : a[i] = f[i]
    BY <1>2, <1>7
  <1> HIDE DEF a
  <1>9. \A i \in 1..n : a[i] = p[i]
    BY <1>1, <1>2, <1>3, <1>8
  <1>10. a = p
    BY <1>1, <1>3, <1>8, <1>9, SeqEqual
  <1>11. p # <<>> /\ Len(p) - 1 = k
    BY <1>1, <1>3
  <1>12. IsPrefix(p, key)
    <2>1. Len(p) <= Len(key)
      BY <1>1, <1>3
    <2> QED
      BY <1>3, <2>1, PrefixIs
  <1> QED
    BY <1>3, <1>6, <1>10, <1>11, <1>12 DEF a, p, f, g, k

\* The next segment of a key that can be reached fits.
LEMMA NextFits ==
  ASSUME NEW d, IsTree(d), NEW key \in Seq(STRING), NEW n \in 1..Len(key), NEW w, OnWay(d, key, n - 1, w), Reachable(d, key)
  PROVE  /\ w.open /\ w.d[SubSeq(key, 1, n - 1)].ty = Holder(key[n])
         /\ key[n] \in Numeric => Has(w.d, SubSeq(key, 1, n))
  <1> DEFINE p == SubSeq(key, 1, n)
             f == SubSeq(key, 1, n - 1)
  <1>1. p \in Seq(STRING) /\ p # <<>> /\ SubSeq(p, 1, Len(p) - 1) = f
    BY PrefixGrows
  <1>2. (Has(d, f) => d[f].ty = Holder(key[n])) /\ (key[n] \in Numeric => Has(d, p))
    <2>1. n \in DOMAIN key
      OBVIOUS
    <2> QED
      BY <2>1 DEF Reachable
  <1>3. w.open /\ w.at = f /\ Has(w.d, f)
    BY DEF OnWay
  <1> HIDE DEF p, f
  <1>4. Has(d, p) => Has(d, f)
    <2>1. Len(p) - 1 \in 0..Len(p)
      <3>1. Len(p) \in Nat /\ Len(p) # 0
        BY <1>1
      <3> QED
        BY <3>1
    <2> QED
      BY <1>1, <2>1 DEF IsTree, Has
  <1>5. Has(d, p) => Has(w.d, p)
    BY DEF OnWay, Has
  <1>6. CASE Has(d, f)
    <2>1. w.d[f] = d[f]
      BY <1>6 DEF OnWay, Has
    <2> QED
      BY <1>2, <1>3, <1>5, <1>6, <2>1 DEF p, f
  <1>7. CASE ~Has(d, f)
    <2>1. w.d[f].ty = "object"
      BY <1>3, <1>7 DEF OnWay, Has
    <2>2. key[n] \notin Numeric
      BY <1>2, <1>4, <1>7
    <2> QED
      BY <1>3, <2>1, <2>2 DEF Holder, p, f
  <1> QED
    BY <1>6, <1>7

\* A segment more keeps what holds on the way.
LEMMA EnterKeeps ==
  ASSUME NEW d, IsTree(d), NEW key \in Seq(STRING), NEW n \in 1..Len(key), NEW w, OnWay(d, key, n - 1, w)
  PROVE  OnWay(d, key, n, Enter(w, key[n]))
  <1> DEFINE p == SubSeq(key, 1, n)
             f == SubSeq(key, 1, n - 1)
             r == Replace(w.d, p, EmptyObject)
             fit == w.d[f].ty = Holder(key[n]) /\ (key[n] \in Numeric => Has(w.d, p))
  <1>1. /\ Append(f, key[n]) = p /\ p \in Seq(STRING) /\ p # <<>> /\ SubSeq(p, 1, Len(p) - 1) = f /\ IsPrefix(p, key)
    BY PrefixGrows
  <1>2. w.open => w.at = f /\ Has(w.d, f) /\ \A m \in 1..n - 1 : Has(w.d, SubSeq(key, 1, m - 1)) /\ w.d[SubSeq(key, 1, m - 1)].ty = Holder(key[m])
    BY DEF OnWay, Fits
  <1>3. Reachable(d, key) => w.open /\ fit
    BY NextFits
  <1>4. \A m \in 1..n : m \in 1..n - 1 \/ m = n
    OBVIOUS
  <1>5. ASSUME w.open, fit PROVE Fits(w.d, key, n)
    BY <1>2, <1>4, <1>5 DEF Fits
  <1> HIDE DEF p, f
  <1>6. CASE ~w.open
    BY <1>6 DEF Enter, OnWay
  <1>7. CASE w.open /\ ~fit
    <2>1. Enter(w, key[n]) = [d |-> w.d, at |-> f, open |-> FALSE]
      BY <1>1, <1>2, <1>7 DEF Enter
    <2> HIDE DEF fit
    <2>2. ~Reachable(d, key)
      BY <1>3, <1>7
    <2> QED
      BY <2>1, <2>2 DEF OnWay
  <1>8. CASE w.open /\ fit /\ Has(w.d, p)
    <2>1. Enter(w, key[n]) = [d |-> w.d, at |-> p, open |-> TRUE]
      BY <1>1, <1>2, <1>8 DEF Enter
    <2> HIDE DEF fit
    <2>2. Fits(w.d, key, n)
      BY <1>5, <1>8
    <2> QED
      BY <1>8, <2>1, <2>2 DEF OnWay, p
  <1>9. CASE w.open /\ fit /\ ~Has(w.d, p)
    <2>1. Enter(w, key[n]) = [d |-> r, at |-> p, open |-> TRUE]
      BY <1>1, <1>2, <1>9 DEF Enter
    <2>2. IsTree(EmptyObject) /\ DOMAIN EmptyObject = {<<>>} /\ EmptyObject[<<>>].ty = "object"
      <3>1. EmptyObject = [q \in {<<>>} |-> [ty |-> "object", v |-> "-"]]
        BY DEF EmptyObject, Node
      <3>2. DOMAIN EmptyObject = {<<>>} /\ EmptyObject = [q \in DOMAIN EmptyObject |-> EmptyObject[q]]
            /\ EmptyObject[<<>>].ty = "object"
        BY <3>1
      <3>3. \A x \in {<<>>} : \A i \in 0..Len(x) : SubSeq(x, 1, i) = <<>>
        OBVIOUS
      <3>4. <<>> \in Seq(STRING)
        OBVIOUS
      <3> QED
        BY <3>2, <3>3, <3>4 DEF IsTree, Has
    <2>3. IsTree(w.d) /\ Has(w.d, SubSeq(p, 1, Len(p) - 1))
      BY <1>1, <1>2, <1>9 DEF OnWay
    <2>4. Fits(w.d, key, n)
      <3> HIDE DEF fit
      <3> QED
        BY <1>5, <1>9
    <2>5. /\ IsTree(r) /\ Has(r, p)
          /\ \A q \in DOMAIN w.d : ~IsPrefix(p, q) => Has(r, q) /\ r[q] = w.d[q]
          /\ \A q \in DOMAIN r : ~IsPrefix(p, q) => Has(w.d, q)
          /\ \A q \in DOMAIN r : IsPrefix(p, q) => \E u \in DOMAIN EmptyObject : q = p \o u /\ r[q] = EmptyObject[u]
      <3> DEFINE t == w.d
      <3>1. IsTree(t) /\ Has(t, SubSeq(p, 1, Len(p) - 1))
        BY <2>3
      <3> HIDE DEF t
      <3>2. Replaced(t, p, EmptyObject, Replace(t, p, EmptyObject))
        BY <1>1, <2>2, <3>1, ReplaceIs
      <3> QED
        BY <3>2 DEF t, Replaced
    <2> HIDE DEF r
    <2>6. \A q \in DOMAIN w.d : ~IsPrefix(p, q)
      BY <1>1, <1>9, <2>3, TreePaths
    <2>7. p \o <<>> = p
      BY <1>1, ConcatEmptySeq
    <2>8. \A q \in DOMAIN r : Has(w.d, q) \/ (q = p /\ r[q].ty = "object")
      BY <2>2, <2>5, <2>7
    <2>9. \A q \in DOMAIN w.d : Has(r, q) /\ r[q] = w.d[q]
      BY <2>5, <2>6
    <2>10. \A q \in DOMAIN d : Has(r, q) /\ r[q] = d[q]
      BY <2>9 DEF OnWay, Has
    <2>11. \A q \in DOMAIN r : Has(d, q) \/ (IsPrefix(q, key) /\ r[q].ty = "object")
      <3> TAKE q \in DOMAIN r
      <3>1. CASE Has(w.d, q)
        BY <2>9, <3>1 DEF OnWay, Has
      <3>2. CASE ~Has(w.d, q)
        BY <1>1, <2>8, <3>2
      <3> QED
        BY <3>1, <3>2
    <2>12. Fits(r, key, n)
      BY <2>4, <2>9 DEF Fits, Has
    <2> QED
      BY <2>1, <2>5, <2>10, <2>11, <2>12 DEF OnWay, p
  <1> QED
    BY <1>6, <1>7, <1>8, <1>9

\* The way of a key.
LEMMA WayIs ==
  ASSUME NEW d, IsTree(d), NEW key \in Seq(STRING), key # <<>>
  PROVE  OnWay(d, key, Len(key) - 1, Way(d, key))
  <1> DEFINE N == Len(key) - 1
             f == CHOOSE g : IsWay(g, d, key, N)
             start == [d |-> d, at |-> <<>>, open |-> TRUE]
  <1>1. N \in Nat /\ N \in 0..N /\ 0 \in 0..N /\ \A n \in 1..N : n \in 0..N /\ n # 0 /\ n \in 1..Len(key)
    OBVIOUS
  <1>2. Way(d, key) = f[N]
    BY DEF Way, IsWay
  <1> HIDE DEF N
  <1>3. IsWay(f, d, key, N)
    <2>1. \E g : IsWay(g, d, key, N)
      BY <1>1, WayExists
    <2> QED
      BY <2>1, Zenon
  <1> HIDE DEF f
  <1>4. f[0] = start /\ \A n \in 1..N : f[n] = Enter(f[n - 1], key[n])
    <2> HIDE DEF start
    <2>1. \A n \in 0..N : f[n] = IF n = 0 THEN start ELSE Enter(f[n - 1], key[n])
      BY <1>3 DEF IsWay, start
    <2> QED
      BY <1>1, <2>1
  <1> DEFINE bad == {n \in 0..N : ~OnWay(d, key, n, f[n])}
  <1>5. OnWay(d, key, 0, f[0])
    <2>1. SubSeq(key, 1, 0) = <<>> /\ Has(d, <<>>)
      BY DEF IsTree, Has
    <2>2. Fits(d, key, 0)
      BY DEF Fits
    <2> QED
      BY <1>4, <2>1, <2>2 DEF OnWay, Has
  <1>6. bad = {}
    <2> SUFFICES ASSUME bad # {} PROVE FALSE
      OBVIOUS
    <2>1. bad \in SUBSET Nat
      BY <1>1
    <2>2. PICK m \in bad : \A k \in bad : m <= k
      BY <2>1, LeastNumber
    <2>3. m # 0 /\ m \in 0..N
      BY <1>5, <2>2
    <2>4. m \in 1..N /\ m - 1 \in 0..N /\ m - 1 \notin bad
      BY <1>1, <2>2, <2>3
    <2>5. m \in 1..Len(key) /\ OnWay(d, key, m - 1, f[m - 1]) /\ f[m] = Enter(f[m - 1], key[m])
      BY <1>1, <1>4, <2>4
    <2>6. OnWay(d, key, m, f[m])
      BY <2>5, EnterKeeps
    <2> QED
      BY <2>2, <2>6
  <1> QED
    BY <1>1, <1>2, <1>6 DEF N

\* Segments that are no accesses are left as they are.
IsFlat(g, s) == g = [i \in 1..Len(s) |-> IF i = 1 THEN s[i] ELSE g[i - 1] \o s[i]]
\* Such a key is its own segments.
LEMMA SomePlain ==
  ASSUME NEW key \in Seq(STRING), key # <<>>, Range(key) \cap DOMAIN Access = {}
  PROVE  Segments(key) = key
  <1> DEFINE N == Len(key)
             s == [n \in 1..N |-> <<key[n]>>]
             up == [i \in 1..N |-> SubSeq(key, 1, i)]
             f == CHOOSE g : IsFlat(g, s)
  <1>1. N \in Nat /\ N # 0 /\ DOMAIN key = 1..N /\ \A n \in 1..N : key[n] \in STRING /\ key[n] \notin DOMAIN Access
    <2>1. \A n \in DOMAIN key : key[n] \in Range(key)
      BY DEF Range
    <2> QED
      BY <2>1
  <1>2. Segments(key) = FlattenSeq(s)
    <2>1. [n \in DOMAIN key |-> IF key[n] \in DOMAIN Access THEN Access[key[n]] ELSE <<key[n]>>] = s
      BY <1>1
    <2> HIDE DEF s
    <2> QED
      BY <2>1 DEF Segments
  <1>3. s \in Seq(Seq(STRING)) /\ Len(s) = N /\ \A n \in 1..N : s[n] = <<key[n]>>
    <2>1. \A n \in 1..N : <<key[n]>> \in Seq(STRING)
      BY <1>1
    <2> HIDE DEF N
    <2> QED
      BY <1>1, <2>1
  <1> HIDE DEF s
  <1>4. FlattenSeq(s) = f[N]
    BY <1>1, <1>3 DEF FlattenSeq, IsFlat
  <1> HIDE DEF N
  <1>5. up[1] = <<key[1]>> /\ \A i \in 2..N : up[i] = up[i - 1] \o <<key[i]>>
    <2>1. 1 \in 1..Len(key) /\ \A i \in 2..N : i \in 1..Len(key) /\ i - 1 \in 1..N /\ i \in 1..N
      BY <1>1 DEF N
    <2>2. SubSeq(key, 1, 1) = <<key[1]>>
      <3>1. SubSeq(key, 1, 1) \in Seq(STRING) /\ Len(SubSeq(key, 1, 1)) = 1 /\ SubSeq(key, 1, 1)[1] = key[1]
        BY <1>1, <2>1, PrefixOfPrefix DEF N
      <3>2. <<key[1]>> \in Seq(STRING) /\ Len(<<key[1]>>) = 1 /\ <<key[1]>>[1] = key[1]
        BY <1>1, <2>1 DEF N
      <3>3. \A i \in 1..1 : i = 1
        OBVIOUS
      <3> QED
        BY <3>1, <3>2, <3>3, SeqEqual
    <2>3. \A i \in 2..N : SubSeq(key, 1, i) = SubSeq(key, 1, i - 1) \o <<key[i]>>
      <3> TAKE i \in 2..N
      <3>1. 1 \in 1..Len(key) /\ i \in 1..Len(key)
        BY <2>1
      <3> QED
        BY <3>1, SubSeqRecursiveSecond
    <2> QED
      BY <1>1, <2>1, <2>2, <2>3 DEF N
  <1>6. IsFlat(up, s)
    <2>1. \A i \in 1..N : i = 1 \/ i \in 2..N
      BY <1>1
    <2>2. \A i \in 1..N : up[i] = IF i = 1 THEN s[i] ELSE up[i - 1] \o s[i]
      BY <1>3, <1>5, <2>1
    <2>3. up = [i \in 1..N |-> up[i]]
      OBVIOUS
    <2> HIDE DEF up
    <2> QED
      BY <1>3, <2>2, <2>3 DEF IsFlat
  <1>7. IsFlat(f, s)
    BY <1>6, Zenon
  <1> HIDE DEF f
  <1>8. \A i \in 1..N : f[i] = IF i = 1 THEN s[i] ELSE f[i - 1] \o s[i]
    BY <1>3, <1>7 DEF IsFlat
  <1> DEFINE bad == {i \in 1..N : f[i] # up[i]}
  <1>9. bad = {}
    <2> SUFFICES ASSUME bad # {} PROVE FALSE
      OBVIOUS
    <2>1. bad \in SUBSET Nat
      BY <1>1
    <2>2. PICK m \in bad : \A k \in bad : m <= k
      BY <2>1, LeastNumber
    <2>3. m \in 1..N /\ f[m] # up[m]
      BY <2>2
    <2> HIDE DEF up
    <2>4. m # 1
      BY <1>3, <1>5, <1>8, <2>3
    <2>5. m \in 2..N /\ m - 1 \in 1..N /\ m - 1 \notin bad
      BY <1>1, <2>2, <2>3, <2>4
    <2>6. f[m - 1] = up[m - 1]
      BY <2>5
    <2>7. f[m] = f[m - 1] \o s[m]
      BY <1>8, <2>3, <2>4
    <2>8. s[m] = <<key[m]>> /\ up[m] = up[m - 1] \o <<key[m]>>
      BY <1>3, <1>5, <2>3, <2>5
    <2> QED
      BY <2>3, <2>6, <2>7, <2>8
  <1>10. f[N] = SubSeq(key, 1, N)
    <2>1. N \in 1..N
      BY <1>1
    <2> QED
      BY <1>9, <2>1
  <1> QED
    BY <1>2, <1>4, <1>10, SubSeqFull DEF N

\* The empty key too.
LEMMA SegmentsPlain ==
  ASSUME NEW key \in Seq(STRING), Range(key) \cap DOMAIN Access = {}
  PROVE  Segments(key) = key
  <1> SUFFICES ASSUME key = <<>> PROVE Segments(key) = key
    BY SomePlain
  <1> DEFINE s == [n \in {} |-> IF key[n] \in DOMAIN Access THEN Access[key[n]] ELSE <<key[n]>>]
  <1>1. DOMAIN key = {} /\ 1..0 = {}
    OBVIOUS
  <1>2. Segments(key) = FlattenSeq(s)
    BY <1>1 DEF Segments
  <1>3. s \in Seq({}) /\ Len(s) = 0
    <2>1. DOMAIN s = 1..0 /\ s \in [1..0 -> {}]
      BY <1>1
    <2> QED
      BY <2>1
  <1> HIDE DEF s
  <1>4. FlattenSeq(s) = s
    BY <1>3 DEF FlattenSeq
  <1>5. s = <<>>
    BY <1>3
  <1> QED
    BY <1>2, <1>4, <1>5

\* What is not empty has a last place.
LEMMA SomeLength ==
  ASSUME NEW T, NEW s \in Seq(T), s # <<>>
  PROVE  Len(s) \in 1..Len(s) /\ Len(s) \in DOMAIN s /\ Len(s) \in Nat
  <1>1. Len(s) \in Nat /\ Len(s) # 0
    OBVIOUS
  <1> QED
    BY <1>1

\* The empty key is the root.
IsRoot(key) == key = <<"">>

\* What set_path_value makes of the tree.
LEMMA SetPathIs ==
  ASSUME NEW d, NEW v, IsTree(d), IsTree(v), NEW key \in Seq(STRING), key # <<>>, ~IsRoot(key)
  PROVE  LET r == SetPathValue(d, key, v) IN
         /\ IsTree(r)
         /\ Reachable(d, key) => Has(r, key) /\ SubTree(r, key) = v /\ Fits(r, key, Len(key))
         /\ \A q \in DOMAIN d : ~IsPrefix(key, q) => Has(r, q) /\ r[q] = d[q]
         /\ \A q \in DOMAIN r \ DOMAIN d : IsPrefix(key, q) \/ IsPrefix(q, key)
  <1> DEFINE n == Len(key)
             w == Way(d, key)
             f == SubSeq(key, 1, n - 1)
             r == SetPathValue(d, key, v)
             enter == w.d[f].ty = Holder(key[n]) /\ (key[n] \in Numeric => Has(w.d, key))
  <1>1. n \in 1..Len(key) /\ n \in DOMAIN key /\ n \in Nat
    BY SomeLength
  <1>2. SubSeq(key, 1, n) = key
    BY SubSeqFull
  <1>3. Append(f, key[n]) = key /\ SubSeq(key, 1, Len(key) - 1) = f
    BY <1>1, <1>2, PrefixGrows
  <1>4. OnWay(d, key, n - 1, w)
    BY WayIs
  <1>5. w.open => w.at = f /\ Has(w.d, f) /\ \A m \in 1..n - 1 : Has(w.d, SubSeq(key, 1, m - 1)) /\ w.d[SubSeq(key, 1, m - 1)].ty = Holder(key[m])
    BY <1>4 DEF OnWay, Fits
  <1> HIDE DEF w
  <1>6. r = IF w.open /\ enter THEN Replace(w.d, key, v) ELSE w.d
    BY <1>3, <1>5 DEF SetPathValue, Last, w, IsRoot
  <1>7. Reachable(d, key) => w.open /\ enter
    BY <1>1, <1>2, <1>4, NextFits
  <1> HIDE DEF r
  <1>8. CASE w.open /\ enter
    <2> DEFINE t == w.d
    <2>1. Fits(t, key, n)
      <3>1. \A m \in 1..n : m \in 1..n - 1 \/ m = n
        BY <1>1
      <3> QED
        BY <1>5, <1>8, <3>1 DEF Fits
    <2> HIDE DEF f, n
    <2>2. IsTree(t) /\ Has(t, SubSeq(key, 1, Len(key) - 1)) /\ r = Replace(t, key, v)
      BY <1>3, <1>4, <1>5, <1>6, <1>8 DEF OnWay
    <2> HIDE DEF t
    <2>3. Replaced(t, key, v, r)
      BY <2>2, ReplaceIs
    <2>4. /\ \A q \in DOMAIN d : Has(t, q) /\ t[q] = d[q]
          /\ \A q \in DOMAIN t : Has(d, q) \/ IsPrefix(q, key)
      BY <1>4 DEF OnWay, t
    <2>5. \A q \in DOMAIN d : ~IsPrefix(key, q) => Has(r, q) /\ r[q] = d[q]
      BY <2>3, <2>4 DEF Replaced, Has
    <2>6. \A q \in DOMAIN r \ DOMAIN d : IsPrefix(key, q) \/ IsPrefix(q, key)
      BY <2>3, <2>4 DEF Replaced, Has
    <2>7. \A m \in 1..n : ~IsPrefix(key, SubSeq(key, 1, m - 1))
      <3> TAKE m \in 1..n
      <3> DEFINE k == m - 1
      <3>1. k \in 0..Len(key) /\ ~(Len(key) <= k)
        BY <1>1 DEF n
      <3> HIDE DEF k
      <3>2. ~IsPrefix(key, SubSeq(key, 1, k))
        BY <3>1, PrefixOfPrefix
      <3> QED
        BY <3>2 DEF k
    <2>8. Fits(r, key, n)
      BY <2>1, <2>3, <2>7 DEF Fits, Replaced, Has
    <2> QED
      BY <2>3, <2>5, <2>6, <2>8 DEF Replaced, r, n
  <1>9. CASE ~(w.open /\ enter)
    <2> HIDE DEF enter
    <2>1. r = w.d /\ ~Reachable(d, key)
      BY <1>6, <1>7, <1>9
    <2> QED
      BY <1>4, <2>1 DEF OnWay, Has, r
  <1> QED
    BY <1>8, <1>9

\* A config.set, done or refused.
LEMMA ConfigSetKeeps ==
  ASSUME IsTree(doc), NEW key \in SetKeys, NEW v \in SetValues, ConfigSet(key, v)
  PROVE  IsTree(doc') /\ SetExact'
  <1> DEFINE answer == ConfigSetAnswer(doc, key, v)
  <1>1. IsTree(v) /\ key \in Seq(STRING) /\ key # <<>>
    BY ApiAssumption
  <1>2. /\ said' = [key |-> key, value |-> v, answer |-> answer, before |-> doc]
        /\ doc' = IF said'.answer = "ok" THEN SetPathValue(doc, key, v) ELSE doc
    BY DEF ConfigSet
  <1>3. answer = "ok" => (Found(doc, key) => Compatible(doc[key].ty, v[<<>>].ty))
    BY DEF ConfigSetAnswer
  <1> HIDE DEF answer
  <1>4. said'.key = key /\ said'.value = v /\ said'.answer = answer /\ said'.before = doc
    BY <1>2
  <1>5. CASE answer # "ok"
    <2>1. doc' = doc
      BY <1>2, <1>4, <1>5
    <2> QED
      BY <1>4, <1>5, <2>1 DEF SetExact
  <1>6. CASE answer = "ok" /\ key = <<"">>
    <2>1. doc' = v
      BY <1>2, <1>4, <1>6 DEF SetPathValue
    <2> QED
      BY <1>1, <1>4, <1>6, <2>1 DEF SetExact
  <1>7. CASE answer = "ok" /\ key # <<"">>
    <2>1. doc' = SetPathValue(doc, key, v)
      BY <1>2, <1>4, <1>7
    <2>2. /\ IsTree(doc')
          /\ Reachable(doc, key) => Has(doc', key) /\ SubTree(doc', key) = v /\ Fits(doc', key, Len(key))
          /\ \A q \in DOMAIN doc : ~IsPrefix(key, q) => Has(doc', q) /\ doc'[q] = doc[q]
          /\ \A q \in DOMAIN doc' \ DOMAIN doc : IsPrefix(key, q) \/ IsPrefix(q, key)
      BY <1>1, <1>7, <2>1, SetPathIs DEF IsRoot
    <2>3. Reachable(doc, key) /\ Range(key) \cap (Numeric \cup DOMAIN Access) = {} => ConfigGet(doc', key) = v
      <3> SUFFICES ASSUME Reachable(doc, key), Range(key) \cap (Numeric \cup DOMAIN Access) = {} PROVE ConfigGet(doc', key) = v
        OBVIOUS
      <3>1. Segments(key) = key /\ DOMAIN key = 1..Len(key)
        BY <1>1, SegmentsPlain
      <3>2. \A n \in DOMAIN key : key[n] \notin Numeric /\ key[n] \notin DOMAIN Access
        BY DEF Range
      <3>3. \A n \in DOMAIN key : Segments(SubSeq(key, 1, n - 1)) = SubSeq(key, 1, n - 1)
        <4> TAKE n \in DOMAIN key
        <4> DEFINE k == n - 1
                   f == SubSeq(key, 1, k)
        <4>1. k \in 0..Len(key) /\ Len(key) \in Nat
          BY <1>1, <3>1
        <4> HIDE DEF k
        <4>2. f \in Seq(STRING) /\ Len(f) = k /\ \A i \in 1..k : f[i] = key[i]
          BY <1>1, <4>1, PrefixOfPrefix
        <4>3. \A i \in 1..k : i \in DOMAIN key
          BY <3>1, <4>1
        <4> HIDE DEF f
        <4>4. DOMAIN f = 1..k
          BY <4>2
        <4>5. Range(f) \cap DOMAIN Access = {}
          BY <3>2, <4>2, <4>3, <4>4 DEF Range
        <4>6. Segments(f) = f
          BY <4>2, <4>5, SegmentsPlain
        <4> QED
          BY <4>6 DEF f, k
      <3>4. \A n \in DOMAIN key : doc'[SubSeq(key, 1, n - 1)].ty = "object"
        BY <2>2, <3>1, <3>2 DEF Fits, Holder
      <3> QED
        BY <1>7, <2>2, <3>1, <3>2, <3>3, <3>4 DEF ConfigGet
    <2> QED
      BY <1>3, <1>4, <1>7, <2>2, <2>3 DEF SetExact
  <1> QED
    BY <1>5, <1>6, <1>7

\* A config.set that says ok has set its key and nothing else; one that does not changes nothing.
THEOREM SetsAreExact == ApiSpec => []SetExact
  <1> DEFINE Inv == IsTree(doc) /\ SetExact
  <1>1. ApiInit => Inv
    <2> SUFFICES ASSUME ApiInit PROVE Inv
      OBVIOUS
    <2>1. doc \in Documents /\ said.answer = "none"
      BY DEF ApiInit
    <2> QED
      BY <2>1, ApiAssumption DEF SetExact
  <1>2. Inv /\ [ApiNext]_apiVars => Inv'
    <2> SUFFICES ASSUME Inv, [ApiNext]_apiVars PROVE Inv'
      OBVIOUS
    <2>1. ASSUME NEW key \in SetKeys, NEW v \in SetValues, ConfigSet(key, v) PROVE Inv'
      BY <2>1, ConfigSetKeeps
    <2>2. CASE doc' = doc /\ said' = said
      BY <2>2 DEF SetExact
    <2>3. ASSUME ~\E key \in SetKeys, v \in SetValues : ConfigSet(key, v) PROVE doc' = doc /\ said' = said
      BY <2>3 DEF ApiNext, apiVars, RenameProxies, DedupProxies, SortProxies, ProxyCall, RulesPrepend, RulesAppend,
         RulesInsert, RulesInsertPanics, RulesDedup, RulesCall, RemoveBegin, RemoveEnd, RemoveThrows, GroupAdd, GroupDrop, GroupCreate, GroupRemove, GroupCall
    <2> QED
      BY <2>1, <2>2, <2>3
  <1>3. Inv => SetExact
    OBVIOUS
  <1> QED
    BY <1>1, <1>2, <1>3, PTL DEF ApiSpec
=============================================================================
