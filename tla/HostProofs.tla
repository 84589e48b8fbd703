----------------------------- MODULE HostProofs -----------------------------
(***************************************************************************)
(* Proofs about what runs beside the pipeline, for every value of the      *)
(* constants: the failure tracker, the two caches, the plugin tables, the  *)
(* server, the migrations, the watch mode and the smart selector.  They    *)
(* share nothing but lemmas about lists.                                   *)
(***************************************************************************)
EXTENDS WatchMode, Caches, PluginHost, Failover, Server, Migration, Smart, FunctionTheorems, FiniteSetTheorems,
        SequenceTheorems, WellFoundedInduction, TLAPS

-----------------------------------------------------------------------------
(* Lists. *)

\* A list without repetitions is as long as the set of its elements is large.
LEMMA InjectiveLength ==
  ASSUME NEW T, NEW s \in Seq(T), IsInjective(s)
  PROVE  IsFiniteSet(Range(s)) /\ Cardinality(Range(s)) = Len(s)
  <1> DEFINE n == Len(s)
  <1>1. n \in Nat /\ DOMAIN s = 1..n
    OBVIOUS
  <1>2. IsFiniteSet(1..n) /\ Cardinality(1..n) = n
    <2> HIDE DEF n
    <2>1. n \in Int /\ 1 \in Int /\ ~(1 > n) => n - 1 + 1 = n
      BY <1>1
    <2>2. IsFiniteSet(1..n) /\ Cardinality(1..n) = IF 1 > n THEN 0 ELSE n - 1 + 1
      BY <1>1, <2>1, FS_Interval
    <2> QED
      BY <1>1, <2>1, <2>2
  <1>3. s \in Bijection(1..n, Range(s))
    <2>1. s \in [1..n -> Range(s)] /\ \A v \in Range(s) : \E i \in 1..n : s[i] = v
      BY <1>1 DEF Range
    <2>2. \A i, j \in 1..n : s[i] = s[j] => i = j
      BY <1>1 DEF IsInjective
    <2> HIDE DEF n
    <2>3. s \in Injection(1..n, Range(s)) /\ s \in Surjection(1..n, Range(s))
      BY <2>1, <2>2, Fun_IsInj, Fun_IsSurj
    <2> QED
      BY <2>3 DEF Bijection
  <1> QED
    BY <1>2, <1>3, FS_Bijection DEF ExistsBijection

LEMMA RetainedProperties ==
  ASSUME NEW T, NEW s \in Seq(T), NEW S
  PROVE  /\ Retained(s, S) \in Seq(T)
         /\ Range(Retained(s, S)) = Range(s) \ S
         /\ IsInjective(s) => IsInjective(Retained(s, S))
  <1> DEFINE kept == {i \in DOMAIN s : s[i] \notin S}
             upto(i) == {j \in kept : j <= i}
             rank(i) == Cardinality(upto(i))
             n == Cardinality(kept)
             at(k) == CHOOSE i \in kept : rank(i) = k
             r == Retained(s, S)
  <1>1. Len(s) \in Nat /\ DOMAIN s = 1..Len(s) /\ kept \subseteq 1..Len(s)
    OBVIOUS
  <1>2. IsFiniteSet(kept) /\ n \in Nat
    <2>1. IsFiniteSet(1..Len(s))
      BY <1>1, FS_Interval
    <2> HIDE DEF kept
    <2> QED
      BY <1>1, <2>1, FS_Subset, FS_CardinalityType
  <1>3. ASSUME NEW i PROVE IsFiniteSet(upto(i)) /\ rank(i) \in Nat /\ rank(i) <= n
    <2>1. upto(i) \in SUBSET kept
      OBVIOUS
    <2> HIDE DEF upto, kept
    <2> QED
      BY <1>2, <2>1, FS_Subset, FS_CardinalityType
  <1>4. \A i \in kept : rank(i) \in 1..n
    <2> SUFFICES ASSUME NEW i \in kept PROVE rank(i) \in 1..n
      OBVIOUS
    <2>1. i \in upto(i)
      BY <1>1
    <2>2. IsFiniteSet(upto(i)) /\ rank(i) \in Nat /\ rank(i) <= n
      BY <1>3
    <2> HIDE DEF upto, n
    <2>3. rank(i) # 0
      BY <2>1, <2>2, FS_EmptySet
    <2> QED
      BY <1>2, <2>2, <2>3
  <1>5. ASSUME NEW i \in kept, NEW j \in kept, i < j PROVE rank(i) # rank(j)
    <2>1. upto(i) \subseteq upto(j) /\ j \in upto(j) /\ j \notin upto(i)
      BY <1>1, <1>5
    <2>2. IsFiniteSet(upto(j))
      BY <1>3
    <2> HIDE DEF upto
    <2> QED
      BY <2>1, <2>2, FS_Subset
  <1>6. \A i, j \in kept : rank(i) = rank(j) => i = j
    BY <1>1, <1>5
  <1>7. \A k \in 1..n : \E i \in kept : rank(i) = k
    <2> DEFINE f == [i \in kept |-> rank(i)]
    <2>1. f \in Injection(kept, 1..n)
      <3>1. f \in [kept -> 1..n]
        BY <1>4
      <3>2. \A i, j \in kept : f[i] = f[j] => i = j
        BY <1>6
      <3> QED
        BY <3>1, <3>2 DEF Injection, IsInjective
    <2>2. IsFiniteSet(1..n) /\ Cardinality(1..n) = n
      BY <1>2, FS_Interval
    <2>3. f \in Surjection(kept, 1..n)
      BY <2>1, <2>2, FS_Injection
    <2> QED
      BY <2>3 DEF Surjection
  <1>8. \A k \in 1..n : at(k) \in kept /\ rank(at(k)) = k
    BY <1>7
  <1>9. r = [k \in 1..n |-> s[at(k)]]
    BY DEF Retained, Chosen
  <1> HIDE DEF kept, rank, n, at, r
  <1>10. r \in Seq(T) /\ DOMAIN r = 1..n
    <2>1. \A k \in 1..n : s[at(k)] \in T
      BY <1>1, <1>8 DEF kept
    <2>2. r \in [1..n -> T]
      BY <1>9, <2>1
    <2> QED
      BY <1>2, <2>2, SeqDef
  <1>11. Range(r) \subseteq Range(s) \ S
    BY <1>1, <1>8, <1>9 DEF Range, kept
  <1>12. Range(s) \ S \subseteq Range(r)
    <2> SUFFICES ASSUME NEW i \in DOMAIN s, s[i] \notin S PROVE s[i] \in Range(r)
      BY DEF Range
    <2>1. i \in kept
      BY DEF kept
    <2>2. rank(i) \in 1..n
      BY <2>1, <1>4 DEF rank, n
    <2>3. at(rank(i)) = i
      BY <2>1, <2>2, <1>6, <1>8 DEF rank
    <2> QED
      BY <1>9, <1>10, <2>2, <2>3 DEF Range
  <1>13. ASSUME IsInjective(s) PROVE IsInjective(r)
    <2> SUFFICES ASSUME NEW j \in 1..n, NEW k \in 1..n, r[j] = r[k] PROVE j = k
      BY <1>10 DEF IsInjective
    <2>1. at(j) = at(k)
      BY <1>1, <1>8, <1>9, <1>13 DEF IsInjective, kept
    <2> QED
      BY <1>8, <2>1
  <1> QED
    BY <1>10, <1>11, <1>12, <1>13 DEF r

-----------------------------------------------------------------------------
(* The memory cache. *)

Slots == [value : Int, mtime : Int, path : BOOLEAN, late : BOOLEAN]

\* A value whose file did not change under the hands of its caller bears the time of that file.
Dated(e) == e.mtime # 0 => e.path /\ (~e.late => e.value = e.mtime)
MemTypes ==
  /\ version \in [CacheKeys -> Nat]
  /\ touched \in Nat
  /\ entries \in [CacheKeys -> Slots]
  /\ fifo \in Seq(CacheKeys)
  /\ tpc \in [Threads -> {"idle", "insert", "check", "drop"}]
  /\ DOMAIN held = Threads
  /\ \A t \in Threads : tpc[t] # "idle" => held[t].key \in CacheKeys /\ held[t].entry \in Slots
  /\ served.entry \in Slots /\ served.version \in Nat
MemInv ==
  /\ MemTypes
  /\ \A k \in CacheKeys : Dated(entries[k])
  /\ \A t \in Threads : /\ tpc[t] # "idle" => Dated(held[t].entry)
                        /\ tpc[t] = "insert" => held[t].entry.value \in Nat
  /\ IsInjective(fifo) /\ MapsAgree
  /\ ServedFresh

LEMMA NoneIsSlot == None \in Slots /\ Dated(None) /\ None.value = -1
  BY DEF None, Entry, Slots, Dated

LEMMA MemStarts == MemInit => MemInv
  <1> SUFFICES ASSUME MemInit PROVE MemInv
    OBVIOUS
  <1> USE NoneIsSlot DEF MemInit
  <1>1. MemTypes
    BY DEF MemTypes
  <1>2. IsInjective(fifo) /\ Range(fifo) = {} /\ Len(fifo) = 0
    BY DEF IsInjective, Range
  <1>3. Cached = {}
    BY DEF Cached
  <1>4. MapsAgree
    BY <1>2, <1>3, FS_EmptySet, MemoryAssumption DEF MapsAgree
  <1>5. ServedFresh
    BY DEF ServedFresh
  <1> QED
    BY <1>1, <1>2, <1>4, <1>5 DEF MemInv

\* Taking a key out of the queue and the map together.
LEMMA TakenOut ==
  ASSUME MemInv, NEW k \in CacheKeys
  PROVE  LET q == Retained(fifo, {k})
         IN  /\ q \in Seq(CacheKeys) /\ IsInjective(q)
             /\ Range(q) = Cached \ {k}
             /\ IsFiniteSet(Cached \ {k}) /\ Cardinality(Cached \ {k}) = Len(q)
             /\ Len(q) <= Len(fifo)
  <1> DEFINE q == Retained(fifo, {k})
  <1>1. fifo \in Seq(CacheKeys) /\ IsInjective(fifo) /\ Range(fifo) = Cached
    BY DEF MemInv, MemTypes, MapsAgree
  <1>2. q \in Seq(CacheKeys) /\ IsInjective(q) /\ Range(q) = Cached \ {k}
    BY <1>1, RetainedProperties
  <1> HIDE DEF q
  <1>3. IsFiniteSet(Cached \ {k}) /\ Cardinality(Cached \ {k}) = Len(q)
    BY <1>2, InjectiveLength
  <1>4. IsFiniteSet(Cached) /\ Cardinality(Cached) = Len(fifo)
    BY <1>1, InjectiveLength
  <1>5. Cardinality(Cached \ {k}) <= Cardinality(Cached)
    BY <1>4, FS_Subset
  <1> QED
    BY <1>2, <1>3, <1>4, <1>5 DEF q

\* The front of a list without repetitions and the rest of it share nothing.
LEMMA RestOfList ==
  ASSUME NEW T, NEW q \in Seq(T), IsInjective(q), NEW x \in Nat, x > 0
  PROVE  LET rest == SubSeq(q, x + 1, Len(q))
             gone == {q[i] : i \in {j \in DOMAIN q : j <= x}}
         IN  /\ rest \in Seq(T) /\ IsInjective(rest)
             /\ Range(rest) = Range(q) \ gone
             /\ Len(rest) = IF x <= Len(q) THEN Len(q) - x ELSE 0
  <1> DEFINE L == Len(q)
             rest == SubSeq(q, x + 1, L)
             gone == {q[i] : i \in {j \in DOMAIN q : j <= x}}
             R == IF x <= L THEN L - x ELSE 0
  <1>1. L \in Nat /\ DOMAIN q = 1..L /\ R \in Nat
    OBVIOUS
  <1>2. rest = [i \in 1..R |-> q[i + x]]
    <2>1. CASE x <= L
      BY <1>1, <2>1, SubSeqProperties
    <2>2. CASE x > L
      BY <1>1, <2>2, SubSeqProperties
    <2> QED
      BY <1>1, <2>1, <2>2
  <1> HIDE DEF L, rest, R
  <1>3. rest \in [1..R -> T] /\ DOMAIN rest = 1..R
    <2>1. \A i \in 1..R : q[i + x] \in T
      BY <1>1 DEF L, R
    <2> QED
      BY <1>2, <2>1
  <1>4. rest \in Seq(T) /\ Len(rest) = R
    BY <1>1, <1>3, SeqDef, LenProperties
  <1>5. IsInjective(rest)
    <2> SUFFICES ASSUME NEW i \in 1..R, NEW j \in 1..R, rest[i] = rest[j] PROVE i = j
      BY <1>3 DEF IsInjective
    <2>1. i + x \in DOMAIN q /\ j + x \in DOMAIN q
      BY <1>1 DEF R
    <2>2. i + x = j + x
      BY <1>2, <2>1 DEF IsInjective
    <2> QED
      BY <1>1, <2>2
  <1>6. Range(rest) = Range(q) \ gone
    <2>1. ASSUME NEW i \in 1..R PROVE rest[i] \in Range(q) \ gone
      <3>1. i + x \in DOMAIN q /\ i + x > x
        BY <1>1 DEF R
      <3>2. rest[i] = q[i + x] /\ rest[i] \in Range(q)
        BY <1>2, <3>1 DEF Range
      <3>3. ASSUME NEW j \in DOMAIN q, j <= x PROVE q[j] # q[i + x]
        BY <1>1, <3>1, <3>3 DEF IsInjective
      <3> QED
        BY <3>2, <3>3
    <2>2. ASSUME NEW i \in DOMAIN q, q[i] \notin gone PROVE q[i] \in Range(rest)
      <3>1. i > x
        BY <1>1, <2>2
      <3>2. i - x \in 1..R /\ rest[i - x] = q[i]
        BY <1>1, <1>2, <3>1 DEF R
      <3> QED
        BY <1>3, <3>2 DEF Range
    <2> QED
      BY <1>3, <2>1, <2>2 DEF Range
  <1> QED
    BY <1>4, <1>5, <1>6 DEF L, rest, R

\* What the critical sections keep: the part of the invariant that is about the maps.
MapsKept ==
  /\ entries' \in [CacheKeys -> Slots] /\ (\A k \in CacheKeys : Dated(entries'[k]))
  /\ fifo' \in Seq(CacheKeys) /\ IsInjective(fifo') /\ MapsAgree'

LEMMA WithoutKeeps ==
  ASSUME MemInv, NEW k \in CacheKeys, Without(k)
  PROVE  MapsKept
  <1> DEFINE q == Retained(fifo, {k})
  <1>1. entries \in [CacheKeys -> Slots] /\ fifo' = q /\ entries' = [entries EXCEPT ![k] = None]
    BY DEF MemInv, MemTypes, Without
  <1>2. /\ q \in Seq(CacheKeys) /\ IsInjective(q) /\ Range(q) = Cached \ {k}
        /\ Cardinality(Cached \ {k}) = Len(q) /\ Len(q) <= Len(fifo)
    BY TakenOut
  <1>3. Cached' = Cached \ {k}
    BY <1>1 DEF Cached
  <1>4. Len(fifo) <= MaxSize /\ Len(fifo) \in Nat /\ Len(q) \in Nat
    BY <1>2 DEF MemInv, MemTypes, MapsAgree
  <1> HIDE DEF q
  <1>5. MapsAgree'
    BY <1>1, <1>2, <1>3, <1>4, MemoryAssumption DEF MapsAgree
  <1>6. entries' \in [CacheKeys -> Slots] /\ \A j \in CacheKeys : Dated(entries'[j])
    BY <1>1, NoneIsSlot DEF MemInv
  <1> QED
    BY <1>1, <1>2, <1>5, <1>6 DEF MapsKept

LEMMA InsertKeeps ==
  ASSUME MemInv, NEW t \in Threads, NEW withFile \in BOOLEAN, Insert(t, withFile)
  PROVE  MapsKept
  <1> DEFINE k == held[t].key
             v == held[t].entry.value
             q == Retained(fifo, {k})
             excess == Cardinality(Cached \ {k}) - MaxSize + 1
             gone == {q[i] : i \in {j \in DOMAIN q : j <= excess}}
             stay == IF excess > 0 THEN SubSeq(q, excess + 1, Len(q)) ELSE q
             new == Entry(v, IF withFile THEN version[k] ELSE 0, withFile, withFile /\ version[k] # v)
  <1>1. /\ k \in CacheKeys /\ v \in Nat /\ version[k] \in Nat
        /\ entries \in [CacheKeys -> Slots]
    BY DEF MemInv, MemTypes, Insert
  <1>2. /\ fifo' = IF MaxSize = 0 THEN stay ELSE Append(stay, k)
        /\ entries' = [j \in CacheKeys |-> IF j = k THEN (IF MaxSize > 0 THEN new ELSE None)
                                           ELSE IF j \in gone THEN None ELSE entries[j]]
    BY DEF Insert
  <1>3. /\ q \in Seq(CacheKeys) /\ IsInjective(q) /\ Range(q) = Cached \ {k}
        /\ Cardinality(Cached \ {k}) = Len(q)
    BY <1>1, TakenOut
  <1>4. new \in Slots /\ Dated(new) /\ new # None
    BY <1>1, NoneIsSlot DEF Slots, Entry, Dated
  <1> HIDE DEF k, v, q, new
  <1>5. excess = Len(q) - MaxSize + 1 /\ excess \in Int /\ Len(q) \in Nat
    BY <1>3, MemoryAssumption
  <1> HIDE DEF excess
  <1>6. /\ stay \in Seq(CacheKeys) /\ IsInjective(stay) /\ Range(stay) = Range(q) \ gone
        /\ Len(stay) + 1 <= MaxSize \/ (MaxSize = 0 /\ Len(stay) = 0)
    <2>1. CASE excess > 0
      <3> DEFINE rest == SubSeq(q, excess + 1, Len(q))
      <3>1. stay = rest
        BY <2>1
      <3>2. /\ rest \in Seq(CacheKeys) /\ IsInjective(rest) /\ Range(rest) = Range(q) \ gone
            /\ Len(rest) = IF excess <= Len(q) THEN Len(q) - excess ELSE 0
        <4>1. excess \in Nat
          BY <1>5, <2>1
        <4> QED
          BY <1>3, <2>1, <4>1, RestOfList
      <3> HIDE DEF rest, gone
      <3>3. Len(rest) + 1 <= MaxSize \/ (MaxSize = 0 /\ Len(rest) = 0)
        BY <1>5, <2>1, <3>2, MemoryAssumption
      <3> QED
        BY <3>1, <3>2, <3>3
    <2>2. CASE ~(excess > 0)
      <3>1. stay = q /\ gone = {}
        BY <1>3, <1>5, <2>2
      <3> QED
        BY <1>3, <1>5, <2>2, <3>1, MemoryAssumption
    <2> QED
      BY <2>1, <2>2
  <1>7. gone \subseteq Range(q) /\ k \notin Range(q)
    BY <1>3 DEF Range
  <1> HIDE DEF gone, stay
  <1>8. entries' \in [CacheKeys -> Slots] /\ \A j \in CacheKeys : Dated(entries'[j])
    BY <1>1, <1>2, <1>4, NoneIsSlot DEF MemInv
  <1>9. Cached' = IF MaxSize = 0 THEN Range(stay) ELSE Range(stay) \cup {k}
    BY <1>1, <1>2, <1>3, <1>4, <1>6, <1>7, MemoryAssumption DEF Cached
  <1>10. fifo' \in Seq(CacheKeys) /\ IsInjective(fifo') /\ Range(fifo') = Cached' /\ Len(fifo') <= MaxSize
    <2>1. CASE MaxSize = 0
      BY <1>2, <1>6, <1>9, <2>1
    <2>2. CASE MaxSize # 0
      <3>1. fifo' = Append(stay, k) /\ Len(stay) \in Nat /\ DOMAIN stay = 1..Len(stay)
        BY <1>2, <1>6, <2>2
      <3>2. /\ fifo' \in Seq(CacheKeys) /\ Len(fifo') = Len(stay) + 1
            /\ fifo'[Len(stay) + 1] = k /\ \A i \in 1..Len(stay) : fifo'[i] = stay[i]
        BY <1>1, <1>6, <3>1, AppendProperties
      <3>3. DOMAIN fifo' = 1..(Len(stay) + 1)
        BY <3>2
      <3>4. IsInjective(fifo')
        <4> SUFFICES ASSUME NEW i \in 1..(Len(stay) + 1), NEW j \in 1..(Len(stay) + 1), fifo'[i] = fifo'[j]
                     PROVE  i = j
          BY <3>3 DEF IsInjective
        <4>1. \A x \in 1..Len(stay) : stay[x] # k
          BY <1>6, <1>7, <3>1 DEF Range
        <4> QED
          BY <1>6, <3>1, <3>2, <4>1 DEF IsInjective
      <3>5. Range(fifo') = Range(stay) \cup {k}
        BY <3>1, <3>2, <3>3 DEF Range
      <3> QED
        BY <1>6, <1>9, <2>2, <3>2, <3>4, <3>5
    <2> QED
      BY <2>1, <2>2
  <1>11. Len(fifo') = Cardinality(Cached')
    BY <1>10, InjectiveLength
  <1> QED
    BY <1>8, <1>10, <1>11 DEF MapsKept, MapsAgree

LEMMA MemKeeps == MemInv /\ [MemNext]_memVars => MemInv'
  <1> SUFFICES ASSUME MemInv, [MemNext]_memVars PROVE MemInv'
    OBVIOUS
  <1> USE NoneIsSlot
  <1>1. ASSUME NEW k \in CacheKeys, Touch(k) PROVE MemInv'
    <2>1. version' \in [CacheKeys -> Nat] /\ touched' \in Nat
      <3>1. version \in [CacheKeys -> Nat] /\ touched \in Nat
        BY DEF MemInv, MemTypes
      <3>2. PICK v \in {0, touched + 1} : version' = [version EXCEPT ![k] = v]
        BY <1>1 DEF Touch
      <3>3. touched' = touched + 1
        BY <1>1 DEF Touch
      <3> QED
        BY <3>1, <3>2, <3>3
    <2>2. MemTypes'
      BY <1>1, <2>1 DEF Touch, MemInv, MemTypes
    <2> QED
      BY <1>1, <2>2 DEF Touch, MemInv, MapsAgree, ServedFresh, Cached
  <1>2. ASSUME NEW t \in Threads, NEW k \in CacheKeys, Compute(t, k) PROVE MemInv'
    <2> DEFINE e == Entry(version[k], 0, FALSE, FALSE)
    <2>1. e \in Slots /\ Dated(e) /\ e.value \in Nat
      BY DEF MemInv, MemTypes, Entry, Slots, Dated
    <2> HIDE DEF e
    <2>2. /\ tpc' = [tpc EXCEPT ![t] = "insert"]
          /\ held' = [held EXCEPT ![t] = [key |-> k, entry |-> e]]
      BY <1>2 DEF Compute, e
    <2>3. \A u \in Threads : tpc'[u] # "idle" => held'[u].key \in CacheKeys /\ held'[u].entry \in Slots
      <3> SUFFICES ASSUME NEW u \in Threads, tpc'[u] # "idle"
                   PROVE  held'[u].key \in CacheKeys /\ held'[u].entry \in Slots
        OBVIOUS
      <3>1. CASE u = t
        <4>1. held'[u] = [key |-> k, entry |-> e]
          BY <2>2, <3>1 DEF MemInv, MemTypes
        <4> QED
          BY <2>1, <4>1
      <3>2. CASE u # t
        <4>1. held'[u] = held[u] /\ tpc'[u] = tpc[u]
          BY <2>2, <3>2 DEF MemInv, MemTypes
        <4> QED
          BY <4>1 DEF MemInv, MemTypes
      <3> QED
        BY <3>1, <3>2
    <2>5. MemTypes'
      BY <1>2, <2>2, <2>3 DEF Compute, MemInv, MemTypes
    <2>4. \A u \in Threads : /\ tpc'[u] # "idle" => Dated(held'[u].entry)
                             /\ tpc'[u] = "insert" => held'[u].entry.value \in Nat
      <3> SUFFICES ASSUME NEW u \in Threads
                   PROVE  /\ tpc'[u] # "idle" => Dated(held'[u].entry)
                          /\ tpc'[u] = "insert" => held'[u].entry.value \in Nat
        OBVIOUS
      <3>1. CASE u = t
        <4>1. held'[u].entry = e
          BY <2>2, <3>1 DEF MemInv, MemTypes
        <4> QED
          BY <2>1, <4>1
      <3>2. CASE u # t
        <4>1. held'[u] = held[u] /\ tpc'[u] = tpc[u]
          BY <2>2, <3>2 DEF MemInv, MemTypes
        <4> QED
          BY <4>1 DEF MemInv
      <3> QED
        BY <3>1, <3>2
    <2> QED
      BY <1>2, <2>4, <2>5 DEF Compute, MemInv, MapsAgree, ServedFresh, Cached
  <1>3. ASSUME NEW t \in Threads, Idle(t), MapsKept, UNCHANGED <<version, touched, served>> PROVE MemInv'
    BY <1>3 DEF Idle, MapsKept, MemInv, MemTypes, ServedFresh
  <1>4. ASSUME NEW t \in Threads, NEW b \in BOOLEAN, Insert(t, b) PROVE MemInv'
    <2>1. Idle(t) /\ UNCHANGED <<version, touched, served>>
      BY <1>4 DEF Insert
    <2> QED
      BY <1>3, <1>4, <2>1, InsertKeeps
  <1>5. ASSUME NEW t \in Threads, NEW k \in CacheKeys, GetFirst(t, k) PROVE MemInv'
    <2>1. entries[k] \in Slots /\ Dated(entries[k]) /\ version[k] \in Nat
      BY DEF MemInv, MemTypes
    <2>2. CASE entries[k].path
      <3>1. /\ tpc' = [tpc EXCEPT ![t] = "check"]
            /\ held' = [held EXCEPT ![t] = [key |-> k, entry |-> entries[k]]]
            /\ UNCHANGED <<served, version, touched, entries, fifo>>
        BY <1>5, <2>2 DEF GetFirst
      <3> QED
        BY <2>1, <3>1 DEF MemInv, MemTypes, MapsAgree, ServedFresh, Cached
    <2>3. CASE ~entries[k].path
      <3>1. /\ served' = IF entries[k] = None THEN served ELSE [entry |-> entries[k], version |-> version[k]]
            /\ UNCHANGED <<tpc, held, version, touched, entries, fifo>>
        BY <1>5, <2>3 DEF GetFirst
      <3>2. served'.entry \in Slots /\ served'.version \in Nat /\ ServedFresh'
        BY <2>1, <2>3, <3>1 DEF MemInv, MemTypes, ServedFresh, Dated
      <3> QED
        BY <3>1, <3>2 DEF MemInv, MemTypes, MapsAgree, Cached
    <2> QED
      BY <2>1, <2>2, <2>3 DEF Slots
  <1>6. ASSUME NEW t \in Threads, GetCheck(t) PROVE MemInv'
    <2> DEFINE k == held[t].key
               e == held[t].entry
    <2>1. k \in CacheKeys /\ e \in Slots /\ Dated(e) /\ version[k] \in Nat
      BY <1>6 DEF GetCheck, MemInv, MemTypes
    <2>2. CASE Outdated(e, version[k])
      <3>1. tpc' = [tpc EXCEPT ![t] = "drop"] /\ UNCHANGED <<held, served, version, touched, entries, fifo>>
        BY <1>6, <2>2 DEF GetCheck
      <3> QED
        BY <2>1, <3>1 DEF MemInv, MemTypes, MapsAgree, ServedFresh, Cached
    <2>3. CASE ~Outdated(e, version[k])
      <3>1. /\ served' = [entry |-> e, version |-> version[k]] /\ Idle(t)
            /\ UNCHANGED <<version, touched, entries, fifo>>
        BY <1>6, <2>3 DEF GetCheck
      <3>2. served'.entry \in Slots /\ served'.version \in Nat /\ ServedFresh'
        BY <2>1, <2>3, <3>1 DEF ServedFresh, Outdated, Dated, Slots
      <3> QED
        BY <3>1, <3>2 DEF Idle, MemInv, MemTypes, MapsAgree, Cached
    <2> QED
      BY <2>2, <2>3
  <1>7. ASSUME NEW t \in Threads, GetDrop(t) PROVE MemInv'
    <2>1. held[t].key \in CacheKeys /\ Without(held[t].key) /\ Idle(t) /\ UNCHANGED <<version, touched, served>>
      BY <1>7 DEF GetDrop, MemInv, MemTypes
    <2> QED
      BY <1>3, <2>1, WithoutKeeps
  <1>8. ASSUME MapsKept, UNCHANGED <<version, touched, tpc, held, served>> PROVE MemInv'
    BY <1>8 DEF MapsKept, MemInv, MemTypes, ServedFresh
  <1>9. ASSUME NEW k \in CacheKeys, Invalidate(k) PROVE MemInv'
    BY <1>8, <1>9, WithoutKeeps DEF Invalidate
  <1>10. CASE Clear
    <2>1. entries' = [k \in CacheKeys |-> None] /\ fifo' = <<>>
      BY <1>10 DEF Clear
    <2>2. IsInjective(fifo') /\ Range(fifo') = {} /\ Len(fifo') = 0 /\ fifo' \in Seq(CacheKeys)
      BY <2>1 DEF IsInjective, Range
    <2>3. Cached' = {}
      BY <2>1 DEF Cached
    <2>4. MapsAgree'
      BY <2>2, <2>3, FS_EmptySet, MemoryAssumption DEF MapsAgree
    <2>5. MapsKept
      BY <2>1, <2>2, <2>4 DEF MapsKept
    <2> QED
      BY <1>8, <1>10, <2>5 DEF Clear
  <1>11. CASE UNCHANGED memVars
    BY <1>11 DEF memVars, MemInv, MemTypes, MapsAgree, ServedFresh, Cached
  <1> QED
    BY <1>1, <1>2, <1>4, <1>5, <1>6, <1>7, <1>9, <1>10, <1>11 DEF MemNext

\* For any keys, capacity and times: a hit is a value of the file as it was when the value was
\* stored, unless the file changed under the hands of the caller, and queue and map name the same keys.
THEOREM HitsAreFresh == MemSpec => [](ServedFresh /\ MapsAgree)
  <1>1. MemInv => ServedFresh /\ MapsAgree
    BY DEF MemInv
  <1> QED
    BY <1>1, MemStarts, MemKeeps, PTL DEF MemSpec

-----------------------------------------------------------------------------
(* The disk cache. *)

Pieces == Values \cup {"-"}
Steps == {"idle", "create", "first", "second", "rename"}
WholeEntries == {Whole(v) : v \in Values}

DiskTypes ==
  /\ dir.tmp \in 0..MaxCalls /\ dir.cache \in 0..MaxCalls
  /\ inode \in [1..MaxCalls -> Pieces \X Pieces]
  /\ wpc \in [Writers -> Steps] /\ val \in [Writers -> Pieces] /\ fd \in [Writers -> 0..MaxCalls]
  /\ lock \in [Instances -> Writers \cup {"free"}]

\* Who writes holds the lock of its instance, and unless instances clash nobody else writes.
OneWriter ==
  /\ \A t \in Writers : Writing(t) => lock[Owner[t]] = t
  /\ \A t, u \in Writers : Writing(t) /\ Writing(u) => t = u
\* The open file is the temporary one, if that still has its name, never the entry; it holds
\* as much of the value as has been written.
OpenFile(t) ==
  /\ Writing(t) => val[t] \in Values
  /\ wpc[t] \in {"idle", "create"} => fd[t] = 0
  /\ wpc[t] \in {"first", "second", "rename"} => fd[t] # 0 /\ fd[t] # dir.cache /\ dir.tmp \in {0, fd[t]}
  /\ wpc[t] = "second" => inode[fd[t]][1] = val[t]
  /\ wpc[t] = "rename" => inode[fd[t]] = Whole(val[t])
DiskSafe ==
  /\ DiskTypes /\ OneWriter
  /\ \A t \in Writers : OpenFile(t)
  /\ dir.tmp # 0 => dir.tmp # dir.cache
  /\ dir.cache # 0 => inode[dir.cache] \in WholeEntries
  /\ answer \in {NoFile} \cup WholeEntries
DiskInv == clash \in BOOLEAN /\ (~clash => DiskSafe)

LEMMA DiskStarts == DiskInit => DiskInv
  <1> SUFFICES ASSUME DiskInit PROVE DiskInv
    OBVIOUS
  <1>1. DiskTypes
    BY DiskAssumption DEF DiskInit, DiskTypes, Names, NoFile, Pieces, Steps
  <1>2. \A t \in Writers : OpenFile(t) /\ ~Writing(t)
    BY DEF DiskInit, OpenFile, Writing
  <1> QED
    BY <1>1, <1>2 DEF DiskInit, DiskInv, DiskSafe, OneWriter, Names

LEMMA BeginKeeps ==
  ASSUME DiskSafe, NEW t \in Writers, NEW v \in Values, SetBegin(t, v), ~clash'
  PROVE  DiskSafe'
  <1>1. /\ wpc' = [wpc EXCEPT ![t] = "create"] /\ val' = [val EXCEPT ![t] = v]
        /\ lock' = [lock EXCEPT ![Owner[t]] = t]
        /\ UNCHANGED <<dir, inode, fd, answer>>
        /\ wpc[t] = "idle" /\ lock[Owner[t]] = "free"
        /\ ~\E u \in Writers : Writing(u) /\ Owner[u] # Owner[t]
    BY DEF SetBegin, LockFree
  <1>2. \A u \in Writers : ~Writing(u)
    BY <1>1, DiskAssumption DEF DiskSafe, OneWriter
  <1>3. DiskTypes'
    BY <1>1 DEF DiskSafe, DiskTypes, Steps, Pieces
  <1>4. \A u \in Writers : u # t => wpc'[u] = wpc[u] /\ wpc[u] = "idle" /\ val'[u] = val[u]
    BY <1>1, <1>2 DEF DiskSafe, DiskTypes, Steps, Writing
  <1>5. wpc'[t] = "create" /\ val'[t] = v /\ lock'[Owner[t]] = t /\ fd[t] = 0
    BY <1>1 DEF DiskSafe, DiskTypes, Instances, OpenFile
  <1>6. \A u \in Writers : OpenFile(u)'
    BY <1>1, <1>4, <1>5 DEF DiskSafe, OpenFile, Writing
  <1>7. OneWriter'
    BY <1>1, <1>4, <1>5 DEF OneWriter, Writing
  <1> QED
    BY <1>1, <1>3, <1>6, <1>7 DEF DiskSafe

\* While one thread writes the others are idle; a step of it need only look after its own file.
LEMMA OthersIdle ==
  ASSUME DiskSafe, NEW t \in Writers, Writing(t)
  PROVE  \A u \in Writers : u # t => ~Writing(u) /\ wpc[u] = "idle" /\ fd[u] = 0
  BY DEF DiskSafe, DiskTypes, OneWriter, OpenFile, Writing, Steps

LEMMA CreateKeeps ==
  ASSUME DiskSafe, NEW t \in Writers, Create(t)
  PROVE  DiskSafe'
  <1> DEFINE n == IF dir.tmp = 0 THEN Fresh ELSE dir.tmp
  <1>1. /\ dir' = Names(n, dir.cache) /\ inode' = [inode EXCEPT ![n] = NoFile]
        /\ fd' = [fd EXCEPT ![t] = n] /\ wpc' = [wpc EXCEPT ![t] = "first"] /\ wpc[t] = "create"
        /\ UNCHANGED <<lock, val, answer>>
    BY DEF Create, Goto
  <1>2. \A u \in Writers : u # t => ~Writing(u) /\ wpc[u] = "idle" /\ fd[u] = 0
    BY <1>1, OthersIdle DEF Writing
  <1>3. fd[t] = 0 /\ val[t] \in Values
    BY <1>1 DEF DiskSafe, OpenFile, Writing
  <1>4. n \in 1..MaxCalls /\ n # dir.cache
    <2>1. CASE dir.tmp = 0
      <3>1. \E m \in DOMAIN inode : m \notin {dir.tmp, dir.cache} /\ (\A u \in Writers : fd[u] # m)
        <4>1. \E m \in 1..MaxCalls : m # dir.cache
          <5>1. 1 \in 1..MaxCalls /\ 2 \in 1..MaxCalls
            BY DiskAssumption
          <5> QED
            BY <5>1
        <4>2. PICK m \in 1..MaxCalls : m # dir.cache
          BY <4>1
        <4>3. m # 0 /\ \A u \in Writers : fd[u] # m
          BY <1>2, <1>3, <4>2
        <4> QED
          BY <2>1, <4>2, <4>3 DEF DiskSafe, DiskTypes
      <3> QED
        BY <2>1, <3>1 DEF Fresh, DiskSafe, DiskTypes
    <2>2. CASE dir.tmp # 0
      BY <2>2 DEF DiskSafe, DiskTypes
    <2> QED
      BY <2>1, <2>2
  <1> HIDE DEF n
  <1>5. dir'.tmp = n /\ dir'.cache = dir.cache
    BY <1>1 DEF Names
  <1>6. DiskTypes'
    BY <1>1, <1>4, <1>5 DEF DiskSafe, DiskTypes, NoFile, Pieces, Steps
  <1>7. wpc'[t] = "first" /\ fd'[t] = n /\ val'[t] = val[t]
    BY <1>1 DEF DiskSafe, DiskTypes
  <1>8. \A u \in Writers : u # t => wpc'[u] = "idle" /\ fd'[u] = 0
    BY <1>1, <1>2 DEF DiskSafe, DiskTypes
  <1>9. \A u \in Writers : OpenFile(u)'
    BY <1>3, <1>4, <1>5, <1>7, <1>8 DEF OpenFile, Writing
  <1>10. OneWriter'
    BY <1>1, <1>8 DEF DiskSafe, OneWriter, Writing
  <1>11. dir'.cache # 0 => inode'[dir'.cache] \in WholeEntries
    BY <1>1, <1>4, <1>5 DEF DiskSafe, DiskTypes
  <1> QED
    BY <1>1, <1>4, <1>5, <1>6, <1>9, <1>10, <1>11 DEF DiskSafe

LEMMA PieceKeeps ==
  ASSUME DiskSafe, NEW t \in Writers, WritePiece(t)
  PROVE  DiskSafe'
  <1> DEFINE x == inode[fd[t]]
             y == IF wpc[t] = "first" THEN <<val[t], x[2]>> ELSE <<x[1], val[t]>>
             p == IF wpc[t] = "first" THEN "second" ELSE "rename"
  <1>1. /\ wpc[t] \in {"first", "second"} /\ wpc' = [wpc EXCEPT ![t] = p]
        /\ inode' = [inode EXCEPT ![fd[t]] = y]
        /\ UNCHANGED <<lock, dir, val, fd, answer>>
    BY DEF WritePiece, Goto
  <1>2. \A u \in Writers : u # t => wpc[u] = "idle"
    BY <1>1, OthersIdle DEF Writing
  <1>3. /\ fd[t] \in 1..MaxCalls /\ fd[t] # dir.cache /\ val[t] \in Values
        /\ wpc[t] = "second" => x[1] = val[t]
    BY <1>1 DEF DiskSafe, DiskTypes, OpenFile, Writing
  <1>4. x \in Pieces \X Pieces
    BY <1>3 DEF DiskSafe, DiskTypes
  <1>5. y \in Pieces \X Pieces
    BY <1>3, <1>4 DEF Pieces
  <1>6. /\ wpc[t] = "first" => y[1] = val[t]
        /\ wpc[t] = "second" => y = Whole(val[t])
    BY <1>3 DEF Whole
  <1> HIDE DEF x, y
  <1>7. inode'[fd[t]] = y /\ wpc'[t] = p /\ \A u \in Writers : u # t => wpc'[u] = "idle"
    BY <1>1, <1>2, <1>3 DEF DiskSafe, DiskTypes
  <1>8. DiskTypes'
    BY <1>1, <1>5 DEF DiskSafe, DiskTypes, Steps
  <1>9. \A u \in Writers : OpenFile(u)'
    BY <1>1, <1>3, <1>6, <1>7 DEF DiskSafe, OpenFile, Writing
  <1>10. OneWriter'
    BY <1>1, <1>7 DEF DiskSafe, OneWriter, Writing
  <1>11. dir.cache # 0 => inode'[dir.cache] = inode[dir.cache]
    BY <1>1, <1>3 DEF DiskSafe, DiskTypes
  <1> QED
    BY <1>1, <1>8, <1>9, <1>10, <1>11 DEF DiskSafe

\* A step after which a thread is idle, has closed its file and given back the lock.
LEMMA LeaveKeeps ==
  ASSUME DiskSafe, NEW t \in Writers, Writing(t), Unlock(t), fd' = [fd EXCEPT ![t] = 0],
         UNCHANGED <<inode, val, answer>>,
         dir'.tmp \in 0..MaxCalls /\ dir'.cache \in 0..MaxCalls,
         dir'.tmp # 0 => dir'.tmp # dir'.cache,
         dir'.cache # 0 => inode[dir'.cache] \in WholeEntries
  PROVE  DiskSafe'
  <1>1. \A u \in Writers : u # t => ~Writing(u) /\ wpc[u] = "idle" /\ fd[u] = 0
    BY OthersIdle
  <1>2. DiskTypes'
    <2>1. wpc' \in [Writers -> Steps] /\ fd' \in [Writers -> 0..MaxCalls]
      BY DiskAssumption DEF DiskSafe, DiskTypes, Unlock, Steps
    <2>2. lock' \in [Instances -> Writers \cup {"free"}]
      BY DEF DiskSafe, DiskTypes, Unlock
    <2> QED
      BY <2>1, <2>2 DEF DiskSafe, DiskTypes
  <1>3. \A u \in Writers : wpc'[u] = "idle" /\ fd'[u] = 0
    BY <1>1 DEF DiskSafe, DiskTypes, Unlock
  <1>4. (\A u \in Writers : OpenFile(u)') /\ OneWriter'
    BY <1>3 DEF OpenFile, OneWriter, Writing
  <1> QED
    BY <1>2, <1>4 DEF DiskSafe

LEMMA RenameKeeps ==
  ASSUME DiskSafe, NEW t \in Writers, RenameTmp(t)
  PROVE  DiskSafe'
  <1>1. /\ wpc[t] = "rename" /\ Unlock(t) /\ fd' = [fd EXCEPT ![t] = 0]
        /\ UNCHANGED <<inode, val, answer>>
    BY DEF RenameTmp
  <1>2. dir.tmp \in 0..MaxCalls /\ dir.cache \in 0..MaxCalls /\ Writing(t)
    BY <1>1 DEF DiskSafe, DiskTypes, Writing
  <1>3. CASE dir.tmp = 0
    BY <1>1, <1>2, <1>3, LeaveKeeps DEF RenameTmp, DiskSafe
  <1>4. CASE dir.tmp # 0
    <2>1. dir' = Names(0, dir.tmp)
      BY <1>4 DEF RenameTmp, CleanTmp, Names
    <2>2. dir'.tmp = 0 /\ dir'.cache = dir.tmp
      BY <2>1 DEF Names
    <2>3. inode[dir.tmp] \in WholeEntries
      BY <1>1, <1>2, <1>4 DEF DiskSafe, OpenFile, WholeEntries, Writing
    <2> QED
      <3>1. dir'.tmp \in 0..MaxCalls /\ dir'.cache \in 0..MaxCalls
        BY <1>2, <2>2, DiskAssumption
      <3>2. (dir'.tmp # 0 => dir'.tmp # dir'.cache) /\ (dir'.cache # 0 => inode[dir'.cache] \in WholeEntries)
        BY <2>2, <2>3
      <3> QED
        BY <1>1, <1>2, <3>1, <3>2, LeaveKeeps
  <1> QED
    BY <1>3, <1>4

LEMMA NamesKeep ==
  ASSUME DiskSafe, UNCHANGED <<inode, lock, wpc, val, fd, answer>>,
         dir'.tmp \in {0, dir.tmp}, dir'.cache \in {0, dir.cache}
  PROVE  DiskSafe'
  <1>1. DiskTypes'
    BY DiskAssumption DEF DiskSafe, DiskTypes
  <1>2. (\A t \in Writers : OpenFile(t)') /\ OneWriter'
    BY DEF DiskSafe, OpenFile, OneWriter, Writing
  <1> QED
    BY <1>1, <1>2 DEF DiskSafe

LEMMA CrashKeeps ==
  ASSUME DiskSafe, NEW c \in Instances, CrashInstance(c)
  PROVE  DiskSafe'
  <1>1. DiskTypes'
    BY DiskAssumption DEF CrashInstance, DiskSafe, DiskTypes, Steps
  <1>2. \A t \in Writers : \/ wpc'[t] = "idle" /\ fd'[t] = 0
                           \/ wpc'[t] = wpc[t] /\ fd'[t] = fd[t] /\ lock'[Owner[t]] = lock[Owner[t]]
    BY DEF CrashInstance, DiskSafe, DiskTypes, Instances
  <1>3. UNCHANGED <<dir, inode, val, answer>>
    BY DEF CrashInstance
  <1>4. \A t \in Writers : OpenFile(t)'
    BY <1>2, <1>3 DEF DiskSafe, OpenFile, Writing
  <1>5. OneWriter'
    BY <1>2 DEF DiskSafe, OneWriter, Writing
  <1> QED
    BY <1>1, <1>3, <1>4, <1>5 DEF DiskSafe

LEMMA DiskKeeps == DiskInv /\ [DiskNext]_diskVars => DiskInv'
  <1> SUFFICES ASSUME DiskInv, [DiskNext]_diskVars PROVE DiskInv'
    OBVIOUS
  <1>1. clash' \in BOOLEAN /\ (~clash' => ~clash)
    BY DEF DiskInv, DiskNext, diskVars, SetBegin, Create, WritePiece, RenameTmp, SetFails, RemoveEntry,
           GetEntry, CrashInstance, DropInstance
  <1> SUFFICES ASSUME ~clash' PROVE DiskSafe'
    BY <1>1 DEF DiskInv
  <1>2. DiskSafe
    BY <1>1 DEF DiskInv
  <1>3. ASSUME NEW t \in Writers, NEW v \in Values, SetBegin(t, v) PROVE DiskSafe'
    BY <1>2, <1>3, BeginKeeps
  <1>4. ASSUME NEW t \in Writers, Create(t) \/ WritePiece(t) \/ RenameTmp(t) PROVE DiskSafe'
    BY <1>2, <1>4, CreateKeeps, PieceKeeps, RenameKeeps
  <1>5. ASSUME NEW t \in Writers, SetFails(t) PROVE DiskSafe'
    <2>1. Writing(t) /\ Unlock(t) /\ fd' = [fd EXCEPT ![t] = 0] /\ UNCHANGED <<dir, inode, val, answer>>
      BY <1>5 DEF SetFails
    <2> QED
      BY <1>2, <2>1, LeaveKeeps DEF DiskSafe, DiskTypes
  <1>6. ASSUME NEW t \in Writers, RemoveEntry(t) PROVE DiskSafe'
    <2>1. dir'.tmp = dir.tmp /\ dir'.cache = 0 /\ UNCHANGED <<inode, lock, wpc, val, fd, answer>>
      BY <1>6 DEF RemoveEntry, Names
    <2> QED
      BY <1>2, <2>1, NamesKeep
  <1>7. ASSUME NEW c \in Instances, DropInstance(c) PROVE DiskSafe'
    <2>1. /\ dir'.tmp \in {0, dir.tmp} /\ dir'.cache = dir.cache
          /\ UNCHANGED <<inode, lock, wpc, val, fd, answer>>
      BY <1>7 DEF DropInstance, CleanTmp, Names
    <2> QED
      BY <1>2, <2>1, NamesKeep
  <1>8. ASSUME NEW c \in Instances, CrashInstance(c) PROVE DiskSafe'
    BY <1>2, <1>8, CrashKeeps
  <1>9. CASE GetEntry
    <2>1. answer' \in {NoFile} \cup WholeEntries
      BY <1>2, <1>9 DEF GetEntry, DiskSafe
    <2> QED
      BY <1>2, <1>9, <2>1 DEF GetEntry, DiskSafe, DiskTypes, OneWriter, OpenFile, Writing
  <1>10. CASE UNCHANGED diskVars
    BY <1>2, <1>10 DEF diskVars, DiskSafe, DiskTypes, OneWriter, OpenFile, Writing
  <1> QED
    BY <1>3, <1>4, <1>5, <1>6, <1>7, <1>8, <1>9, <1>10 DEF DiskNext

\* For any threads and instances, and a crash at any point: no reader gets a part of an entry, or
\* mixed bytes, unless two instances wrote the entry at the same time.
THEOREM ReadsAreWhole == DiskSpec => []EntriesWhole
  <1>1. DiskInv => EntriesWhole
    BY DEF DiskInv, DiskSafe, EntriesWhole, WholeEntries
  <1> QED
    BY <1>1, DiskStarts, DiskKeeps, PTL DEF DiskSpec

\* The two caches beside each other: what the first level serves is fresh, what the second serves whole.
THEOREM CachesServeWell == DiskSpec /\ MemSpec => []CachesServe
  BY ReadsAreWhole, HitsAreFresh, PTL DEF CachesServe

-----------------------------------------------------------------------------
(* The plugin tables. *)

PlStates == {"untracked", "Discovered", "Loaded", "Active", "Suspended", "Unloaded"}
PlTypes ==
  /\ states \in [PlIds -> PlStates]
  /\ DOMAIN promised = PlIds /\ DOMAIN loaded = PlIds
  /\ registry \in [PlHooks -> Seq(PlIds)]
  /\ entryRuns \in [PlIds -> Nat]
  /\ DOMAIN plDisk = 1..Paths /\ \A p \in 1..Paths : DOMAIN plDisk[p] = PlIds

\* A plugin whose entry script is still to run has not run it; what is cached has its checksum,
\* unless the file changed during the load.
Prepared(id) ==
  LET p == loaded[id] IN
  p.is = "loaded" => /\ p.initialized \in BOOLEAN
                     /\ ~p.initialized => entryRuns[id] = 0
                     /\ p.man.sum # "none" /\ id \notin slipped => p.script = p.man.sum
\* The file of the load under way is the one whose checksum was tested, or it changed since.
LoadChecked ==
  ~LoaderIdle => /\ loading.id \in PlIds /\ loading.path \in 1..Paths
                 /\ loading.man.sum # "none" /\ loading.id \notin slipped
                      => EntryFile = loading.man.sum /\ Readable(EntryFile)
PlInv ==
  /\ PlTypes /\ RegistryExact /\ EntryOnce /\ VerifiedRuns /\ LoadChecked
  /\ \A id \in PlIds : Prepared(id)

LEMMA PlStarts == PlInit => PlInv
  <1> SUFFICES ASSUME PlInit PROVE PlInv
    OBVIOUS
  <1>1. PlTypes /\ LoadChecked
    BY PlDisksAssumption DEF PlInit, PlTypes, PlStates, LoadChecked, LoaderIdle, NoLoad
  <1>2. RegistryExact
    BY DEF PlInit, RegistryExact, Range, IsInjective
  <1>3. EntryOnce /\ VerifiedRuns
    BY DEF PlInit, EntryOnce, VerifiedRuns
  <1>4. \A id \in PlIds : Prepared(id)
    BY DEF PlInit, Prepared, NotLoaded
  <1> QED
    BY <1>1, <1>2, <1>3, <1>4 DEF PlInv

\* Nobody listens who is not active.
LEMMA Listeners ==
  ASSUME PlInv, NEW id \in PlIds, states[id] # "Active", NEW h \in PlHooks
  PROVE  id \notin Range(registry[h])
  BY DEF PlInv, RegistryExact

\* A listener that is added comes last.
LEMMA OneMore ==
  ASSUME NEW s \in Seq(PlIds), NEW id \in PlIds, IsInjective(s), id \notin Range(s)
  PROVE  LET r == Append(s, id)
         IN  r \in Seq(PlIds) /\ IsInjective(r) /\ Range(r) = Range(s) \cup {id}
  <1> DEFINE r == Append(s, id)
             L == Len(s)
  <1>1. L \in Nat /\ DOMAIN s = 1..L
    OBVIOUS
  <1>2. r \in Seq(PlIds) /\ Len(r) = L + 1 /\ r[L + 1] = id /\ \A i \in 1..L : r[i] = s[i]
    BY AppendProperties
  <1>3. DOMAIN r = 1..(L + 1)
    BY <1>2
  <1> HIDE DEF r, L
  <1>4. \A i \in 1..L : s[i] # id
    BY <1>1 DEF Range
  <1>5. IsInjective(r)
    <2> SUFFICES ASSUME NEW i \in 1..(L + 1), NEW j \in 1..(L + 1), r[i] = r[j] PROVE i = j
      BY <1>3 DEF IsInjective
    <2> QED
      BY <1>1, <1>2, <1>4 DEF IsInjective
  <1>6. Range(r) = Range(s) \cup {id}
    BY <1>1, <1>2, <1>3 DEF Range
  <1> QED
    BY <1>2, <1>5, <1>6 DEF r

LEMMA SubscribedExact ==
  ASSUME PlInv, NEW id \in PlIds, states[id] # "Active", NEW man, NEW h \in PlHooks
  PROVE  LET r == Subscribed(id, man)[h]
         IN  /\ r \in Seq(PlIds) /\ IsInjective(r)
             /\ Range(r) = IF h \in man.hooks THEN Range(registry[h]) \cup {id} ELSE Range(registry[h])
  <1>1. registry[h] \in Seq(PlIds) /\ IsInjective(registry[h]) /\ id \notin Range(registry[h])
    BY Listeners DEF PlInv, PlTypes, RegistryExact
  <1>2. Subscribed(id, man)[h] = IF h \in man.hooks THEN Append(registry[h], id) ELSE registry[h]
    BY <1>1 DEF Subscribed
  <1> QED
    BY <1>1, <1>2, OneMore

LEMMA UnsubscribedExact ==
  ASSUME PlInv, NEW id \in PlIds, NEW h \in PlHooks
  PROVE  LET r == Unsubscribed(id)[h]
         IN  r \in Seq(PlIds) /\ IsInjective(r) /\ Range(r) = Range(registry[h]) \ {id}
  <1>1. registry[h] \in Seq(PlIds) /\ IsInjective(registry[h])
    BY DEF PlInv, PlTypes, RegistryExact
  <1>2. Unsubscribed(id)[h] = Retained(registry[h], {id})
    BY DEF Unsubscribed
  <1> QED
    BY <1>1, <1>2, RetainedProperties

\* A step of the lifecycle, whatever it does to the registry: exact before, exact after.
LEMMA ToKeeps ==
  ASSUME PlInv, NEW id \in PlIds, NEW state \in PlStates, To(id, state, registry'),
         registry' \in [PlHooks -> Seq(PlIds)], \A h \in PlHooks : IsInjective(registry'[h]),
         \A h \in PlHooks : Range(registry'[h]) = IF state = "Active" /\ h \in loaded[id].man.hooks
                                                  THEN (Range(registry[h]) \ {id}) \cup {id}
                                                  ELSE Range(registry[h]) \ {id}
  PROVE  PlInv'
  <1>1. /\ states' = [states EXCEPT ![id] = state] /\ outcome' = <<>>
        /\ promised' = [promised EXCEPT ![id] = IF state = "Active" THEN loaded[id].man.hooks ELSE {}]
        /\ UNCHANGED <<plDisk, loaded, loading, entryRuns, slipped>>
    BY DEF To
  <1>3. PlTypes'
    BY <1>1 DEF PlInv, PlTypes
  <1>4. /\ states'[id] = state /\ promised'[id] = IF state = "Active" THEN loaded[id].man.hooks ELSE {}
        /\ \A x \in PlIds : x # id => states'[x] = states[x] /\ promised'[x] = promised[x]
    BY <1>1 DEF PlInv, PlTypes
  <1>5. \A h \in PlHooks : Range(registry[h]) = {x \in PlIds : states[x] = "Active" /\ h \in promised[x]}
    BY DEF PlInv, RegistryExact
  <1>6. ASSUME NEW h \in PlHooks
        PROVE  Range(registry'[h]) = {x \in PlIds : states'[x] = "Active" /\ h \in promised'[x]}
    BY <1>4, <1>5
  <1>7. RegistryExact'
    BY <1>1, <1>6 DEF RegistryExact
  <1>8. EntryOnce' /\ VerifiedRuns' /\ LoadChecked'
    BY <1>1 DEF PlInv, EntryOnce, VerifiedRuns, LoadChecked, LoaderIdle, EntryFile
  <1>9. \A x \in PlIds : Prepared(x)'
    BY <1>1 DEF PlInv, Prepared
  <1> QED
    BY <1>3, <1>7, <1>8, <1>9 DEF PlInv

LEMMA LifecycleKeeps ==
  ASSUME PlInv, NEW id \in PlIds,
         LcDiscover(id) \/ LcLoad(id) \/ RegisterHooks(id) \/ Resume(id) \/ Suspend(id) \/ LcUnload(id)
  PROVE  PlInv'
  <1> USE DEF InState, Untracked
  <1>1. registry \in [PlHooks -> Seq(PlIds)] /\ \A h \in PlHooks : IsInjective(registry[h])
    BY DEF PlInv, PlTypes, RegistryExact
  <1>2. ASSUME states[id] # "Active", NEW state \in {"Discovered", "Loaded"}, To(id, state, registry) PROVE PlInv'
    <2>1. \A h \in PlHooks : Range(registry[h]) \ {id} = Range(registry[h])
      BY <1>2, Listeners
    <2>2. registry' = registry /\ To(id, state, registry') /\ state \in PlStates /\ state # "Active"
      BY <1>2 DEF To, PlStates
    <2> QED
      BY <1>1, <2>1, <2>2, ToKeeps
  <1>3. ASSUME states[id] # "Active", To(id, "Active", Subscribed(id, loaded[id].man)) PROVE PlInv'
    <2> DEFINE reg == Subscribed(id, loaded[id].man)
    <2>1. DOMAIN reg = PlHooks /\ reg = [h \in PlHooks |-> reg[h]]
      BY DEF Subscribed
    <2>2. \A h \in PlHooks : id \notin Range(registry[h])
      BY <1>3, Listeners
    <2>3. \A h \in PlHooks :
            /\ reg[h] \in Seq(PlIds) /\ IsInjective(reg[h])
            /\ Range(reg[h]) = IF h \in loaded[id].man.hooks THEN Range(registry[h]) \cup {id} ELSE Range(registry[h])
      BY <1>3, SubscribedExact
    <2> HIDE DEF reg
    <2>4. \A h \in PlHooks : Range(registry'[h]) = IF "Active" = "Active" /\ h \in loaded[id].man.hooks
                                            THEN (Range(registry[h]) \ {id}) \cup {id}
                                            ELSE Range(registry[h]) \ {id}
      BY <1>3, <2>2, <2>3 DEF To, reg
    <2>5. registry' = reg /\ To(id, "Active", registry') /\ "Active" \in PlStates
      BY <1>3 DEF reg, PlStates, To
    <2>6. registry' \in [PlHooks -> Seq(PlIds)] /\ \A h \in PlHooks : IsInjective(registry'[h])
      BY <2>1, <2>3, <2>5
    <2> QED
      BY <2>4, <2>5, <2>6, ToKeeps
  <1>4. ASSUME NEW state \in {"Suspended", "Unloaded"}, To(id, state, Unsubscribed(id)) PROVE PlInv'
    <2> DEFINE reg == Unsubscribed(id)
    <2>1. DOMAIN reg = PlHooks /\ reg = [h \in PlHooks |-> reg[h]]
      BY DEF Unsubscribed
    <2>2. \A h \in PlHooks : reg[h] \in Seq(PlIds) /\ IsInjective(reg[h]) /\ Range(reg[h]) = Range(registry[h]) \ {id}
      BY UnsubscribedExact
    <2>3. registry' = reg /\ To(id, state, registry') /\ state \in PlStates /\ state # "Active"
      BY <1>4 DEF PlStates, To
    <2> HIDE DEF reg
    <2>4. registry' \in [PlHooks -> Seq(PlIds)] /\ \A h \in PlHooks : IsInjective(registry'[h])
      BY <2>1, <2>2, <2>3
    <2>5. \A h \in PlHooks : Range(registry'[h]) = IF state = "Active" /\ h \in loaded[id].man.hooks
                                            THEN (Range(registry[h]) \ {id}) \cup {id}
                                            ELSE Range(registry[h]) \ {id}
      BY <2>2, <2>3
    <2> QED
      BY <2>3, <2>4, <2>5, ToKeeps
  <1>5. CASE LcDiscover(id) \/ LcLoad(id)
    BY <1>2, <1>5 DEF LcDiscover, LcLoad
  <1>6. CASE RegisterHooks(id) \/ Resume(id)
    BY <1>3, <1>6 DEF RegisterHooks, Resume
  <1>7. CASE Suspend(id) \/ LcUnload(id)
    BY <1>4, <1>7 DEF Suspend, LcUnload
  <1> QED
    BY <1>5, <1>6, <1>7

\* A plugin is kept with a text that has its checksum, or whose file changed during the load.
LEMMA KeptKeeps ==
  ASSUME PlInv, ~LoaderIdle, NEW script, Kept(script), loading' = NoLoad, outcome' = <<>>,
         UNCHANGED <<plDisk, states, registry, promised, edits, slipped>>,
         loading.man.sum # "none" /\ loading.id \notin slipped => script = loading.man.sum
  PROVE  PlInv'
  <1> DEFINE id == loading.id
             new == Plugin(loading.man, loading.path, script, FALSE)
  <1>1. id \in PlIds /\ loaded' = [loaded EXCEPT ![id] = new] /\ entryRuns' = [entryRuns EXCEPT ![id] = 0]
    BY DEF PlInv, LoadChecked, Kept
  <1>2. /\ new.is = "loaded" /\ new.initialized = FALSE
        /\ new.man.sum # "none" /\ id \notin slipped => new.script = new.man.sum
    BY DEF Plugin
  <1> HIDE DEF new, id
  <1>3. loaded'[id] = new /\ entryRuns'[id] = 0
    BY <1>1 DEF PlInv, PlTypes
  <1>4. \A x \in PlIds : x # id => loaded'[x] = loaded[x] /\ entryRuns'[x] = entryRuns[x]
    BY <1>1 DEF PlInv, PlTypes
  <1>5. \A x \in PlIds : Prepared(x)'
    BY <1>2, <1>3, <1>4 DEF PlInv, Prepared
  <1>6. PlTypes' /\ RegistryExact' /\ LoadChecked'
    BY <1>1 DEF PlInv, PlTypes, RegistryExact, LoadChecked, LoaderIdle, NoLoad
  <1>7. EntryOnce' /\ VerifiedRuns'
    BY <1>3, <1>4 DEF PlInv, EntryOnce, VerifiedRuns
  <1> QED
    BY <1>5, <1>6, <1>7 DEF PlInv

\* The loader: of the search paths one decides, and what it keeps is what it read last.
LEMMA LoaderKeeps ==
  ASSUME PlInv, LoaderLook \/ LoaderRead \/ \E id \in PlIds : LoaderLoad(id) \/ LoaderUnload(id)
  PROVE  PlInv'
  <1>1. outcome' = <<>> /\ UNCHANGED <<plDisk, states, registry, promised>>
    BY DEF LoaderLoad, LoaderLook, LoaderRead, LoaderUnload
  <1>2. UNCHANGED <<loaded, entryRuns>> => EntryOnce' /\ VerifiedRuns' /\ RegistryExact'
    BY <1>1 DEF PlInv, RegistryExact, EntryOnce, VerifiedRuns
  <1>3. ASSUME NEW id \in PlIds, LoaderLoad(id) PROVE PlInv'
    <2>1. UNCHANGED <<loaded, entryRuns>> /\ PlTypes'
      BY <1>1, <1>3 DEF LoaderLoad, PlInv, PlTypes
    <2>2. CASE UNCHANGED <<loading, slipped>>
      BY <1>1, <1>2, <2>1, <2>2 DEF PlInv, Prepared, LoadChecked, LoaderIdle, EntryFile
    <2>3. ASSUME loaded[id].is # "loaded", Loadable(id), NEW p \in Found(id), slipped' = slipped \ {id},
                 loading' = Loading("verified", id, p, plDisk[p][id].manifest)
          PROVE  PlInv'
      <3>1. p \in 1..Paths /\ ChecksumHolds(plDisk[p][id].manifest, plDisk[p][id].entry)
        <4>1. PICK q \in Found(id) : ChecksumHolds(plDisk[q][id].manifest, plDisk[q][id].entry)
          BY <2>3 DEF Loadable
        <4>2. p \in 1..Paths /\ q \in 1..Paths /\ p = q
          BY <2>3, <4>1 DEF Found
        <4> QED
          BY <4>1, <4>2
      <3>2. loading'.id = id /\ loading'.path = p /\ loading'.man = plDisk[p][id].manifest
        BY <2>3 DEF Loading
      <3>3. LoadChecked'
        BY <1>1, <3>1, <3>2 DEF LoadChecked, EntryFile, ChecksumHolds
      <3>4. \A x \in PlIds : Prepared(x)'
        BY <2>1, <2>3 DEF PlInv, Prepared
      <3> QED
        BY <1>2, <2>1, <3>3, <3>4 DEF PlInv
    <2> QED
      BY <1>3, <2>2, <2>3 DEF LoaderLoad
  <1>4. CASE LoaderLook
    <2>1. ~LoaderIdle /\ UNCHANGED slipped
      BY <1>4 DEF LoaderLook, LoaderIdle
    <2>2. CASE EntryFile = "absent"
      <3>1. Kept("none") /\ loading' = NoLoad
        BY <1>4, <2>2 DEF LoaderLook
      <3>2. ~(loading.man.sum # "none" /\ loading.id \notin slipped)
        BY <2>1, <2>2 DEF PlInv, LoadChecked, Readable
      <3> QED
        BY <1>1, <1>4, <2>1, <3>1, <3>2, KeptKeeps DEF LoaderLook
    <2>3. CASE EntryFile # "absent"
      <3>1. UNCHANGED <<loaded, entryRuns>> /\ loading' = Loading("present", loading.id, loading.path, loading.man)
        BY <1>4, <2>3 DEF LoaderLook
      <3>2. loading'.id = loading.id /\ loading'.path = loading.path /\ loading'.man = loading.man
        BY <3>1 DEF Loading
      <3>3. LoadChecked'
        BY <1>1, <2>1, <3>2 DEF PlInv, LoadChecked, EntryFile
      <3> QED
        BY <1>1, <1>2, <2>1, <3>1, <3>3 DEF PlInv, PlTypes, Prepared
    <2> QED
      BY <2>2, <2>3
  <1>5. CASE LoaderRead
    <2>1. ~LoaderIdle /\ UNCHANGED slipped /\ loading' = NoLoad
      BY <1>5 DEF LoaderRead, LoaderIdle
    <2>2. CASE Readable(EntryFile)
      <3>1. Kept(EntryFile)
        BY <1>5, <2>2 DEF LoaderRead
      <3>2. loading.man.sum # "none" /\ loading.id \notin slipped => EntryFile = loading.man.sum
        BY <2>1 DEF PlInv, LoadChecked
      <3> QED
        BY <1>1, <1>5, <2>1, <3>1, <3>2, KeptKeeps DEF LoaderRead
    <2>3. CASE ~Readable(EntryFile)
      <3>1. UNCHANGED <<loaded, entryRuns>>
        BY <1>5, <2>3 DEF LoaderRead
      <3> QED
        BY <1>1, <1>2, <2>1, <3>1 DEF PlInv, PlTypes, Prepared, LoadChecked, LoaderIdle, NoLoad
    <2> QED
      BY <2>2, <2>3
  <1>6. ASSUME NEW id \in PlIds, LoaderUnload(id) PROVE PlInv'
    <2>1. loaded' = [loaded EXCEPT ![id] = NotLoaded] /\ UNCHANGED <<entryRuns, loading, slipped>>
      BY <1>6 DEF LoaderUnload
    <2>2. loaded'[id].is = "not loaded" /\ \A x \in PlIds : x # id => loaded'[x] = loaded[x]
      BY <2>1 DEF NotLoaded, PlInv, PlTypes
    <2>3. \A x \in PlIds : Prepared(x)'
      BY <2>1, <2>2 DEF PlInv, Prepared
    <2>4. PlTypes' /\ RegistryExact' /\ LoadChecked'
      BY <1>1, <2>1 DEF PlInv, PlTypes, RegistryExact, LoadChecked, LoaderIdle, EntryFile
    <2>5. EntryOnce' /\ VerifiedRuns'
      BY <1>1, <2>1 DEF PlInv, EntryOnce, VerifiedRuns
    <2> QED
      BY <2>3, <2>4, <2>5 DEF PlInv
  <1> QED
    BY <1>3, <1>4, <1>5, <1>6

\* What runs is the cached text, and what is cached under a checksum has it.
LEMMA RunsVerified ==
  ASSUME PlInv, NEW id \in PlIds, loaded[id].is = "loaded", loaded[id].man.sum # "none", id \notin slipped,
         Readable(EntryScript(id))
  PROVE  EntryScript(id) = loaded[id].man.sum
  BY DEF PlInv, Prepared, EntryScript

LEMMA HookKeeps ==
  ASSUME PlInv, NEW name, NEW ids \in Seq(PlIds), ExecuteHook(ids, name)
  PROVE  PlInv'
  <1> DEFINE told(id) == \E i \in DOMAIN ids : ids[i] = id
  <1>1. /\ outcome' = [i \in DOMAIN ids |-> RunHook(ids[i], name)]
        /\ loaded' = [id \in PlIds |-> IF told(id) /\ Reaches(id, name) THEN Initialized(loaded[id]) ELSE loaded[id]]
        /\ entryRuns' = [id \in PlIds |-> IF \E i \in DOMAIN ids : ids[i] = id /\ RunHook(id, name).entry
                                          THEN entryRuns[id] + 1 ELSE entryRuns[id]]
        /\ UNCHANGED <<plDisk, states, registry, promised, loading, slipped>> /\ LoaderIdle
    BY DEF ExecuteHook
  <1>2. ASSUME NEW id \in PlIds, RunHook(id, name).entry
        PROVE  Reaches(id, name) /\ loaded[id].is = "loaded" /\ ~loaded[id].initialized
    BY <1>2 DEF RunHook, Refused, Answer, FirstRun, Reaches
  <1>3. ASSUME NEW id \in PlIds, RunHook(id, name).handled
        PROVE  RunHook(id, name).due /\ RunHook(id, name).entry
    BY <1>3 DEF RunHook, Refused, Answer
  <1>4. ASSUME NEW id \in PlIds
        PROVE  /\ loaded'[id].is = loaded[id].is
               /\ loaded[id].is = "loaded" => loaded'[id].man = loaded[id].man /\ loaded'[id].script = loaded[id].script
               /\ told(id) /\ Reaches(id, name) => loaded'[id].initialized = TRUE
               /\ ~(told(id) /\ Reaches(id, name)) => loaded'[id] = loaded[id]
    BY <1>1 DEF Initialized, Plugin, Reaches
  <1>5. ASSUME NEW id \in PlIds
        PROVE  /\ entryRuns'[id] \in Nat /\ entryRuns'[id] <= 1
               /\ ~(told(id) /\ Reaches(id, name)) => entryRuns'[id] = entryRuns[id]
    <2>1. entryRuns[id] \in Nat /\ entryRuns[id] <= 1
      BY DEF PlInv, PlTypes, EntryOnce
    <2>2. CASE told(id) /\ RunHook(id, name).entry
      <3>1. entryRuns[id] = 0 /\ Reaches(id, name)
        BY <1>2, <2>2 DEF PlInv, Prepared
      <3> QED
        BY <1>1, <2>1, <2>2, <3>1
    <2>3. CASE ~(told(id) /\ RunHook(id, name).entry)
      BY <1>1, <2>1, <2>3
    <2> QED
      BY <2>2, <2>3
  <1>6. PlTypes' /\ LoadChecked'
    BY <1>1, <1>5 DEF PlInv, PlTypes, LoadChecked, LoaderIdle
  <1>7. RegistryExact'
    BY <1>1 DEF PlInv, RegistryExact
  <1>8. EntryOnce'
    <2>1. \A i \in DOMAIN outcome' : ids[i] \in PlIds /\ outcome'[i] = RunHook(ids[i], name)
      BY <1>1
    <2> QED
      BY <1>3, <1>5, <2>1 DEF EntryOnce
  <1>9. VerifiedRuns'
    <2> SUFFICES ASSUME NEW i \in DOMAIN ids, NEW id \in PlIds, id = ids[i], RunHook(id, name).entry,
                        loaded[id].is = "loaded", loaded[id].man.sum # "none", id \notin slipped
                 PROVE  RunHook(id, name).text = loaded[id].man.sum
      <3>1. \A i \in DOMAIN outcome' : /\ i \in DOMAIN ids /\ ids[i] \in PlIds /\ outcome'[i] = RunHook(ids[i], name)
                                       /\ outcome'[i].id = ids[i]
        <4>1. \A x : RunHook(x, name).id = x
          BY DEF RunHook, Refused, Answer
        <4> QED
          BY <1>1, <4>1
      <3>2. SUFFICES ASSUME NEW j \in DOMAIN outcome', outcome'[j].entry,
                            loaded'[outcome'[j].id].is = "loaded", loaded'[outcome'[j].id].man.sum # "none",
                            outcome'[j].id \notin slipped'
                     PROVE  outcome'[j].text = loaded'[outcome'[j].id].man.sum
        BY DEF VerifiedRuns
      <3>3. /\ j \in DOMAIN ids /\ ids[j] \in PlIds /\ outcome'[j] = RunHook(ids[j], name)
            /\ outcome'[j].id = ids[j]
        BY <3>1
      <3>4. loaded[ids[j]].is = "loaded" /\ loaded'[ids[j]].man = loaded[ids[j]].man
        BY <1>4, <3>2, <3>3
      <3> QED
        BY <1>1, <3>2, <3>3, <3>4
    <2>1. Reaches(id, name) /\ Readable(EntryScript(id))
      BY <1>2 DEF Reaches
    <2>2. RunHook(id, name).text = EntryScript(id)
      BY <2>1 DEF RunHook, Answer
    <2> QED
      BY <2>1, <2>2, RunsVerified
  <1>10. \A id \in PlIds : Prepared(id)'
    <2> SUFFICES ASSUME NEW id \in PlIds, loaded'[id].is = "loaded"
                 PROVE  /\ loaded'[id].initialized \in BOOLEAN
                        /\ ~loaded'[id].initialized => entryRuns'[id] = 0
                        /\ loaded'[id].man.sum # "none" /\ id \notin slipped => loaded'[id].script = loaded'[id].man.sum
      BY <1>1 DEF Prepared
    <2>3. loaded[id].is = "loaded" /\ Prepared(id)
      BY <1>4 DEF PlInv
    <2>4. loaded'[id].man = loaded[id].man /\ loaded'[id].script = loaded[id].script
      BY <1>4, <2>3
    <2>1. CASE told(id) /\ Reaches(id, name)
      <3>1. loaded'[id].initialized = TRUE
        BY <1>4, <2>1
      <3> QED
        BY <2>3, <2>4, <3>1 DEF Prepared
    <2>2. CASE ~(told(id) /\ Reaches(id, name))
      <3>1. loaded'[id] = loaded[id] /\ entryRuns'[id] = entryRuns[id]
        BY <1>4, <1>5, <2>2
      <3> QED
        BY <2>3, <3>1 DEF Prepared
    <2> QED
      BY <2>1, <2>2
  <1> QED
    BY <1>6, <1>7, <1>8, <1>9, <1>10 DEF PlInv

LEMMA ExecuteKeeps ==
  ASSUME PlInv, NEW id \in PlIds, ExecutePlugin(id)
  PROVE  PlInv'
  <1> DEFINE text == EntryScript(id)
             r == Answer(id, text \notin Throws, TRUE, text, FALSE, FALSE)
  <1>1. /\ loaded[id].is = "loaded" /\ Readable(text) /\ outcome' = <<r>>
        /\ UNCHANGED <<plDisk, loaded, states, registry, promised, entryRuns, loading, slipped>>
    BY DEF ExecutePlugin
  <1>2. r.handled = FALSE /\ r.id = id /\ r.text = text
    BY DEF Answer
  <1>3. loaded[id].man.sum # "none" /\ id \notin slipped => text = loaded[id].man.sum
    BY <1>1, RunsVerified
  <1> HIDE DEF r, text
  <1>4. EntryOnce' /\ VerifiedRuns'
    BY <1>1, <1>2, <1>3 DEF PlInv, EntryOnce, VerifiedRuns
  <1> QED
    BY <1>1, <1>4 DEF PlInv, PlTypes, RegistryExact, Prepared, LoadChecked, LoaderIdle, EntryFile

\* Another file than that of the load under way, or the load is marked.
LEMMA EditKeeps ==
  ASSUME PlInv, NEW p \in 1..Paths, NEW id \in PlIds, NEW text, EditEntry(p, id, text)
  PROVE  PlInv'
  <1>1. /\ outcome' = <<>> /\ plDisk' = [plDisk EXCEPT ![p][id].entry = text]
        /\ slipped' = IF ~LoaderIdle /\ loading.id = id /\ loading.path = p THEN slipped \cup {id} ELSE slipped
        /\ UNCHANGED <<loaded, states, registry, loading, promised, entryRuns>>
    BY DEF EditEntry
  <1>2. slipped \subseteq slipped'
    BY <1>1
  <1>3. /\ DOMAIN plDisk' = 1..Paths /\ \A q \in 1..Paths : DOMAIN plDisk'[q] = PlIds
        /\ \A q \in 1..Paths, x \in PlIds : (q # p \/ x # id) => plDisk'[q][x] = plDisk[q][x]
    BY <1>1 DEF PlInv, PlTypes
  <1>4. LoadChecked'
    BY <1>1, <1>3 DEF PlInv, LoadChecked, LoaderIdle, EntryFile
  <1>5. PlTypes' /\ RegistryExact' /\ EntryOnce' /\ VerifiedRuns'
    BY <1>1, <1>3 DEF PlInv, PlTypes, RegistryExact, EntryOnce, VerifiedRuns
  <1>6. \A x \in PlIds : Prepared(x)'
    BY <1>1, <1>2 DEF PlInv, Prepared
  <1> QED
    BY <1>4, <1>5, <1>6 DEF PlInv

LEMMA PlKeeps == PlInv /\ [PlNext]_plVars => PlInv'
  <1> SUFFICES ASSUME PlInv, [PlNext]_plVars PROVE PlInv'
    OBVIOUS
  <1>1. ASSUME NEW id \in PlIds,
               LcDiscover(id) \/ LcLoad(id) \/ RegisterHooks(id) \/ Resume(id) \/ Suspend(id) \/ LcUnload(id)
        PROVE  PlInv'
    BY <1>1, LifecycleKeeps
  <1>2. ASSUME LoaderLook \/ LoaderRead \/ \E id \in PlIds : LoaderLoad(id) \/ LoaderUnload(id) PROVE PlInv'
    BY <1>2, LoaderKeeps
  <1>3. ASSUME NEW id \in PlIds, ExecutePlugin(id) PROVE PlInv'
    BY <1>3, ExecuteKeeps
  <1>4. ASSUME NEW name \in HookNames, Trigger(name) PROVE PlInv'
    <2>1. registry[name.hook] \in Seq(PlIds) /\ ExecuteHook(registry[name.hook], name)
      BY <1>4 DEF Trigger, PlInv, PlTypes
    <2> QED
      BY <2>1, HookKeeps
  <1>5. ASSUME NEW name \in HookNames, NEW id \in PlIds, ExecuteHook(<<id>>, name) PROVE PlInv'
    <2>1. <<id>> \in Seq(PlIds)
      OBVIOUS
    <2> QED
      BY <1>5, <2>1, HookKeeps
  <1>6. ASSUME NEW p \in 1..Paths, NEW id \in PlIds, NEW text, EditEntry(p, id, text) PROVE PlInv'
    BY <1>6, EditKeeps
  <1>7. CASE UNCHANGED plVars
    BY <1>7 DEF plVars, PlInv, PlTypes, RegistryExact, EntryOnce, VerifiedRuns, Prepared, LoadChecked, LoaderIdle, EntryFile
  <1> QED
    BY <1>1, <1>2, <1>3, <1>4, <1>5, <1>6, <1>7 DEF PlNext

\* For any plugins, manifests, hooks, texts and search paths, any order of the calls, and files that
\* change at any moment: the subscriptions are those of the active plugins, an entry script runs once, and
\* under a checksum only the text that has it, unless it was replaced between the two reads of its load.
THEOREM PluginsStayAgreed == PlSpec => PluginsAgree
  <1>1. PlInv => RegistryExact /\ EntryOnce /\ VerifiedRuns
    BY DEF PlInv
  <1>2. PlInv /\ [PlNext]_plVars => [\A id \in PlIds : states[id] = "Unloaded" => states'[id] = "Unloaded"]_plVars
    <2> SUFFICES ASSUME PlInv, PlNext, NEW x \in PlIds, states[x] = "Unloaded"
                 PROVE  states'[x] = "Unloaded"
      OBVIOUS
    <2> USE DEF InState, Untracked
    <2>2. CASE UNCHANGED states
      BY <2>2
    <2>3. CASE \E id \in PlIds : states[id] # "Unloaded" /\ \E state : states' = [states EXCEPT ![id] = state]
      BY <2>3 DEF PlInv, PlTypes
    <2>4. ASSUME NEW id \in PlIds,
                 LcDiscover(id) \/ LcLoad(id) \/ RegisterHooks(id) \/ Resume(id) \/ Suspend(id) \/ LcUnload(id)
          PROVE  states'[x] = "Unloaded"
      BY <2>3, <2>4 DEF LcDiscover, LcLoad, RegisterHooks, Resume, Suspend, LcUnload, To
    <2>5. ASSUME LoaderLook \/ LoaderRead \/ \E id \in PlIds : LoaderLoad(id) \/ LoaderUnload(id) \/ ExecutePlugin(id)
          PROVE  UNCHANGED states
      BY <2>5 DEF LoaderLoad, LoaderLook, LoaderRead, LoaderUnload, ExecutePlugin
    <2>6. ASSUME NEW name, Trigger(name) \/ \E id \in PlIds : ExecuteHook(<<id>>, name) PROVE UNCHANGED states
      BY <2>6 DEF Trigger, ExecuteHook
    <2>7. ASSUME NEW p, NEW id, NEW text, EditEntry(p, id, text) PROVE UNCHANGED states
      BY <2>7 DEF EditEntry
    <2> QED
      BY <2>2, <2>4, <2>5, <2>6, <2>7 DEF PlNext
  <1> QED
    BY <1>1, <1>2, PlStarts, PlKeeps, PTL DEF PlSpec, PluginsAgree, UnloadedIsFinal

-----------------------------------------------------------------------------
(* The failure tracker. *)

(* What a node is charged with it has earned since it last worked or was switched from: eviction and *)
(* a late success forget failures, nothing ever adds one.                                            *)
FoTypes ==
  /\ streak \in [FoNodes -> Nat]
  /\ DOMAIN failureCounts \subseteq FoNodes
  /\ failureCounts \in [DOMAIN failureCounts -> Nat]
FoInv == FoTypes /\ \A n \in DOMAIN failureCounts : failureCounts[n] <= streak[n]

LEMMA FoStarts == FoInit => FoInv
  BY SMT DEF FoInit, FoInv, FoTypes, NoEntries

LEMMA FailureCharged ==
  ASSUME FoInv, NEW n \in FoNodes, ReportFailure(n)
  PROVE  /\ FoInv'
         /\ switched'.node # "none" => /\ streak[switched'.node] + 1 >= Threshold
                                       /\ groupSwitch = Never \/ foNow - groupSwitch >= Cooldown
  <1> USE FailoverAssumption DEF FoInv, FoTypes
  <1> DEFINE order == IF n \in DOMAIN failureCounts THEN accessOrder ELSE Append(accessOrder, n)
  <1>1. PICK gone \in Evictions(order) :
          LET kept == Minus(failureCounts, gone)
              last == Minus(lastSwitch, gone)
              charge == (IF n \in DOMAIN kept THEN kept[n] ELSE 0) + 1
              go == MaySwitch(n, last, charge)
          IN  /\ failureCounts' = With(kept, n, IF go THEN 0 ELSE charge)
              /\ switched' = IF go THEN [node |-> n, count |-> charge] ELSE NoSwitch
              /\ streak' = [streak EXCEPT ![n] = IF go THEN 0 ELSE @ + 1]
    BY DEF ReportFailure
  <1> DEFINE kept == Minus(failureCounts, gone)
             last == Minus(lastSwitch, gone)
             charge == (IF n \in DOMAIN kept THEN kept[n] ELSE 0) + 1
             go == MaySwitch(n, last, charge)
             now == IF go THEN 0 ELSE charge
  <1>2. /\ DOMAIN kept = DOMAIN failureCounts \ gone
        /\ \A m \in DOMAIN kept : kept[m] = failureCounts[m]
    BY DEF Minus
  <1>3. charge \in Nat /\ charge <= streak[n] + 1 /\ now \in Nat
    BY <1>2
  <1>4. /\ failureCounts' = [m \in DOMAIN kept \cup {n} |-> IF m = n THEN now ELSE kept[m]]
        /\ streak' = [streak EXCEPT ![n] = IF go THEN 0 ELSE @ + 1]
    BY <1>1 DEF With
  <1>5. FoInv'
    <2> HIDE DEF kept, charge, go
    <2>1. FoTypes'
      BY <1>2, <1>3, <1>4
    <2>2. ASSUME NEW m \in DOMAIN failureCounts' PROVE failureCounts'[m] <= streak'[m]
      <3>1. CASE m = n
        BY <1>3, <1>4, <3>1
      <3>2. CASE m # n
        BY <1>2, <1>4, <2>2, <3>2
      <3> QED
        BY <3>1, <3>2
    <2> QED
      BY <2>1, <2>2
  <1>6. ASSUME switched'.node # "none"
        PROVE  /\ streak[switched'.node] + 1 >= Threshold
               /\ groupSwitch = Never \/ foNow - groupSwitch >= Cooldown
    <2>1. go
      BY <1>1, <1>6 DEF NoSwitch
    <2>2. switched'.node = n
      BY <1>1, <2>1
    <2>3. charge >= Threshold /\ Cooled(groupSwitch)
      BY <2>1 DEF MaySwitch
    <2> QED
      BY <1>3, <2>2, <2>3 DEF Cooled
  <1> QED
    BY <1>5, <1>6

LEMMA FoKeeps == FoInv /\ [FoNext]_foVars => FoInv'
  <1> SUFFICES ASSUME FoInv, [FoNext]_foVars PROVE FoInv'
    OBVIOUS
  <1> USE DEF FoInv, FoTypes
  <1>1. CASE ResetAll
    BY <1>1, SMT DEF ResetAll, NoEntries
  <1>2. ASSUME NEW n \in FoNodes, ReportSuccess(n) PROVE FoInv'
    <2>1. /\ failureCounts' = [m \in DOMAIN failureCounts \cup {n} |-> IF m = n THEN 0 ELSE failureCounts[m]]
          /\ streak' = [streak EXCEPT ![n] = 0]
      BY <1>2 DEF ReportSuccess, With
    <2> QED
      BY <2>1
  <1>3. ASSUME NEW n \in FoNodes, ReportFailure(n) PROVE FoInv'
    BY <1>3, FailureCharged
  <1>4. CASE FoTick
    BY <1>4 DEF FoTick
  <1>5. CASE UNCHANGED foVars
    BY <1>5 DEF foVars
  <1> QED
    BY <1>1, <1>2, <1>3, <1>4, <1>5 DEF FoNext

(* For any number of nodes, any capacity and any eviction: a switch is earned by Threshold failures  *)
(* in a row, and two switches of a group are at least the cooldown apart.                            *)
THEOREM SwitchesAreEarned == FoSpec => SwitchEarned
  <1>1. ASSUME FoInv, FoNext
        PROVE  switched'.node # "none" =>
                 /\ streak[switched'.node] + 1 >= Threshold
                 /\ groupSwitch = Never \/ foNow - groupSwitch >= Cooldown
    <2>1. CASE \E n \in FoNodes : ReportFailure(n)
      BY <1>1, <2>1, FailureCharged
    <2>2. CASE switched' = NoSwitch
      BY <2>2 DEF NoSwitch
    <2> QED
      BY <1>1, <2>1, <2>2 DEF FoNext, ResetAll, ReportSuccess, FoTick
  <1> QED
    BY <1>1, FoStarts, FoKeeps, PTL DEF FoSpec, SwitchEarned

-----------------------------------------------------------------------------
(* The server. *)

\* A table holds what each of its clients asked within the window, and nothing they did not ask;
\* who is not in it has asked nothing within the window.
Keeps(table, ip) ==
  IF ip \in DOMAIN table THEN InWindow(Of(ip)) \subseteq table[ip] /\ table[ip] \subseteq Of(ip)
  ELSE InWindow(Of(ip)) = {}
Honest(table) ==
  /\ DOMAIN table \subseteq Ips /\ Cardinality(DOMAIN table) <= MaxIps
  /\ \A ip \in Ips : Keeps(table, ip)
Numbered ==
  /\ IsFiniteSet(granted)
  /\ \A r \in granted : r.ip \in Ips /\ r.at \in Nat /\ r.no \in Nat /\ r.no <= Cardinality(Of(r.ip))
Refusals ==
  reply.code = 429 =>
    /\ reply.ip \in Ips
    /\ \/ Recent(reply.ip) = MaxRequests
       \/ Recent(reply.ip) = 0 /\ Cardinality({ip \in Ips \ {reply.ip} : Recent(ip) > 0}) >= MaxIps
Ending ==
  /\ server = "stopped" => ~watching /\ ~inFlight /\ ~locked
  /\ server = "new" => ~inFlight
SrvInv ==
  /\ serverNow \in Nat /\ Numbered /\ Honest(buckets)
  /\ \A ip \in Ips : Recent(ip) <= MaxRequests
  /\ Refusals /\ Ending

LEMMA FiniteRecent ==
  ASSUME IsFiniteSet(granted), NEW ip
  PROVE  /\ IsFiniteSet(Of(ip)) /\ Cardinality(Of(ip)) \in Nat
         /\ IsFiniteSet(InWindow(Of(ip))) /\ Recent(ip) \in Nat
  <1>1. Of(ip) \in SUBSET granted /\ InWindow(Of(ip)) \in SUBSET granted
    BY DEF Of, InWindow
  <1> QED
    BY <1>1, FS_Subset, FS_CardinalityType DEF Recent

LEMMA SrvStarts == SrvInit => SrvInv
  <1> SUFFICES ASSUME SrvInit PROVE SrvInv
    OBVIOUS
  <1>1. \A ip : Of(ip) = {} /\ InWindow(Of(ip)) = {} /\ Recent(ip) = 0
    BY FS_EmptySet DEF SrvInit, Of, InWindow, Recent
  <1>2. Honest(buckets)
    BY <1>1, FS_EmptySet, ServerAssumption DEF SrvInit, Honest, Keeps
  <1> QED
    BY <1>1, <1>2, FS_EmptySet, ServerAssumption DEF SrvInit, SrvInv, Numbered, Refusals, Ending, NoReply

\* What is cleaned stays honest, in whole or in part.
LEMMA CleanedHonest ==
  ASSUME NEW table, Honest(table)
  PROVE  /\ Honest(Cleaned(table))
         /\ DOMAIN Cleaned(table) \subseteq DOMAIN table
         /\ \A ip \in DOMAIN Cleaned(table) : InWindow(Of(ip)) # {}
  <1> DEFINE new == Cleaned(table)
             D == {ip \in DOMAIN table : InWindow(table[ip]) # {}}
  <1>1. new = [ip \in D |-> InWindow(table[ip])] /\ DOMAIN new = D
    BY DEF Cleaned
  <1>2. \A ip \in DOMAIN table : InWindow(table[ip]) = InWindow(Of(ip))
    BY DEF Honest, Keeps, InWindow
  <1>3. \A ip \in Ips : Keeps(new, ip)
    BY <1>1, <1>2 DEF Honest, Keeps, InWindow
  <1>4. IsFiniteSet(DOMAIN table) /\ D \subseteq DOMAIN table
    BY ServerAssumption, FS_Subset DEF Honest
  <1> HIDE DEF new, D
  <1>5. Cardinality(D) <= MaxIps
    <2>1. Cardinality(D) \in Nat /\ Cardinality(D) <= Cardinality(DOMAIN table) /\ Cardinality(DOMAIN table) \in Nat
      BY <1>4, FS_Subset, FS_CardinalityType
    <2> QED
      BY <2>1, ServerAssumption DEF Honest
  <1>6. \A ip \in D : InWindow(Of(ip)) # {}
    BY <1>2 DEF D
  <1> QED
    BY <1>1, <1>3, <1>4, <1>5, <1>6 DEF Honest, new

LEMMA PartCleanedHonest ==
  ASSUME NEW table, Honest(table), NEW other \in DOMAIN table
  PROVE  /\ Honest(CleanedOf(table, other))
         /\ DOMAIN CleanedOf(table, other) \subseteq DOMAIN table
  <1> DEFINE new == CleanedOf(table, other)
  <1>1. InWindow(table[other]) = InWindow(Of(other)) /\ other \in Ips
    BY DEF Honest, Keeps, InWindow
  <1>2. DOMAIN new \subseteq DOMAIN table
    BY DEF CleanedOf
  <1>3. ASSUME NEW ip \in Ips PROVE Keeps(new, ip)
    <2>1. CASE InWindow(table[other]) # {}
      <3>1. new = [table EXCEPT ![other] = InWindow(table[other])]
        BY <2>1 DEF CleanedOf
      <3>2. DOMAIN new = DOMAIN table /\ \A k \in DOMAIN table : new[k] = IF k = other THEN InWindow(table[other]) ELSE table[k]
        BY <3>1
      <3> HIDE DEF new
      <3>3. Keeps(table, ip)
        BY DEF Honest
      <3>4. InWindow(Of(other)) \subseteq Of(other)
        BY DEF InWindow
      <3> QED
        BY <1>1, <3>2, <3>3, <3>4 DEF Keeps
    <2>2. CASE InWindow(table[other]) = {}
      <3>1. new = [k \in DOMAIN table \ {other} |-> table[k]]
        BY <2>2 DEF CleanedOf
      <3> HIDE DEF new
      <3>2. Keeps(table, ip)
        BY DEF Honest
      <3> QED
        BY <1>1, <2>2, <3>1, <3>2 DEF Keeps
    <2> QED
      BY <2>1, <2>2
  <1>4. IsFiniteSet(DOMAIN table)
    BY ServerAssumption, FS_Subset DEF Honest
  <1> HIDE DEF new
  <1>5. Cardinality(DOMAIN new) <= MaxIps
    <2>1. Cardinality(DOMAIN new) \in Nat /\ Cardinality(DOMAIN new) <= Cardinality(DOMAIN table) /\ Cardinality(DOMAIN table) \in Nat
      BY <1>2, <1>4, FS_Subset, FS_CardinalityType
    <2> QED
      BY <2>1, ServerAssumption DEF Honest
  <1> QED
    BY <1>2, <1>3, <1>5 DEF Honest, new

\* Room is made before a client enters the table: with it the table is no larger than allowed.
LEMMA TidiedHonest ==
  ASSUME Honest(buckets), NEW ip \in Ips, ~NoRoom(AtLimit(ip), ip), NEW table \in Tidied(AtLimit(ip), ip)
  PROVE  Honest(table) /\ Cardinality(DOMAIN table \cup {ip}) <= MaxIps
  <1> DEFINE start == AtLimit(ip)
  <1>1. Honest(start)
    BY CleanedHonest DEF AtLimit
  <1> HIDE DEF start
  <1>2. Honest(table) /\ DOMAIN table \subseteq DOMAIN start
    <2>1. CASE table = Cleaned(start)
      BY <1>1, <2>1, CleanedHonest
    <2>2. CASE table = start
      BY <1>1, <2>2
    <2>3. ASSUME NEW other \in DOMAIN start, table = CleanedOf(start, other)
          PROVE  Honest(table) /\ DOMAIN table \subseteq DOMAIN start
      BY <1>1, <2>3, PartCleanedHonest
    <2> QED
      BY <2>1, <2>2, <2>3 DEF Tidied, start
  <1>3. IsFiniteSet(DOMAIN start) /\ IsFiniteSet(DOMAIN start \cup {ip})
    BY <1>1, ServerAssumption, FS_Subset, FS_AddElement DEF Honest
  <1>4. Cardinality(DOMAIN start \cup {ip}) <= MaxIps
    <2>1. ip \in DOMAIN start \/ ~(Cardinality(DOMAIN start) >= MaxIps)
      BY DEF NoRoom, start
    <2>2. Cardinality(DOMAIN start) \in Nat
      BY <1>3, FS_CardinalityType
    <2>3. Cardinality(DOMAIN start \cup {ip}) = IF ip \in DOMAIN start THEN Cardinality(DOMAIN start) ELSE Cardinality(DOMAIN start) + 1
      BY <1>3, FS_AddElement
    <2> QED
      BY <1>1, <2>1, <2>2, <2>3, ServerAssumption DEF Honest
  <1>5. Cardinality(DOMAIN table \cup {ip}) <= Cardinality(DOMAIN start \cup {ip})
    BY <1>2, <1>3, FS_Subset
  <1>6. Cardinality(DOMAIN table \cup {ip}) \in Nat /\ Cardinality(DOMAIN start \cup {ip}) \in Nat
    <2>1. (DOMAIN table \cup {ip}) \in SUBSET (DOMAIN start \cup {ip})
      BY <1>2
    <2> QED
      BY <1>3, <2>1, FS_Subset, FS_CardinalityType
  <1> QED
    BY <1>2, <1>4, <1>5, <1>6, ServerAssumption

\* As long as no request is let through and no time passes, everybody's window stays.
LEMMA SameWindows ==
  ASSUME UNCHANGED <<granted, serverNow>>
  PROVE  \A ip : Of(ip)' = Of(ip) /\ InWindow(Of(ip))' = InWindow(Of(ip)) /\ Recent(ip)' = Recent(ip)
  <1>1. \A ip : Of(ip)' = Of(ip)
    BY DEF Of
  <1>2. \A ip : InWindow(Of(ip))' = InWindow(Of(ip))
    BY <1>1 DEF InWindow, Live
  <1> QED
    BY <1>1, <1>2 DEF Recent

LEMMA RefusedKeeps ==
  ASSUME SrvInv, NEW ip \in Ips, UNCHANGED <<granted, serverNow, server, locked, watching>>,
         server = "bound", Honest(buckets'),
         reply' = [ip |-> ip, code |-> 429], inFlight' = FALSE,
         \/ Recent(ip) = MaxRequests
         \/ Recent(ip) = 0 /\ Cardinality({x \in Ips \ {ip} : Recent(x) > 0}) >= MaxIps
  PROVE  SrvInv'
  <1>1. \A x : Of(x)' = Of(x) /\ InWindow(Of(x))' = InWindow(Of(x)) /\ Recent(x)' = Recent(x)
    BY SameWindows
  <1>2. Honest(buckets)'
    BY <1>1 DEF Honest, Keeps
  <1>3. Numbered'
    BY <1>1 DEF SrvInv, Numbered
  <1>4. {x \in Ips \ {ip} : Recent(x) > 0} = {x \in Ips \ {ip} : Recent(x)' > 0}
    BY <1>1
  <1>5. Refusals'
    BY <1>1, <1>4 DEF Refusals
  <1> QED
    BY <1>1, <1>2, <1>3, <1>5 DEF SrvInv, Ending

LEMMA RequestKeeps ==
  ASSUME SrvInv, NEW ip \in Ips, NEW authorized \in BOOLEAN, Request(ip, authorized)
  PROVE  SrvInv'
  <1>1. PICK result \in Checks(ip) :
          /\ buckets' = result.table
          /\ granted' = IF result.passes THEN granted \cup {Asking(ip)} ELSE granted
          /\ inFlight' = (result.passes /\ authorized)
          /\ reply' = [ip |-> ip, code |-> Code(result.passes, authorized)]
    BY DEF Request
  <1>2. server = "bound" /\ UNCHANGED <<server, locked, watching, serverNow>>
    BY DEF Request
  <1>3. IsFiniteSet(granted) /\ Honest(buckets) /\ serverNow \in Nat
    BY DEF SrvInv, Numbered
  <1>4. CASE NoRoom(AtLimit(ip), ip)
    <2>1. result = [table |-> AtLimit(ip), passes |-> FALSE]
      BY <1>4 DEF Checks
    <2>2. AtLimit(ip) = Cleaned(buckets)
      BY <1>4 DEF AtLimit
    <2> DEFINE table == Cleaned(buckets)
    <2>3. Honest(table) /\ \A x \in DOMAIN table : InWindow(Of(x)) # {}
      BY <1>3, CleanedHonest
    <2> HIDE DEF table
    <2>4. buckets' = table /\ UNCHANGED granted /\ inFlight' = FALSE /\ reply' = [ip |-> ip, code |-> 429]
      BY <1>1, <2>1, <2>2 DEF Code, table
    <2>5. ip \notin DOMAIN table /\ Cardinality(DOMAIN table) >= MaxIps
      BY <1>4, <2>2 DEF NoRoom, table
    <2>6. Recent(ip) = 0
      BY <2>3, <2>5, FS_EmptySet DEF Honest, Keeps, Recent
    <2> DEFINE busy == {x \in Ips \ {ip} : Recent(x) > 0}
    <2>7. DOMAIN table \subseteq busy
      <3> SUFFICES ASSUME NEW x \in DOMAIN table PROVE x \in busy
        OBVIOUS
      <3>1. x \in Ips \ {ip} /\ InWindow(Of(x)) # {}
        BY <2>3, <2>5 DEF Honest
      <3>2. IsFiniteSet(InWindow(Of(x))) /\ Recent(x) \in Nat
        BY <1>3, FiniteRecent
      <3>3. Recent(x) # 0
        BY <3>1, <3>2, FS_EmptySet DEF Recent
      <3> QED
        BY <3>1, <3>2, <3>3
    <2>8. Cardinality(busy) >= MaxIps
      <3>1. IsFiniteSet(busy)
        BY ServerAssumption, FS_Subset
      <3> HIDE DEF busy
      <3>2. Cardinality(DOMAIN table) <= Cardinality(busy) /\ Cardinality(busy) \in Nat /\ Cardinality(DOMAIN table) \in Nat
        BY <2>7, <3>1, FS_Subset, FS_CardinalityType
      <3> QED
        BY <2>5, <3>2, ServerAssumption
    <2> QED
      BY <1>2, <2>3, <2>4, <2>6, <2>8, RefusedKeeps
  <1>5. ASSUME ~NoRoom(AtLimit(ip), ip), NEW table \in Tidied(AtLimit(ip), ip), result = Answered(table, ip)
        PROVE  SrvInv'
    <2> DEFINE recent == IF ip \in DOMAIN table THEN InWindow(table[ip]) ELSE {}
               kept == IF Exceeds(recent) THEN recent ELSE recent \cup {Asking(ip)}
               new == [k \in DOMAIN table \cup {ip} |-> IF k = ip THEN kept ELSE table[k]]
    <2>1. Honest(table) /\ Cardinality(DOMAIN table \cup {ip}) <= MaxIps
      BY <1>3, <1>5, TidiedHonest
    <2>2. recent = InWindow(Of(ip))
      BY <2>1 DEF Honest, Keeps, InWindow
    <2>3. buckets' = new /\ result.passes = ~Exceeds(recent)
      BY <1>1, <1>5 DEF Answered
    <2>4. DOMAIN new = DOMAIN table \cup {ip} /\ new[ip] = kept /\ \A k \in DOMAIN table : k # ip => new[k] = table[k]
      OBVIOUS
    <2> HIDE DEF new, recent
    <2>5. IsFiniteSet(Of(ip)) /\ Cardinality(Of(ip)) \in Nat /\ IsFiniteSet(InWindow(Of(ip))) /\ Recent(ip) \in Nat
      BY <1>3, FiniteRecent
    <2>6. Recent(ip) <= MaxRequests
      BY DEF SrvInv
    <2>7. Exceeds(recent) <=> Recent(ip) >= MaxRequests
      BY <2>2 DEF Exceeds, Recent
    <2>8. CASE Exceeds(recent)
      <3>1. UNCHANGED granted /\ inFlight' = FALSE /\ reply' = [ip |-> ip, code |-> 429]
        <4>1. result.passes = FALSE
          BY <2>3, <2>8
        <4> QED
          BY <1>1, <4>1 DEF Code
      <3>2. Recent(ip) = MaxRequests
        BY <2>5, <2>6, <2>7, <2>8, ServerAssumption
      <3>3. kept = InWindow(Of(ip)) /\ kept \subseteq Of(ip)
        BY <2>2, <2>8 DEF InWindow
      <3>4. Honest(buckets')
        BY <2>1, <2>3, <2>4, <3>3 DEF Honest, Keeps
      <3> QED
        BY <1>2, <3>1, <3>2, <3>4, RefusedKeeps
    <2>9. CASE ~Exceeds(recent)
      <3> DEFINE a == Asking(ip)
      <3>1. a.ip = ip /\ a.at \in Nat /\ a.no = Cardinality(Of(ip)) + 1
        BY <1>3 DEF Asking, Arrival
      <3>2. a \notin granted
        BY <2>5, <3>1 DEF SrvInv, Numbered
      <3>3. granted' = granted \cup {a} /\ reply'.code # 429
        <4>1. result.passes = TRUE
          BY <2>3, <2>9
        <4>2. Code(TRUE, authorized) # 429
          BY DEF Code
        <4> QED
          BY <1>1, <4>1, <4>2
      <3>4. kept = InWindow(Of(ip)) \cup {a}
        BY <2>2, <2>9
      <3> HIDE DEF a, kept
      <3>5. Of(ip)' = Of(ip) \cup {a} /\ \A x : x # ip => Of(x)' = Of(x)
        BY <3>1, <3>3 DEF Of
      <3>6. /\ InWindow(Of(ip))' \subseteq InWindow(Of(ip)) \cup {a}
            /\ \A x : x # ip => InWindow(Of(x))' = InWindow(Of(x)) /\ Recent(x)' = Recent(x)
        <4>1. InWindow(Of(ip))' \subseteq InWindow(Of(ip)) \cup {a}
          BY <1>2, <3>5 DEF InWindow, Live
        <4>2. \A x : x # ip => InWindow(Of(x))' = InWindow(Of(x))
          BY <1>2, <3>5 DEF InWindow, Live
        <4> QED
          BY <4>1, <4>2 DEF Recent
      <3>7. a \notin Of(ip)
        BY <3>2 DEF Of
      <3>8. Cardinality(Of(ip))' = Cardinality(Of(ip)) + 1
        BY <2>5, <3>5, <3>7, FS_AddElement
      <3>9. Numbered'
        <4>1. IsFiniteSet(granted')
          BY <1>3, <3>3, FS_AddElement
        <4>2. ASSUME NEW r \in granted' PROVE r.ip \in Ips /\ r.at \in Nat /\ r.no \in Nat /\ r.no <= Cardinality(Of(r.ip)')
          <5>1. CASE r = a
            BY <2>5, <3>1, <3>8, <5>1
          <5>2. CASE r \in granted
            <6>1. r.ip \in Ips /\ r.at \in Nat /\ r.no \in Nat /\ r.no <= Cardinality(Of(r.ip))
              BY <5>2 DEF SrvInv, Numbered
            <6>2. CASE r.ip = ip
              BY <2>5, <3>8, <6>1, <6>2
            <6>3. CASE r.ip # ip
              BY <3>5, <6>1, <6>3
            <6> QED
              BY <6>2, <6>3
          <5> QED
            BY <3>3, <5>1, <5>2
        <4>3. \A r \in granted' : r.ip \in Ips /\ r.at \in Nat /\ r.no \in Nat /\ r.no <= Cardinality(Of(r.ip)')
          BY <4>2
        <4> QED
          BY <4>1, <4>3 DEF Numbered
      <3>10. Recent(ip)' <= MaxRequests
        <4> DEFINE W == InWindow(Of(ip)) \cup {a}
        <4>1. IsFiniteSet(W) /\ Cardinality(W) <= Recent(ip) + 1
          <5> DEFINE V == InWindow(Of(ip))
          <5>1. IsFiniteSet(V) /\ Cardinality(V) \in Nat /\ Recent(ip) = Cardinality(V) /\ W = V \cup {a}
            BY <2>5 DEF Recent
          <5> HIDE DEF V, W
          <5>2. IsFiniteSet(V \cup {a}) /\ Cardinality(V \cup {a}) = IF a \in V THEN Cardinality(V) ELSE Cardinality(V) + 1
            BY <5>1, FS_AddElement
          <5> QED
            BY <5>1, <5>2
        <4> HIDE DEF W
        <4>a. InWindow(Of(ip))' \in SUBSET W
          BY <3>6 DEF W
        <4>b. IsFiniteSet(InWindow(Of(ip))') /\ Cardinality(InWindow(Of(ip))') <= Cardinality(W)
          BY <4>1, <4>a, FS_Subset
        <4>2. Recent(ip)' <= Cardinality(W) /\ Recent(ip)' \in Nat /\ Cardinality(W) \in Nat
          BY <4>1, <4>b, FS_CardinalityType DEF Recent
        <4> HIDE DEF W
        <4> QED
          BY <2>5, <2>7, <2>9, <4>1, <4>2, ServerAssumption
      <3>11. Honest(buckets)'
        <4>1. ASSUME NEW x \in Ips PROVE Keeps(buckets, x)'
          <5>1. CASE x = ip
            <6>1. x \in DOMAIN buckets' /\ buckets'[x] = kept
              BY <2>3, <2>4, <5>1
            <6>2. InWindow(Of(x))' \subseteq kept /\ kept \subseteq Of(x)'
              BY <3>4, <3>5, <3>6, <5>1 DEF InWindow
            <6> QED
              BY <6>1, <6>2 DEF Keeps
          <5>2. CASE x # ip
            BY <2>1, <2>3, <2>4, <3>5, <3>6, <5>2 DEF Honest, Keeps
          <5> QED
            BY <5>1, <5>2
        <4> QED
          BY <2>1, <2>3, <2>4, <4>1 DEF Honest
      <3>12. \A x \in Ips : Recent(x)' <= MaxRequests
        BY <3>6, <3>10 DEF SrvInv
      <3>13. Refusals' /\ Ending' /\ serverNow' \in Nat
        BY <1>2, <1>3, <3>3 DEF Refusals, Ending
      <3> QED
        BY <3>9, <3>11, <3>12, <3>13 DEF SrvInv
    <2> QED
      BY <2>8, <2>9
  <1> QED
    BY <1>4, <1>5 DEF Checks

LEMMA SrvKeeps == SrvInv /\ [SrvNext]_srvVars => SrvInv'
  <1> SUFFICES ASSUME SrvInv, [SrvNext]_srvVars PROVE SrvInv'
    OBVIOUS
  <1>1. ASSUME UNCHANGED <<granted, serverNow, buckets>>, reply' \in {reply, NoReply}, Ending' PROVE SrvInv'
    <2>1. \A x : Of(x)' = Of(x) /\ InWindow(Of(x))' = InWindow(Of(x)) /\ Recent(x)' = Recent(x)
      BY <1>1, SameWindows
    <2>2. Numbered' /\ Honest(buckets)'
      BY <1>1, <2>1 DEF SrvInv, Numbered, Honest, Keeps
    <2>3. Refusals'
      <3>1. CASE reply' = reply
        <4>1. {x \in Ips \ {reply.ip} : Recent(x) > 0} = {x \in Ips \ {reply.ip} : Recent(x)' > 0}
          BY <2>1
        <4> QED
          BY <2>1, <3>1, <4>1 DEF SrvInv, Refusals
      <3>2. CASE reply' = NoReply
        BY <3>2 DEF NoReply, Refusals
      <3> QED
        BY <1>1, <3>1, <3>2
    <2> QED
      BY <1>1, <2>1, <2>2, <2>3 DEF SrvInv
  <1>2. ASSUME NEW ip \in Ips, NEW authorized \in BOOLEAN, Request(ip, authorized) PROVE SrvInv'
    BY <1>2, RequestKeeps
  <1>3. CASE ServerTick
    <2>1. /\ serverNow \in Nat /\ serverNow' = serverNow + 1 /\ reply' = NoReply
          /\ UNCHANGED <<server, locked, watching, inFlight, buckets, granted>>
      BY <1>3 DEF ServerTick, SrvInv
    <2>2. \A x : Of(x)' = Of(x)
      BY <2>1 DEF Of
    <2>3. ASSUME NEW x \in Ips PROVE InWindow(Of(x))' \subseteq InWindow(Of(x))
      <3>1. ASSUME NEW r \in granted, Live(r.at)' PROVE Live(r.at)
        BY <2>1, <3>1, ServerAssumption DEF Live, SrvInv, Numbered
      <3> QED
        BY <2>1, <3>1 DEF InWindow, Of
    <2>4. ASSUME NEW x \in Ips PROVE Recent(x)' <= MaxRequests
      <3>1. IsFiniteSet(InWindow(Of(x))) /\ Recent(x) \in Nat /\ Recent(x) <= MaxRequests
        BY FiniteRecent DEF SrvInv, Numbered
      <3>2. Recent(x)' <= Recent(x) /\ Recent(x)' \in Nat
        BY <2>3, <3>1, FS_Subset, FS_CardinalityType DEF Recent
      <3> QED
        BY <3>1, <3>2, ServerAssumption
    <2>5. ASSUME NEW x \in Ips PROVE Keeps(buckets, x)'
      <3>1. Keeps(buckets, x)
        BY DEF SrvInv, Honest
      <3> QED
        BY <2>1, <2>2, <2>3, <3>1 DEF Keeps
    <2>6. Numbered' /\ Honest(buckets)'
      BY <2>1, <2>2, <2>5 DEF SrvInv, Numbered, Honest
    <2>7. Refusals' /\ Ending' /\ serverNow' \in Nat
      BY <2>1 DEF SrvInv, Refusals, Ending, NoReply
    <2> QED
      BY <2>4, <2>6, <2>7 DEF SrvInv
  <1>4. CASE LockRefused
    BY <1>1, <1>4 DEF LockRefused, SrvInv, Ending
  <1>5. ASSUME NEW watched \in BOOLEAN, NEW bindFails \in BOOLEAN, RunServer(watched, bindFails) PROVE SrvInv'
    <2>1. Ending'
      BY <1>5 DEF RunServer, SrvInv, Ending
    <2> QED
      BY <1>1, <1>5, <2>1 DEF RunServer
  <1>6. ASSUME NEW watch \in BOOLEAN, Handle(watch) PROVE SrvInv'
    <2>1. Ending'
      BY <1>6 DEF Handle, SrvInv, Ending
    <2> QED
      BY <1>1, <1>6, <2>1 DEF Handle
  <1>7. CASE ShutdownSignal
    <2>1. Ending'
      BY <1>7 DEF ShutdownSignal, Ending
    <2> QED
      BY <1>1, <1>7, <2>1 DEF ShutdownSignal
  <1>8. CASE StopServer
    <2>1. Ending'
      BY <1>8 DEF StopServer, Drained, Ending
    <2> QED
      BY <1>1, <1>8, <2>1 DEF StopServer
  <1>9. CASE UNCHANGED srvVars
    <2>1. Ending'
      BY <1>9 DEF srvVars, SrvInv, Ending
    <2> QED
      BY <1>1, <1>9, <2>1 DEF srvVars
  <1> QED
    BY <1>2, <1>3, <1>4, <1>5, <1>6, <1>7, <1>8, <1>9 DEF SrvNext

\* For any number of clients, any limits and any choice of what is cleaned: a window's limit holds
\* for everybody, a refusal has its reason, the table stays small, and a stopped server has let go.
THEOREM ServerIsSound == SrvSpec => []ServerSound
  <1>1. SrvInv => ServerSound
    <2> SUFFICES ASSUME SrvInv PROVE ServerSound
      OBVIOUS
    <2>1. Cardinality(DOMAIN buckets) <= MaxIps
      BY DEF SrvInv, Honest
    <2> QED
      BY <2>1 DEF SrvInv, Refusals, Ending, ServerSound
  <1> QED
    BY <1>1, SrvStarts, SrvKeeps, PTL DEF SrvSpec

-----------------------------------------------------------------------------
(* The migrations. *)

MgTypes ==
  /\ release \in DOMAIN Releases /\ running \in BOOLEAN
  /\ migrated.object \in BOOLEAN
  /\ migrated.version.is = "number" => migrated.version.n \in Nat
  /\ todo \subseteq DOMAIN Registered /\ latest \in Nat
  /\ ~running => todo = {}
  /\ reports \in Seq([name : {m.name : m \in Migrations}, migrated : BOOLEAN, ok : BOOLEAN])
\* Which migrations a version promises, whatever release is installed.
Promised(v) == \A m \in Migrations : m.version <= v => Provided(m)
\* What is pending is not below what was reached; what is below was made; what was reached is
\* where the run began, or the number of a migration that was made.
UnderWay ==
  /\ Version(migrated) <= latest
  /\ \A i \in todo : Registered[i].version >= latest /\ Registered[i].version > Version(migrated)
  /\ \A i \in DOMAIN Registered : Version(migrated) < Registered[i].version /\ Registered[i].version < latest
       => Complete(Registered[i].name) \in migrated.changes
  /\ latest = Version(migrated) \/ \E i \in DOMAIN Registered : /\ Registered[i].version = latest
                                                                /\ Complete(Registered[i].name) \in migrated.changes
  /\ todo # {} => \A k \in DOMAIN reports : reports[k].ok
  /\ (\A k \in DOMAIN reports : reports[k].ok) =>
       \A i \in DOMAIN Registered : Registered[i].version > Version(migrated)
         => i \in todo \/ Complete(Registered[i].name) \in migrated.changes
NothingLeft ==
  reports # <<>> /\ reports[Len(reports)].ok => \A i \in DOMAIN Registered : Provided(Registered[i])
MgInv ==
  /\ MgTypes
  /\ \A change \in migrated.changes : change.whole
  /\ Promised(Version(migrated))
  /\ \A k \in DOMAIN reports : ~reports[k].ok => k = Len(reports)
  /\ running => UnderWay
  /\ ~running => NothingLeft

LEMMA RegisteredIn ==
  ASSUME MgTypes
  PROVE  /\ DOMAIN Registered = 1..Len(Registered) /\ Len(Registered) \in Nat
         /\ \A i \in DOMAIN Registered : /\ Registered[i] \in Migrations /\ Registered[i].version \in Nat
                                         /\ Registered[i].version <= VersionLimit
         /\ \A m \in Migrations : m.version \in Nat
         /\ Version(migrated) \in Nat
  <1>1. Registered \in Seq(Migrations)
    BY MigrationAssumption DEF MgTypes, Registered
  <1>2. \A m \in Migrations : m.version \in Nat /\ m.version <= VersionLimit
    BY MigrationAssumption
  <1>3. Version(migrated) \in Nat
    BY MigrationAssumption DEF MgTypes, Version
  <1> QED
    BY <1>1, <1>2, <1>3

\* A version stated by a configuration is read back, for what a run reaches is a version.
LEMMA MgStarts == MgInit => MgInv
  <1> SUFFICES ASSUME MgInit PROVE MgInv
    OBVIOUS
  <1>1. PICK isObject \in BOOLEAN, stated \in Stated :
          migrated = Configuration(isObject, stated,
            {Complete(m.name) : m \in {m \in Migrations : m.version <= Version(Configuration(isObject, stated, {}))}})
    BY DEF MgInit
  <1>2. /\ migrated.object = isObject /\ migrated.version = stated
        /\ migrated.changes = {Complete(m.name) : m \in {m \in Migrations : m.version <= Version(migrated)}}
    BY <1>1 DEF Configuration, Version
  <1>3. MgTypes
    <2>1. 1 \in DOMAIN Releases
      BY MigrationAssumption
    <2>2. reports \in Seq([name : {m.name : m \in Migrations}, migrated : BOOLEAN, ok : BOOLEAN])
      BY DEF MgInit
    <2>3. migrated.version.is = "number" => migrated.version.n \in Nat
      <3>1. \A s \in Stated : s.is = "number" => s.n \in Nat
        BY MigrationAssumption
      <3> QED
        BY <1>2, <3>1
    <2>4. release \in DOMAIN Releases /\ running \in BOOLEAN /\ todo = {} /\ latest \in Nat
      BY <2>1 DEF MgInit
    <2> QED
      BY <1>2, <2>2, <2>3, <2>4 DEF MgTypes
  <1>4. \A change \in migrated.changes : change.whole
    BY <1>2 DEF Complete
  <1>5. Promised(Version(migrated))
    BY <1>2 DEF Promised, Provided
  <1> QED
    BY <1>3, <1>4, <1>5 DEF MgInit, MgInv, NothingLeft

LEMMA BeginRunKeeps == ASSUME MgInv, BeginRun PROVE MgInv'
  <1>1. /\ UNCHANGED <<release, migrated>> /\ running' = TRUE /\ reports' = <<>> /\ latest' = Version(migrated)
        /\ todo' = {i \in DOMAIN Registered : Registered[i].version > Version(migrated)}
    BY DEF BeginRun
  <1>2. /\ Registered' = Registered /\ Version(migrated)' = Version(migrated)
        /\ \A m : Provided(m)' = Provided(m)
    BY <1>1 DEF Registered, Version, Provided
  <1>3. /\ DOMAIN Registered \subseteq Nat /\ Version(migrated) \in Nat
        /\ \A i \in DOMAIN Registered : Registered[i].version \in Nat
    BY RegisteredIn DEF MgInv
  <1>4. MgTypes'
    BY <1>1, <1>2, <1>3 DEF MgInv, MgTypes
  <1>5. UnderWay'
    BY <1>1, <1>2, <1>3 DEF UnderWay
  <1>6. Promised(Version(migrated))'
    BY <1>1, <1>2 DEF MgInv, Promised
  <1> QED
    BY <1>1, <1>4, <1>5, <1>6 DEF MgInv

\* What a step of a run leaves: the version, what was made and, appended, its report.
LEMMA AttemptKeeps ==
  ASSUME MgInv, running, NEW i \in todo, NEW ok \in BOOLEAN, NEW changed \in BOOLEAN,
         reports' = Append(reports, Report(Registered[i], changed, ok)),
         UNCHANGED <<release, running>>,
         migrated'.object = migrated.object, migrated'.version = migrated.version,
         migrated.changes \subseteq migrated'.changes, \A change \in migrated'.changes : change.whole,
         todo' \subseteq todo, latest' \in Nat
  PROVE  /\ MgTypes' /\ Promised(Version(migrated))' /\ Registered' = Registered
         /\ \A change \in migrated'.changes : change.whole
         /\ Version(migrated)' = Version(migrated)
         /\ \A k \in DOMAIN reports' : ~reports'[k].ok => k = Len(reports')
         /\ (\A k \in DOMAIN reports' : reports'[k].ok) <=> ok
  <1> DEFINE r == Report(Registered[i], changed, ok)
  <1>1. Registered' = Registered /\ Version(migrated)' = Version(migrated)
    BY DEF Registered, Version
  <1>2. Registered[i] \in Migrations
    BY RegisteredIn DEF MgInv, MgTypes
  <1>3. r \in [name : {m.name : m \in Migrations}, migrated : BOOLEAN, ok : BOOLEAN] /\ r.ok = ok
    BY <1>2 DEF Report
  <1> HIDE DEF r
  <1>4. MgTypes'
    <2>1. reports' \in Seq([name : {m.name : m \in Migrations}, migrated : BOOLEAN, ok : BOOLEAN])
      BY <1>3, AppendProperties DEF MgInv, MgTypes, r
    <2> QED
      BY <1>1, <2>1 DEF MgInv, MgTypes
  <1>5. Promised(Version(migrated))'
    <2>1. \A m : Provided(m) => Provided(m)'
      BY DEF Provided
    <2> QED
      BY <1>1, <2>1 DEF MgInv, Promised
  <1>6. \A k \in DOMAIN reports : reports[k].ok
    BY DEF MgInv, UnderWay
  <1>7. /\ Len(reports') = Len(reports) + 1 /\ reports'[Len(reports')] = r /\ Len(reports) \in Nat
        /\ DOMAIN reports' = 1..Len(reports) + 1 /\ DOMAIN reports = 1..Len(reports)
        /\ \A k \in 1..Len(reports) : reports'[k] = reports[k]
    BY AppendProperties, LenProperties DEF MgInv, MgTypes, r
  <1>8. \A k \in DOMAIN reports' : k = Len(reports') \/ (k \in DOMAIN reports /\ reports'[k] = reports[k])
    BY <1>7
  <1>9. \A k \in DOMAIN reports' : k # Len(reports') => reports'[k].ok
    BY <1>6, <1>8
  <1>10. Len(reports') \in DOMAIN reports' /\ reports'[Len(reports')].ok = ok
    BY <1>3, <1>7
  <1>11. \A k \in DOMAIN reports' : ~reports'[k].ok => k = Len(reports')
    BY <1>9
  <1>12. (\A k \in DOMAIN reports' : reports'[k].ok) <=> ok
    BY <1>9, <1>10
  <1> QED
    BY <1>1, <1>4, <1>5, <1>11, <1>12

LEMMA SucceedKeeps == ASSUME MgInv, NEW i \in todo, MigrationSucceeds(i) PROVE MgInv'
  <1> DEFINE m == Registered[i]
  <1>1. /\ running /\ FirstPending(i) /\ UNCHANGED <<release, running>>
        /\ migrated' = Configuration(migrated.object, migrated.version, migrated.changes \cup {Complete(m.name)})
        /\ latest' = IF m.version > latest THEN m.version ELSE latest
        /\ reports' = Append(reports, Report(m, Complete(m.name) \notin migrated.changes, TRUE))
        /\ todo' = todo \ {i}
    BY DEF MigrationSucceeds
  <1>2. /\ migrated'.object = migrated.object /\ migrated'.version = migrated.version
        /\ migrated'.changes = migrated.changes \cup {Complete(m.name)}
    BY <1>1 DEF Configuration
  <1>3. \A change \in migrated'.changes : change.whole
    BY <1>2 DEF MgInv, Complete
  <1>4. /\ Version(migrated) \in Nat /\ latest \in Nat /\ m.version \in Nat
        /\ \A j \in DOMAIN Registered : Registered[j].version \in Nat
        /\ i \in DOMAIN Registered /\ todo \subseteq DOMAIN Registered
    BY RegisteredIn DEF MgInv, MgTypes
  <1> HIDE DEF m
  <1>5. m.version >= latest /\ latest' = m.version /\ m.version > Version(migrated)
    BY <1>1, <1>4 DEF MgInv, UnderWay, m
  <1>6. /\ MgTypes' /\ Promised(Version(migrated))' /\ Registered' = Registered
        /\ Version(migrated)' = Version(migrated)
        /\ \A k \in DOMAIN reports' : ~reports'[k].ok => k = Len(reports')
        /\ \A k \in DOMAIN reports' : reports'[k].ok
    <2>1. reports' = Append(reports, Report(Registered[i], Complete(m.name) \notin migrated.changes, TRUE))
      BY <1>1 DEF m
    <2>2. migrated.changes \subseteq migrated'.changes /\ todo' \subseteq todo /\ latest' \in Nat
      BY <1>1, <1>2, <1>4, <1>5
    <2>3. (Complete(m.name) \notin migrated.changes) \in BOOLEAN
      OBVIOUS
    <2> QED
      BY <1>1, <1>2, <1>3, <2>1, <2>2, <2>3, AttemptKeeps
  <1>7. ASSUME NEW j \in todo' PROVE Registered[j].version >= latest' /\ Registered[j].version > Version(migrated)
    <2>1. j \in todo /\ Registered[j].version >= m.version
      BY <1>1, <1>4 DEF FirstPending, m
    <2> QED
      BY <1>4, <1>5, <2>1
  <1>8. ASSUME NEW j \in DOMAIN Registered, Version(migrated) < Registered[j].version
        PROVE  j \in todo' \/ Complete(Registered[j].name) \in migrated'.changes
    BY <1>1, <1>2, <1>8 DEF MgInv, UnderWay, m
  <1>9. ASSUME NEW j \in DOMAIN Registered, Version(migrated) < Registered[j].version, Registered[j].version < latest'
        PROVE  Complete(Registered[j].name) \in migrated'.changes
    BY <1>4, <1>5, <1>7, <1>8, <1>9
  <1>10. /\ Registered[i].version = latest' /\ Complete(Registered[i].name) \in migrated'.changes
         /\ i \in DOMAIN Registered
    BY <1>2, <1>4, <1>5 DEF m
  <1>11. Version(migrated)' <= latest'
    BY <1>4, <1>5, <1>6
  <1>12. UnderWay'
    BY <1>6, <1>7, <1>8, <1>9, <1>10, <1>11 DEF UnderWay
  <1> QED
    BY <1>1, <1>3, <1>6, <1>12 DEF MgInv

LEMMA FailKeeps == ASSUME MgInv, NEW i \in todo, MigrationFails(i) PROVE MgInv'
  <1>1. /\ running /\ UNCHANGED <<release, running, latest>> /\ todo' = {}
        /\ migrated' = Configuration(migrated.object, migrated.version, migrated.changes)
        /\ reports' = Append(reports, Report(Registered[i], FALSE, FALSE))
    BY DEF MigrationFails, RolledBack
  <1>2. /\ migrated'.object = migrated.object /\ migrated'.version = migrated.version
        /\ migrated'.changes = migrated.changes
    BY <1>1 DEF Configuration
  <1>3. /\ MgTypes' /\ Promised(Version(migrated))' /\ Registered' = Registered
        /\ Version(migrated)' = Version(migrated) /\ \A change \in migrated'.changes : change.whole
        /\ \A k \in DOMAIN reports' : ~reports'[k].ok => k = Len(reports')
        /\ ~\A k \in DOMAIN reports' : reports'[k].ok
    <2>1. \A change \in migrated'.changes : change.whole
      BY <1>2 DEF MgInv
    <2>2. migrated.changes \subseteq migrated'.changes /\ todo' \subseteq todo /\ latest' \in Nat
      BY <1>1, <1>2 DEF MgInv, MgTypes
    <2> QED
      BY <1>1, <1>2, <2>1, <2>2, AttemptKeeps
  <1>4. UnderWay'
    BY <1>1, <1>2, <1>3 DEF MgInv, UnderWay
  <1> QED
    BY <1>1, <1>3, <1>4 DEF MgInv

\* The version a run leaves promises no more than the run has made: what it passed over has the
\* number of one that was made.
LEMMA EndRunKeeps == ASSUME MgInv, EndRun PROVE MgInv'
  <1>1. /\ running /\ todo = {} /\ running' = FALSE /\ UNCHANGED <<release, todo, latest, reports>>
        /\ migrated' = Configuration(migrated.object,
             IF latest > Version(migrated) /\ migrated.object THEN NumberVersion(latest) ELSE migrated.version,
             migrated.changes)
    BY DEF EndRun
  <1>2. migrated'.object = migrated.object /\ migrated'.changes = migrated.changes /\ Registered' = Registered
    BY <1>1 DEF Configuration, Registered
  <1>3. \A m : Provided(m)' = Provided(m)
    BY <1>2 DEF Provided
  <1>4. /\ Version(migrated) \in Nat /\ latest \in Nat /\ \A m \in Migrations : m.version \in Nat
        /\ \A j \in DOMAIN Registered : Registered[j].version \in Nat /\ Registered[j] \in Migrations
                                        /\ Registered[j].version <= VersionLimit
    BY RegisteredIn DEF MgInv, MgTypes
  <1>5. ASSUME NEW m \in Migrations, m.version <= latest PROVE Provided(m)
    <2>1. CASE m.version <= Version(migrated)
      BY <2>1 DEF MgInv, Promised
    <2>2. CASE m.version > Version(migrated)
      <3>1. latest # Version(migrated)
        BY <1>4, <1>5, <2>2
      <3>2. PICK i \in DOMAIN Registered : Registered[i].version = latest /\ Complete(Registered[i].name) \in migrated.changes
        BY <1>1, <3>1 DEF MgInv, UnderWay
      <3>3. CASE m.version = latest
        <4>1. CASE m = Registered[i]
          BY <3>2, <4>1 DEF Provided
        <4>2. CASE m # Registered[i]
          BY <1>4, <3>2, <3>3, <4>2 DEF Provided
        <4> QED
          BY <4>1, <4>2
      <3>4. CASE m.version < latest
        <4>1. PICK j \in DOMAIN Registered : Registered[j] = m
          <5>1. i \in DOMAIN Releases[release] /\ m.version <= Releases[release][i].version /\ release \in DOMAIN Releases
            BY <3>2, <3>4, <1>5 DEF Registered, MgInv, MgTypes
          <5> QED
            BY <5>1, MigrationAssumption DEF Registered
        <4> QED
          BY <1>1, <2>2, <3>4, <4>1 DEF MgInv, UnderWay, Provided
      <3> QED
        BY <1>4, <1>5, <3>3, <3>4
    <2> QED
      BY <1>4, <2>1, <2>2
  <1>6. Version(migrated)' \in {Version(migrated), latest} /\ (migrated'.version.is = "number" => migrated'.version.n \in Nat)
    <2>1. CASE latest > Version(migrated) /\ migrated.object
      <3>1. migrated'.version = NumberVersion(latest)
        BY <1>1, <2>1 DEF Configuration
      <3>2. latest <= VersionLimit
        <4>1. PICK i \in DOMAIN Registered : Registered[i].version = latest
          BY <1>1, <1>4, <2>1 DEF MgInv, UnderWay
        <4> QED
          BY <1>4, <4>1
      <3> QED
        BY <1>2, <1>4, <2>1, <3>1, <3>2, MigrationAssumption DEF Version, NumberVersion
    <2>2. CASE ~(latest > Version(migrated) /\ migrated.object)
      <3>1. migrated'.version = migrated.version
        BY <1>1, <2>2 DEF Configuration
      <3> QED
        BY <1>2, <3>1 DEF Version, MgInv, MgTypes
    <2> QED
      BY <2>1, <2>2
  <1>7. Promised(Version(migrated))'
    BY <1>3, <1>5, <1>6 DEF MgInv, Promised
  <1>8. MgTypes'
    BY <1>1, <1>2, <1>6 DEF MgInv, MgTypes
  <1>9. NothingLeft'
    <2> SUFFICES ASSUME reports # <<>>, reports[Len(reports)].ok, NEW i \in DOMAIN Registered
                 PROVE  Provided(Registered[i])
      BY <1>1, <1>2, <1>3 DEF NothingLeft
    <2>1. \A k \in DOMAIN reports : reports[k].ok
      BY DEF MgInv
    <2>2. CASE Registered[i].version > Version(migrated)
      BY <1>1, <2>1, <2>2 DEF MgInv, UnderWay, Provided
    <2>3. CASE Registered[i].version <= Version(migrated)
      BY <1>4, <2>3 DEF MgInv, Promised
    <2> QED
      BY <1>4, <2>2, <2>3
  <1> QED
    BY <1>1, <1>2, <1>7, <1>8, <1>9 DEF MgInv

LEMMA MgKeeps == MgInv /\ [MgNext]_mgVars => MgInv'
  <1> SUFFICES ASSUME MgInv, [MgNext]_mgVars PROVE MgInv'
    OBVIOUS
  <1>1. CASE BeginRun
    BY <1>1, BeginRunKeeps
  <1>2. CASE EndRun
    BY <1>2, EndRunKeeps
  <1>3. ASSUME NEW i \in todo, MigrationSucceeds(i) \/ MigrationFails(i) PROVE MgInv'
    BY <1>3, SucceedKeeps, FailKeeps
  <1>4. CASE Upgrade
    <2>1. /\ ~running /\ release' = release + 1 /\ release < Len(Releases) /\ reports' = <<>>
          /\ UNCHANGED <<migrated, running, todo, latest>>
      BY <1>4 DEF Upgrade
    <2>2. Version(migrated)' = Version(migrated) /\ \A m : Provided(m)' = Provided(m)
      BY <2>1 DEF Version, Provided
    <2>3. MgTypes'
      <3>1. todo' = {}
        BY <2>1 DEF MgInv, MgTypes
      <3>2. release' \in DOMAIN Releases
        <4>1. DOMAIN Releases = 1..Len(Releases) /\ Len(Releases) \in Nat
          BY MigrationAssumption, LenProperties
        <4> QED
          BY <2>1, <4>1 DEF MgInv, MgTypes
      <3>3. \A k \in DOMAIN reports' : FALSE
        BY <2>1
      <3> QED
        BY <2>1, <3>1, <3>2 DEF MgInv, MgTypes
    <2> QED
      BY <2>1, <2>2, <2>3 DEF MgInv, Promised, NothingLeft
  <1>5. CASE UNCHANGED mgVars
    <2>1. Version(migrated)' = Version(migrated) /\ Registered' = Registered /\ \A m : Provided(m)' = Provided(m)
      BY <1>5 DEF mgVars, Version, Registered, Provided
    <2> QED
      BY <1>5, <2>1 DEF mgVars, MgInv, MgTypes, Promised, UnderWay, NothingLeft
  <1> QED
    BY <1>1, <1>2, <1>3, <1>4, <1>5 DEF MgNext

\* For any lists of migrations, of however many releases: whatever fails and whenever a new release
\* comes, the version a run leaves promises no more than was made, and nothing is half made.
THEOREM RunsResume == MgSpec => []MigrationsResume
  <1>1. MgInv => MigrationsResume
    <2> SUFFICES ASSUME MgInv PROVE MigrationsResume
      OBVIOUS
    <2>1. \A i \in DOMAIN Registered : Registered[i] \in Migrations
      BY RegisteredIn DEF MgInv
    <2> QED
      BY <2>1 DEF MgInv, Promised, NothingLeft, MigrationsResume
  <1> QED
    BY <1>1, MgStarts, MgKeeps, PTL DEF MgSpec

-----------------------------------------------------------------------------
(* The watch mode.  NoEditMissed speaks of the moment when all is quiet.   *)
(* Before, an edit that is not compiled yet has an event somewhere on its  *)
(* way: the last event of its file in the queue, else among the pending    *)
(* ones, else in the batch says so, else the batch has read the file as it *)
(* is (Told).  A step moves an event one station on, and the buffers of    *)
(* the batch are empty whenever the loop waits (Emptied).                  *)

FileEvents == [path : Files, kind : {"Modified", "Removed"}]
Configurations == Seq(Files \X Nat)
WatchPCs == {"stopped", "scan", "idle", "read", "write", "rename", "copy", "reload"}
WatchTypes ==
  /\ copies \in BOOLEAN
  /\ disk \in [Files -> [ver : Nat, is : {"good", "bad", "absent"}]]
  /\ queue \in Seq(FileEvents) /\ pending \in Seq(FileEvents) /\ batch \in Seq(FileEvents)
  /\ pc \in WatchPCs
  /\ base \in Configurations /\ got \in Configurations
  /\ output \in Configurations \cup {Half}
  /\ compiled \in [Files -> Int] /\ unlucky \subseteq Files

\* The temporary file is complete before it takes the place of the output.
TempWhole == pc \in {"rename", "copy"} => temp = Result

Mentions(s, f) == \E n \in DOMAIN s : s[n].path = f
\* The last event of f in s says that the file is there.
LastTells(s, f) == \E n \in DOMAIN s :
  s[n].path = f /\ s[n].kind = "Modified" /\ \A m \in DOMAIN s : m > n => s[m].path # f
Current(f) == \A n \in DOMAIN got : got[n][1] = f => got[n][2] = disk[f].ver
Told(f) ==
  IF Mentions(queue, f) THEN LastTells(queue, f)
  ELSE IF Mentions(pending, f) THEN LastTells(pending, f)
  ELSE IF Mentions(batch, f) THEN LastTells(batch, f)
  ELSE IF Written(f) THEN Current(f)
  ELSE \/ compiled[f] = disk[f].ver
       \/ f \in unlucky
       \/ f \in Skipped /\ compiled[f] = -1
       \/ pc = "scan"
EditsTold == Running => \A f \in Files : disk[f].is = "good" => Told(f)
Emptied ==
  /\ pc \in {"stopped", "scan", "idle", "reload"} => batch = <<>> /\ got = <<>>
  /\ pc \in {"write", "rename", "copy"} => batch = <<>>
  /\ pc = "scan" => pending = <<>> /\ \A f \in Files : compiled[f] = -1
\* A batch has one event of each path, and reads it once.
OncePerPath ==
  /\ \A m, n \in DOMAIN batch : batch[m].path = batch[n].path => m = n
  /\ \A m, n \in DOMAIN got : got[m][1] = got[n][1] => m = n
  /\ \A m \in DOMAIN batch, n \in DOMAIN got : batch[m].path # got[n][1]

WatchInv == WatchTypes /\ TempWhole /\ EditsTold /\ Emptied /\ OncePerPath

------------------------------------------------------------------------------
(* Arrangements of a set, and what becomes of the last event of a path. *)

\* Every arrangement of a finite set has each element once.
LEMMA Arrangement ==
    ASSUME NEW S, IsFiniteSet(S), NEW s \in SetToSeqs(S)
    PROVE  /\ s \in Seq(S)
           /\ \A m, n \in DOMAIN s : s[m] = s[n] => m = n
           /\ \A x \in S : \E n \in DOMAIN s : s[n] = x
  <1> DEFINE D == 1..Cardinality(S)
  <1>1. Cardinality(S) \in Nat
    BY FS_CardinalityType
  <1>2. s \in [D -> S] /\ \A m, n \in D : s[m] = s[n] => m = n
    BY DEF SetToSeqs
  <1>3. s \in Injection(D, S)
    BY <1>2, Fun_IsInj
  <1>4. IsFiniteSet(D) /\ Cardinality(D) = Cardinality(S)
    BY <1>1, FS_Interval
  <1>5. s \in Surjection(D, S)
    BY <1>3, <1>4, FS_Injection
  <1>6. \A x \in S : \E n \in D : s[n] = x
    BY <1>5 DEF Surjection
  <1> QED
    BY <1>1, <1>2, <1>6

LEMMA AppendTells ==
    ASSUME NEW s \in Seq(FileEvents), NEW e \in FileEvents, NEW f
    PROVE  /\ Append(s, e) \in Seq(FileEvents)
           /\ Mentions(Append(s, e), f) <=> Mentions(s, f) \/ e.path = f
           /\ e.path = f /\ e.kind = "Modified" => LastTells(Append(s, e), f)
           /\ e.path # f /\ LastTells(s, f) => LastTells(Append(s, e), f)
  <1> DEFINE t == Append(s, e)
  <1>1. /\ t \in Seq(FileEvents) /\ DOMAIN t = 1..Len(s) + 1 /\ DOMAIN s = 1..Len(s) /\ Len(s) \in Nat
        /\ t[Len(s) + 1] = e /\ \A n \in 1..Len(s) : t[n] = s[n]
    BY AppendProperties, LenProperties
  <1> HIDE DEF t
  <1>2. Mentions(t, f) <=> Mentions(s, f) \/ e.path = f
    BY <1>1 DEF Mentions
  <1>3. e.path = f /\ e.kind = "Modified" => LastTells(t, f)
    BY <1>1 DEF LastTells
  <1>4. e.path # f /\ LastTells(s, f) => LastTells(t, f)
    <2> SUFFICES ASSUME e.path # f, LastTells(s, f) PROVE LastTells(t, f)
      OBVIOUS
    <2>1. PICK n \in DOMAIN s : s[n].path = f /\ s[n].kind = "Modified"
                                /\ \A m \in DOMAIN s : m > n => s[m].path # f
      BY DEF LastTells
    <2>2. n \in DOMAIN t /\ t[n] = s[n]
      BY <1>1
    <2>3. \A m \in DOMAIN t : m > n => t[m].path # f
      BY <1>1, <2>1
    <2> QED
      BY <2>1, <2>2, <2>3 DEF LastTells
  <1> QED
    BY <1>1, <1>2, <1>3, <1>4 DEF t

LEMMA TailTells ==
    ASSUME NEW s \in Seq(FileEvents), s # <<>>, NEW f
    PROVE  /\ Head(s) \in FileEvents /\ Tail(s) \in Seq(FileEvents)
           /\ Mentions(s, f) <=> Head(s).path = f \/ Mentions(Tail(s), f)
           /\ LastTells(s, f) /\ Mentions(Tail(s), f) => LastTells(Tail(s), f)
           /\ LastTells(s, f) /\ ~Mentions(Tail(s), f)
                => Head(s).path = f /\ Head(s).kind = "Modified"
  <1> DEFINE t == Tail(s)
  <1>1. /\ Head(s) = s[1] /\ Head(s) \in FileEvents /\ t \in Seq(FileEvents) /\ Len(s) \in Nat \ {0}
        /\ DOMAIN s = 1..Len(s) /\ DOMAIN t = 1..Len(s) - 1
        /\ \A n \in 1..Len(s) - 1 : t[n] = s[n + 1]
    BY HeadTailProperties, LenProperties, EmptySeq
  <1> HIDE DEF t
  <1>2. \A n \in DOMAIN s : n = 1 \/ (n - 1 \in DOMAIN t /\ t[n - 1] = s[n])
    <2> SUFFICES ASSUME NEW n \in DOMAIN s, n # 1 PROVE n - 1 \in DOMAIN t /\ t[n - 1] = s[n]
      OBVIOUS
    <2>1. n - 1 \in 1..Len(s) - 1 /\ n = (n - 1) + 1
      BY <1>1
    <2>2. t[n - 1] = s[(n - 1) + 1]
      BY <1>1, <2>1
    <2> QED
      BY <1>1, <2>1, <2>2
  <1>3. \A n \in DOMAIN t : n + 1 \in DOMAIN s /\ s[n + 1] = t[n]
    <2> SUFFICES ASSUME NEW n \in DOMAIN t PROVE n + 1 \in DOMAIN s /\ s[n + 1] = t[n]
      OBVIOUS
    <2>1. n \in 1..Len(s) - 1 /\ n + 1 \in 1..Len(s)
      BY <1>1
    <2> QED
      BY <1>1, <2>1
  <1>4. 1 \in DOMAIN s
    BY <1>1
  <1>5. Mentions(s, f) <=> Head(s).path = f \/ Mentions(t, f)
    <2>1. ASSUME Mentions(s, f) PROVE Head(s).path = f \/ Mentions(t, f)
      BY <1>1, <1>2, <2>1 DEF Mentions
    <2>2. ASSUME Head(s).path = f \/ Mentions(t, f) PROVE Mentions(s, f)
      BY <1>1, <1>3, <1>4, <2>2 DEF Mentions
    <2> QED
      BY <2>1, <2>2
  <1>6. ASSUME LastTells(s, f)
        PROVE  /\ Mentions(t, f) => LastTells(t, f)
               /\ ~Mentions(t, f) => Head(s).path = f /\ Head(s).kind = "Modified"
    <2>1. PICK n \in DOMAIN s : s[n].path = f /\ s[n].kind = "Modified"
                                /\ \A m \in DOMAIN s : m > n => s[m].path # f
      BY <1>6 DEF LastTells
    <2>2. CASE n = 1
      <3>1. ~Mentions(t, f)
        <4> SUFFICES ASSUME NEW m \in DOMAIN t, t[m].path = f PROVE FALSE
          BY DEF Mentions
        <4>1. m + 1 \in DOMAIN s /\ s[m + 1].path = f /\ m + 1 > 1
          BY <1>1, <1>3
        <4> QED
          BY <2>1, <2>2, <4>1
      <3> QED
        BY <1>1, <2>1, <2>2, <3>1
    <2>3. CASE n # 1
      <3>1. n - 1 \in DOMAIN t /\ t[n - 1] = s[n]
        BY <1>2, <2>3
      <3>2. ASSUME NEW m \in DOMAIN t, m > n - 1 PROVE t[m].path # f
        <4>1. m + 1 \in DOMAIN s /\ s[m + 1] = t[m] /\ m + 1 > n
          BY <1>1, <1>3, <3>2
        <4> QED
          BY <2>1, <4>1
      <3>3. LastTells(t, f) /\ Mentions(t, f)
        BY <2>1, <3>1, <3>2 DEF LastTells, Mentions
      <3> QED
        BY <3>3
    <2> QED
      BY <2>2, <2>3
  <1> QED
    BY <1>1, <1>5, <1>6 DEF t

\* A flush keeps one event of each path, the last.
LEMMA FlushTells ==
    ASSUME NEW s \in Seq(FileEvents), NEW b \in SetToSeqs(LastEvents(s))
    PROVE  /\ b \in Seq(FileEvents)
           /\ \A m, n \in DOMAIN b : b[m].path = b[n].path => m = n
           /\ \A f : Mentions(b, f) => Mentions(s, f)
           /\ \A f : LastTells(s, f) => LastTells(b, f)
  <1> DEFINE last == {n \in DOMAIN s : \A k \in n + 1..Len(s) : s[k].path # s[n].path}
  <1>1. LastEvents(s) = {s[n] : n \in last}
    BY DEF LastEvents
  <1>2. Len(s) \in Nat /\ DOMAIN s = 1..Len(s) /\ s \in [1..Len(s) -> FileEvents]
    BY LenProperties
  <1>3. \A m, n \in last : s[m].path = s[n].path => m = n
    <2> SUFFICES ASSUME NEW m \in last, NEW n \in last, s[m].path = s[n].path, m # n PROVE FALSE
      OBVIOUS
    <2>1. m \in 1..Len(s) /\ n \in 1..Len(s) /\ (m < n \/ n < m)
      BY <1>2
    <2>2. CASE m < n
      BY <2>1, <2>2
    <2>3. CASE n < m
      BY <2>1, <2>3
    <2> QED
      BY <2>1, <2>2, <2>3
  <1>4. IsFiniteSet(LastEvents(s)) /\ LastEvents(s) \subseteq FileEvents
    <2> DEFINE D == 1..Len(s)
    <2>1. s \in Surjection(D, Range(s)) /\ IsFiniteSet(D)
      <3>1. IsFiniteSet(D)
        BY <1>2, FS_Interval
      <3>2. s \in [D -> Range(s)] /\ \A x \in Range(s) : \E n \in D : s[n] = x
        BY <1>2 DEF Range
      <3> QED
        BY <3>1, <3>2 DEF Surjection
    <2>2. IsFiniteSet(Range(s))
      BY <2>1, FS_Surjection
    <2>3. LastEvents(s) \subseteq Range(s)
      BY <1>1 DEF Range
    <2> QED
      BY <1>1, <1>2, <2>2, <2>3, FS_Subset
  <1>5. /\ b \in Seq(LastEvents(s))
        /\ \A m, n \in DOMAIN b : b[m] = b[n] => m = n
        /\ \A x \in LastEvents(s) : \E n \in DOMAIN b : b[n] = x
    BY <1>4, Arrangement
  <1>6. b \in Seq(FileEvents) /\ \A n \in DOMAIN b : b[n] \in LastEvents(s)
    BY <1>4, <1>5, SeqMonotonic, LenProperties
  <1>7. \A m, n \in DOMAIN b : b[m].path = b[n].path => m = n
    <2> SUFFICES ASSUME NEW m \in DOMAIN b, NEW n \in DOMAIN b, b[m].path = b[n].path PROVE m = n
      OBVIOUS
    <2>1. PICK i \in last, j \in last : b[m] = s[i] /\ b[n] = s[j]
      BY <1>1, <1>6
    <2>2. i = j
      BY <1>3, <2>1
    <2> QED
      BY <1>5, <2>1, <2>2
  <1>8. ASSUME NEW f, Mentions(b, f) PROVE Mentions(s, f)
    BY <1>1, <1>6, <1>8 DEF Mentions
  <1>9. ASSUME NEW f, LastTells(s, f) PROVE LastTells(b, f)
    <2>1. PICK n \in DOMAIN s : s[n].path = f /\ s[n].kind = "Modified"
                                /\ \A m \in DOMAIN s : m > n => s[m].path # f
      BY <1>9 DEF LastTells
    <2>2. n \in last
      BY <1>2, <2>1
    <2>3. PICK k \in DOMAIN b : b[k] = s[n]
      BY <1>1, <1>5, <2>2
    <2>4. DOMAIN b \subseteq Nat
      BY <1>6, LenProperties
    <2>5. \A m \in DOMAIN b : m > k => b[m].path # f
      BY <1>7, <2>1, <2>3, <2>4
    <2> QED
      BY <2>1, <2>3, <2>5 DEF LastTells
  <1> QED
    BY <1>6, <1>7, <1>8, <1>9

------------------------------------------------------------------------------
(* The steps. *)

LEMMA WatchStarts == Init => WatchInv
  <1> SUFFICES ASSUME Init PROVE WatchInv
    OBVIOUS
  <1>1. WatchTypes
    <2>1. <<>> \in Seq(FileEvents) /\ <<>> \in Configurations
      BY EmptySeq DEF Configurations
    <2>2. disk \in [Files -> [ver : Nat, is : {"good", "bad", "absent"}]]
      BY DEF Init
    <2> QED
      BY <2>1, <2>2 DEF Init, WatchTypes, WatchPCs
  <1>2. pc = "stopped" /\ batch = <<>> /\ got = <<>>
    BY DEF Init
  <1>3. OncePerPath
    BY <1>2 DEF OncePerPath
  <1> QED
    BY <1>1, <1>2, <1>3 DEF WatchInv, TempWhole, EditsTold, Running, Emptied

\* Steps that touch no event, no batch and no file of the user.
LEMMA ToldKept ==
    ASSUME EditsTold, Running' => Running,
           UNCHANGED <<disk, queue, pending, batch, got, compiled, unlucky>>,
           pc = "scan" => pc' = "scan"
    PROVE  EditsTold'
  <1> SUFFICES ASSUME Running', NEW f \in Files, disk'[f].is = "good" PROVE Told(f)'
    BY DEF EditsTold
  <1>1. Told(f)
    BY DEF EditsTold
  <1> QED
    BY <1>1 DEF Told, Mentions, LastTells, Written, Current
LEMMA QuietPreserves ==
    ASSUME WatchInv, Tick \/ OpenTemp \/ WriteTemp \/ Reload
    PROVE  WatchInv'
  <1> USE DEF WatchInv
  <1>1. /\ UNCHANGED <<copies, disk, queue, pending, batch, got, base, output, compiled, unlucky>>
        /\ pc' \in WatchPCs
    BY DEF Tick, OpenTemp, WriteTemp, Reload, runVars, fileVars, loopVars, WatchPCs, WatchTypes
  <1>2. WatchTypes'
    BY <1>1 DEF WatchTypes
  <1>3. TempWhole'
    BY DEF Tick, OpenTemp, WriteTemp, Reload, TempWhole, Result, runVars, fileVars
  <1>4. pc = "scan" => pc' = "scan"
    BY DEF Tick, OpenTemp, WriteTemp, Reload
  <1>5. Running' => Running
    BY DEF Tick, OpenTemp, WriteTemp, Reload, Running
  <1>6. EditsTold'
    BY <1>1, <1>4, <1>5, ToldKept
  <1>7. Emptied'
    BY <1>1 DEF Emptied, Tick, OpenTemp, WriteTemp, Reload
  <1>8. OncePerPath'
    BY <1>1 DEF OncePerPath
  <1> QED
    BY <1>2, <1>3, <1>6, <1>7, <1>8

\* The end of the process, wanted or not; and its start, with empty buffers.
LEMMA EndPreserves ==
    ASSUME WatchInv, Exit \/ Crash
    PROVE  WatchInv'
  <1> USE DEF WatchInv
  <1>1. /\ UNCHANGED <<copies, disk, queue, pending, base, output, compiled, unlucky>>
        /\ pc' = "stopped" /\ batch' = <<>> /\ got' = <<>>
    BY DEF Exit, Crash, loopVars, runVars, fileVars, Emptied
  <1>2. WatchTypes'
    BY <1>1, EmptySeq DEF WatchTypes, WatchPCs, Configurations
  <1>3. OncePerPath'
    BY <1>1 DEF OncePerPath
  <1> QED
    BY <1>1, <1>2, <1>3 DEF TempWhole, EditsTold, Running, Emptied
LEMMA StartPreserves ==
    ASSUME WatchInv, Start
    PROVE  WatchInv'
  <1> USE DEF WatchInv
  <1>1. /\ queue' = <<>> /\ pending' = <<>> /\ batch' = <<>> /\ got' = <<>> /\ pc' = "scan"
        /\ UNCHANGED <<copies, disk, output>>
        /\ \A f \in Files : compiled'[f] = -1
    BY DEF Start, fileVars, Emptied
  <1>2. WatchTypes'
    <2>1. base' \in Configurations /\ <<>> \in Seq(FileEvents) /\ <<>> \in Configurations
      BY EmptySeq DEF Start, WatchTypes, Configurations
    <2>2. compiled' \in [Files -> Int] /\ unlucky' \subseteq Files
      BY DEF Start
    <2> QED
      BY <1>1, <2>1, <2>2 DEF WatchTypes, WatchPCs
  <1>3. \A f \in Files : Told(f)'
    BY <1>1 DEF Told, Mentions, Written
  <1>4. OncePerPath'
    BY <1>1 DEF OncePerPath
  <1> QED
    BY <1>1, <1>2, <1>3, <1>4 DEF TempWhole, EditsTold, Emptied

\* An edit is told by its own event, the last of its file, unless nobody listens.
LEMMA EditPreserves ==
    ASSUME WatchInv, NEW f \in Files, NEW k \in {"good", "bad", "absent"}, Edit(f, k)
    PROVE  WatchInv'
  <1> USE DEF WatchInv
  <1> DEFINE e == [path |-> f, kind |-> IF k = "absent" THEN "Removed" ELSE "Modified"]
  <1>1. /\ UNCHANGED <<copies, pending, pc, base, batch, got, temp, output, compiled, unlucky>>
        /\ disk' = [disk EXCEPT ![f] = [ver |-> disk[f].ver + 1, is |-> k]]
        /\ queue' = IF Running THEN Append(queue, e) ELSE queue
    BY DEF Edit, runVars, fileVars
  <1>2. e \in FileEvents /\ e.path = f /\ (k # "absent" => e.kind = "Modified")
    BY DEF FileEvents
  <1> HIDE DEF e
  <1>3. WatchTypes'
    <2>1. disk' \in [Files -> [ver : Nat, is : {"good", "bad", "absent"}]]
      BY <1>1 DEF WatchTypes
    <2>2. queue' \in Seq(FileEvents)
      BY <1>1, <1>2, AppendTells DEF WatchTypes
    <2> QED
      BY <1>1, <2>1, <2>2 DEF WatchTypes
  <1>4. TempWhole'
    BY <1>1 DEF TempWhole, Result
  <1>5. EditsTold'
    <2> SUFFICES ASSUME Running, NEW g \in Files, disk'[g].is = "good" PROVE Told(g)'
      BY <1>1 DEF EditsTold, Running
    <2>1. queue' = Append(queue, e) /\ queue \in Seq(FileEvents)
      BY <1>1 DEF WatchTypes
    <2>2. CASE g = f
      <3>1. k = "good"
        BY <1>1, <2>2 DEF WatchTypes
      <3>2. Mentions(queue', g) /\ LastTells(queue', g)
        BY <1>2, <2>1, <2>2, <3>1, AppendTells
      <3> QED
        BY <3>2 DEF Told
    <2>3. CASE g # f
      <3>1. Told(g) /\ disk'[g] = disk[g]
        BY <1>1, <2>3 DEF EditsTold, WatchTypes
      <3>2. /\ Mentions(queue', g) <=> Mentions(queue, g)
            /\ LastTells(queue, g) => LastTells(queue', g)
        BY <1>2, <2>1, <2>3, AppendTells
      <3>3. Written(g)' <=> Written(g)
        BY <1>1 DEF Written
      <3>4. Current(g) => Current(g)'
        BY <1>1, <3>1 DEF Current
      <3> QED
        BY <1>1, <3>1, <3>2, <3>3, <3>4 DEF Told
    <2> QED
      BY <2>2, <2>3
  <1>6. Emptied'
    BY <1>1 DEF Emptied
  <1>7. OncePerPath'
    BY <1>1 DEF OncePerPath
  <1> QED
    BY <1>3, <1>4, <1>5, <1>6, <1>7

\* A scan makes an event of every file that is there and not skipped; it has found none
\* of the others compiled.
LEMMA ScanPreserves ==
    ASSUME WatchInv, Scan
    PROVE  WatchInv'
  <1> USE WatchAssumption DEF WatchInv
  <1>1. PICK found \in SetToSeqs(Existing) :
          batch' = [n \in DOMAIN found |-> [path |-> found[n], kind |-> "Modified"]]
    BY DEF Scan
  <1>2. /\ UNCHANGED <<copies, disk, queue, pending, base, output, temp, compiled, unlucky>>
        /\ pc = "scan" /\ got' = <<>> /\ pc' = IF Existing = {} THEN "idle" ELSE "read"
    BY DEF Scan, loopVars, fileVars
  <1>3. /\ found \in Seq(Existing) /\ \A m, n \in DOMAIN found : found[m] = found[n] => m = n
        /\ \A x \in Existing : \E n \in DOMAIN found : found[n] = x
    <2>1. IsFiniteSet(Existing)
      BY FS_Subset DEF Existing
    <2> QED
      BY <2>1, Arrangement
  <1>4. DOMAIN found = 1..Len(found) /\ Len(found) \in Nat /\ \A n \in DOMAIN found : found[n] \in Existing
    BY <1>3, LenProperties
  <1>5. /\ batch' \in Seq(FileEvents) /\ DOMAIN batch' = DOMAIN found
        /\ \A n \in DOMAIN found : batch'[n].path = found[n] /\ batch'[n].kind = "Modified"
    BY <1>1, <1>4 DEF FileEvents, Existing
  <1>6. WatchTypes'
    BY <1>2, <1>5, EmptySeq DEF WatchTypes, WatchPCs, Configurations
  <1>7. \A m, n \in DOMAIN batch' : batch'[m].path = batch'[n].path => m = n
    BY <1>3, <1>5
  <1>8. ASSUME NEW f \in Files, disk[f].is = "good" PROVE Told(f)'
    <2>1. Told(f) /\ pending = <<>> /\ compiled[f] = -1
      BY <1>2, <1>8 DEF EditsTold, Running, Emptied
    <2>2. ~Mentions(pending, f)
      BY <2>1 DEF Mentions
    <2>3. f \in Skipped \/ LastTells(batch', f)
      <3> SUFFICES ASSUME f \notin Skipped PROVE LastTells(batch', f)
        OBVIOUS
      <3>1. f \in Existing
        BY <1>8 DEF Existing
      <3>2. PICK n \in DOMAIN found : found[n] = f
        BY <1>3, <3>1
      <3>3. \A m \in DOMAIN batch' : m > n => batch'[m].path # f
        BY <1>4, <1>5, <1>7, <3>2
      <3> QED
        BY <1>5, <3>2, <3>3 DEF LastTells
    <2>4. f \in Skipped => ~Mentions(batch', f)
      BY <1>4, <1>5 DEF Mentions, Existing
    <2>5. ~Written(f)'
      BY <1>2 DEF Written
    <2>6. Mentions(queue, f) => LastTells(queue, f)
      BY <2>1 DEF Told
    <2>7. ~Mentions(batch', f) => f \in Skipped
      BY <2>3 DEF LastTells, Mentions
    <2> QED
      BY <1>2, <2>1, <2>2, <2>3, <2>4, <2>5, <2>6, <2>7 DEF Told
  <1>9. EditsTold'
    BY <1>2, <1>8 DEF EditsTold
  <1>10. Emptied'
    <2>1. Existing = {} => batch' = <<>>
      BY <1>3, <1>4, <1>5, EmptySeq
    <2> QED
      BY <1>2, <2>1 DEF Emptied
  <1>11. OncePerPath'
    BY <1>2, <1>7 DEF OncePerPath
  <1>12. TempWhole'
    BY <1>2 DEF TempWhole
  <1> QED
    BY <1>6, <1>9, <1>10, <1>11, <1>12

\* A flush of the events s, with the queue already as it will be: what told of f before in
\* the queue, in s or by itself tells of it afterwards in the queue, in the batch or by itself.
LEMMA FlushKeeps ==
    ASSUME WatchTypes, pc = "idle", batch = <<>>, got = <<>>,
           NEW s \in Seq(FileEvents), Flush(s),
           UNCHANGED <<copies, disk, base, output, compiled, unlucky>>,
           queue' \in Seq(FileEvents),
           \A f \in Files : disk[f].is = "good" =>
             IF Mentions(queue', f) THEN LastTells(queue', f)
             ELSE IF Mentions(s, f) THEN LastTells(s, f) ELSE Told(f) /\ ~Mentions(queue, f) /\ ~Mentions(pending, f)
    PROVE  WatchInv'
  <1>1. /\ batch' \in SetToSeqs(LastEvents(s)) /\ got' = <<>> /\ pending' = <<>> /\ pc' = "read"
    BY DEF Flush
  <1>2. /\ batch' \in Seq(FileEvents)
        /\ \A m, n \in DOMAIN batch' : batch'[m].path = batch'[n].path => m = n
        /\ \A f : Mentions(batch', f) => Mentions(s, f)
        /\ \A f : LastTells(s, f) => LastTells(batch', f)
    BY <1>1, FlushTells
  <1>3. WatchTypes'
    BY <1>1, <1>2, EmptySeq DEF WatchTypes, WatchPCs, Configurations
  <1>4. ASSUME NEW f \in Files, disk[f].is = "good" PROVE Told(f)'
    <2>1. IF Mentions(queue', f) THEN LastTells(queue', f)
          ELSE IF Mentions(s, f) THEN LastTells(s, f) ELSE Told(f) /\ ~Mentions(queue, f) /\ ~Mentions(pending, f)
      BY <1>4
    <2>2. ~Mentions(pending', f) /\ ~Mentions(batch, f)
      BY <1>1 DEF Mentions
    <2>3. ~Written(f) /\ ~Written(f)'
      BY <1>1 DEF Written
    <2>4. LastTells(batch', f) => Mentions(batch', f)
      BY DEF LastTells, Mentions
    <2> QED
      BY <1>2, <2>1, <2>2, <2>3, <2>4 DEF Told
  <1>5. EditsTold'
    BY <1>4 DEF EditsTold
  <1>6. OncePerPath'
    BY <1>1, <1>2 DEF OncePerPath
  <1> QED
    BY <1>1, <1>3, <1>5, <1>6 DEF WatchInv, TempWhole, Emptied

\* An event goes from the head of the queue to the end of the pending ones.
LEMMA ReceivePreserves ==
    ASSUME WatchInv, Receive
    PROVE  WatchInv'
  <1> USE DEF WatchInv
  <1> DEFINE all == Append(pending, Head(queue))
  <1>1. /\ pc = "idle" /\ queue # <<>> /\ queue' = Tail(queue)
        /\ UNCHANGED <<copies, disk, base, output, compiled, unlucky, temp>>
    BY DEF Receive, fileVars
  <1>2. IF FlushNow THEN Flush(all) /\ quiet' = FALSE
        ELSE pending' = all /\ UNCHANGED <<quiet, waited, pc, batch, got>>
    BY DEF Receive
  <1>3. batch = <<>> /\ got = <<>>
    BY <1>1 DEF Emptied
  <1>4. queue \in Seq(FileEvents) /\ pending \in Seq(FileEvents)
    BY DEF WatchTypes
  <1>5. Head(queue) \in FileEvents /\ queue' \in Seq(FileEvents)
    BY <1>1, <1>4, TailTells
  <1>6. all \in Seq(FileEvents)
    BY <1>4, <1>5, AppendTells
  <1>7. ASSUME NEW f \in Files, disk[f].is = "good"
        PROVE  IF Mentions(queue', f) THEN LastTells(queue', f)
               ELSE IF Mentions(all, f) THEN LastTells(all, f)
               ELSE Told(f) /\ ~Mentions(queue, f) /\ ~Mentions(pending, f)
    <2>1. Told(f)
      BY <1>1, <1>7 DEF EditsTold, Running
    <2>2. /\ Mentions(queue, f) <=> Head(queue).path = f \/ Mentions(queue', f)
          /\ LastTells(queue, f) /\ Mentions(queue', f) => LastTells(queue', f)
          /\ LastTells(queue, f) /\ ~Mentions(queue', f)
               => Head(queue).path = f /\ Head(queue).kind = "Modified"
      BY <1>1, <1>4, TailTells
    <2>3. /\ Mentions(all, f) <=> Mentions(pending, f) \/ Head(queue).path = f
          /\ Head(queue).path = f /\ Head(queue).kind = "Modified" => LastTells(all, f)
          /\ Head(queue).path # f /\ LastTells(pending, f) => LastTells(all, f)
      BY <1>4, <1>5, AppendTells
    <2>4. Mentions(queue, f) => LastTells(queue, f)
      BY <2>1 DEF Told
    <2>5. ~Mentions(queue, f) /\ Mentions(pending, f) => LastTells(pending, f)
      BY <2>1 DEF Told
    <2> HIDE DEF all
    <2> QED
      BY <2>1, <2>2, <2>3, <2>4, <2>5
  <1> HIDE DEF all
  <1>8. CASE FlushNow
    BY <1>1, <1>2, <1>3, <1>5, <1>6, <1>7, <1>8, FlushKeeps
  <1>9. CASE ~FlushNow
    <2>1. pending' = all /\ UNCHANGED <<pc, batch, got>>
      BY <1>2, <1>9
    <2>2. WatchTypes'
      BY <1>1, <1>5, <1>6, <2>1 DEF WatchTypes
    <2>3. ASSUME NEW f \in Files, disk[f].is = "good" PROVE Told(f)'
      <3>1. /\ Mentions(batch, f)' <=> Mentions(batch, f)
            /\ Written(f)' <=> Written(f)
            /\ ~Mentions(batch, f) /\ ~Written(f)
        BY <1>3, <2>1 DEF Mentions, Written
      <3> QED
        BY <1>1, <1>7, <2>1, <2>3, <3>1 DEF Told
    <2>4. EditsTold'
      BY <1>1, <2>3 DEF EditsTold
    <2> QED
      BY <1>1, <1>3, <2>1, <2>2, <2>4 DEF TempWhole, Emptied, OncePerPath
  <1> QED
    BY <1>8, <1>9

LEMMA TimeoutPreserves ==
    ASSUME WatchInv, Timeout
    PROVE  WatchInv'
  <1> USE DEF WatchInv
  <1>1. /\ pc = "idle" /\ queue = <<>> /\ Flush(pending)
        /\ UNCHANGED <<copies, disk, queue, base, output, compiled, unlucky>>
    BY DEF Timeout, fileVars
  <1>2. batch = <<>> /\ got = <<>> /\ WatchTypes
    BY <1>1 DEF Emptied
  <1>3. queue' \in Seq(FileEvents) /\ pending \in Seq(FileEvents)
    BY <1>1, <1>2 DEF WatchTypes
  <1>4. ASSUME NEW f \in Files, disk[f].is = "good"
        PROVE  IF Mentions(queue', f) THEN LastTells(queue', f)
               ELSE IF Mentions(pending, f) THEN LastTells(pending, f)
               ELSE Told(f) /\ ~Mentions(queue, f) /\ ~Mentions(pending, f)
    <2>1. Told(f)
      BY <1>1, <1>4 DEF EditsTold, Running
    <2>2. ~Mentions(queue, f) /\ ~Mentions(queue', f)
      BY <1>1 DEF Mentions
    <2> QED
      BY <2>1, <2>2 DEF Told
  <1> QED
    BY <1>1, <1>2, <1>3, <1>4, FlushKeeps

\* Reading takes the first event of the batch; the batch has no other of the same file, and
\* the patches collected so far are of other files.
LEMMA ReadPreserves ==
    ASSUME WatchInv, pc = "read", batch # <<>>,
           ~(Head(batch).kind = "Modified" /\ disk[Head(batch).path].is # "good"), ReadNext
    PROVE  WatchInv'
  <1> USE DEF WatchInv
  <1> DEFINE e == Head(batch)
             p == <<e.path, disk[e.path].ver>>
  <1>1. /\ batch' = Tail(batch)
        /\ got' = IF e.kind = "Modified" THEN Append(got, p) ELSE got
        /\ UNCHANGED <<copies, disk, queue, pending, pc, base, output, temp, compiled, unlucky>>
    BY DEF ReadNext, loopVars, fileVars
  <1>2. batch \in Seq(FileEvents) /\ e \in FileEvents /\ batch' \in Seq(FileEvents)
    BY <1>1, TailTells DEF WatchTypes
  <1>3. e.path \in Files /\ p \in Files \X Nat /\ p[1] = e.path /\ p[2] = disk[e.path].ver
    BY <1>2 DEF FileEvents, WatchTypes
  <1>4. /\ Len(batch) \in Nat \ {0} /\ DOMAIN batch = 1..Len(batch) /\ batch[1] = e
        /\ DOMAIN batch' = 1..Len(batch) - 1
        /\ \A n \in DOMAIN batch' : n + 1 \in DOMAIN batch /\ batch'[n] = batch[n + 1]
    BY <1>1, <1>2, HeadTailProperties, LenProperties, EmptySeq
  <1>5. got \in Seq(Files \X Nat)
    BY DEF WatchTypes, Configurations
  <1> HIDE DEF p
  <1>6. /\ got' \in Seq(Files \X Nat)
        /\ e.kind # "Modified" => got' = got
        /\ e.kind = "Modified" =>
             /\ DOMAIN got' = DOMAIN got \cup {Len(got) + 1} /\ Len(got) + 1 \notin DOMAIN got
             /\ got'[Len(got) + 1] = p
             /\ \A n \in DOMAIN got : got'[n] = got[n]
    BY <1>1, <1>3, <1>5, AppendProperties, LenProperties
  <1>7. WatchTypes'
    BY <1>1, <1>2, <1>6 DEF WatchTypes, Configurations
  <1>8. \A n \in DOMAIN got : got[n][1] # e.path
    BY <1>4 DEF OncePerPath
  <1> HIDE DEF e
  <1>9. OncePerPath'
    <2>1. \A m, n \in DOMAIN batch' : batch'[m].path = batch'[n].path => m = n
      <3> SUFFICES ASSUME NEW m \in DOMAIN batch', NEW n \in DOMAIN batch',
                          batch'[m].path = batch'[n].path
                   PROVE  m = n
        OBVIOUS
      <3>1. m + 1 = n + 1
        BY <1>4 DEF OncePerPath
      <3> QED
        BY <1>4, <3>1
    <2>2. \A m, n \in DOMAIN got' : got'[m][1] = got'[n][1] => m = n
      BY <1>3, <1>6, <1>8 DEF OncePerPath
    <2>3. \A m \in DOMAIN batch' : batch'[m].path # e.path
      BY <1>4 DEF OncePerPath
    <2>4. \A m \in DOMAIN batch', n \in DOMAIN got : batch'[m].path # got[n][1]
      BY <1>4 DEF OncePerPath
    <2>5. \A m \in DOMAIN batch', n \in DOMAIN got' : batch'[m].path # got'[n][1]
      BY <1>3, <1>6, <2>3, <2>4
    <2> QED
      BY <2>1, <2>2, <2>5 DEF OncePerPath
  <1>10. ASSUME NEW f \in Files, disk[f].is = "good" PROVE Told(f)'
    <2>1. Told(f)
      BY <1>10 DEF EditsTold, Running
    <2>2. /\ Mentions(batch, f) <=> e.path = f \/ Mentions(batch', f)
          /\ LastTells(batch, f) /\ Mentions(batch', f) => LastTells(batch', f)
          /\ LastTells(batch, f) /\ ~Mentions(batch', f) => e.path = f /\ e.kind = "Modified"
      BY <1>1, <1>2, TailTells DEF e
    <2>3. e.path = f /\ e.kind = "Modified" => Written(f)' /\ Current(f)'
      BY <1>1, <1>3, <1>6, <1>8 DEF Written, Current
    <2>4. e.path # f => (Written(f)' <=> Written(f)) /\ (Current(f) => Current(f)')
      BY <1>1, <1>3, <1>6 DEF Written, Current
    <2>5. /\ Mentions(queue, f)' <=> Mentions(queue, f)
          /\ LastTells(queue, f)' <=> LastTells(queue, f)
          /\ Mentions(pending, f)' <=> Mentions(pending, f)
          /\ LastTells(pending, f)' <=> LastTells(pending, f)
          /\ Mentions(batch, f)' <=> Mentions(batch', f)
          /\ LastTells(batch, f)' <=> LastTells(batch', f)
      BY <1>1 DEF Mentions, LastTells
    <2> QED
      BY <1>1, <2>1, <2>2, <2>3, <2>4, <2>5 DEF Told
  <1>11. EditsTold'
    BY <1>1, <1>10 DEF EditsTold
  <1> QED
    BY <1>1, <1>7, <1>9, <1>11 DEF TempWhole, Emptied

\* A batch that fails makes its files unlucky, those read and those still to read.
LEMMA FailPreserves ==
    ASSUME WatchInv, pc \in {"read", "write", "rename", "copy"}, Fail,
           UNCHANGED <<copies, disk, queue, pending, output>>
    PROVE  WatchInv'
  <1> USE DEF WatchInv
  <1>1. /\ pc' = "idle" /\ batch' = <<>> /\ got' = <<>> /\ UNCHANGED <<base, compiled>>
        /\ unlucky' = unlucky \cup Batched
    BY DEF Fail
  <1>2. batch \in [1..Len(batch) -> FileEvents] /\ got \in [1..Len(got) -> Files \X Nat]
    BY LenProperties DEF WatchTypes, Configurations
  <1>3. Batched \subseteq Files
    BY <1>2 DEF Batched, FileEvents
  <1>4. WatchTypes'
    BY <1>1, <1>3, EmptySeq DEF WatchTypes, WatchPCs, Configurations
  <1>5. ASSUME NEW f \in Files, disk[f].is = "good" PROVE Told(f)'
    <2>1. Told(f)
      BY <1>5 DEF EditsTold, Running
    <2>2. Mentions(batch, f) \/ Written(f) => f \in unlucky'
      BY <1>1 DEF Mentions, Written, Batched
    <2>3. ~Mentions(batch, f)' /\ ~Written(f)'
      BY <1>1 DEF Mentions, Written
    <2>4. f \in unlucky => f \in unlucky'
      BY <1>1
    <2>5. /\ Mentions(queue, f)' <=> Mentions(queue, f)
          /\ LastTells(queue, f)' <=> LastTells(queue, f)
          /\ Mentions(pending, f)' <=> Mentions(pending, f)
          /\ LastTells(pending, f)' <=> LastTells(pending, f)
      BY DEF Mentions, LastTells
    <2> QED
      BY <1>1, <2>1, <2>2, <2>3, <2>4, <2>5 DEF Told
  <1>6. EditsTold'
    BY <1>5 DEF EditsTold
  <1> QED
    BY <1>1, <1>4, <1>6 DEF TempWhole, Emptied, OncePerPath

LEMMA ReadNextPreserves ==
    ASSUME WatchInv, ReadNext
    PROVE  WatchInv'
  <1>1. CASE Head(batch).kind = "Modified" /\ disk[Head(batch).path].is # "good"
    <2>1. Fail /\ pc = "read" /\ UNCHANGED <<copies, disk, queue, pending, output>>
      BY <1>1 DEF ReadNext, loopVars, fileVars
    <2> QED
      BY <2>1, FailPreserves
  <1>2. CASE ~(Head(batch).kind = "Modified" /\ disk[Head(batch).path].is # "good")
    BY <1>2, ReadPreserves DEF ReadNext
  <1> QED
    BY <1>1, <1>2

\* What is written is a configuration, and what was read of a file is written of it.
LEMMA ResultIsConfiguration ==
    ASSUME WatchTypes
    PROVE  Result \in Configurations
  BY ConcatProperties DEF WatchTypes, Configurations, Result
LEMMA CommitPreserves ==
    ASSUME WatchInv, Rename \/ Copy
    PROVE  WatchInv'
  <1> USE DEF WatchInv
  <1>1. /\ pc \in {"rename", "copy"} /\ output' = temp /\ Commit
        /\ UNCHANGED <<copies, disk, queue, pending, base>>
    BY DEF Rename, Copy, loopVars, Commit
  <1>2. /\ pc' = "reload" /\ batch' = <<>> /\ got' = <<>> /\ batch = <<>>
        /\ \A f \in Files : compiled'[f] = IF Written(f) THEN got[CHOOSE n \in DOMAIN got : got[n][1] = f][2]
                                                         ELSE compiled[f]
        /\ unlucky' = {f \in unlucky : ~Written(f)}
    BY <1>1 DEF Commit, Emptied
  <1>3. output' \in Configurations
    BY <1>1, ResultIsConfiguration DEF TempWhole
  <1>4. compiled' \in [Files -> Int]
    <2> SUFFICES ASSUME NEW f \in Files
                 PROVE  (IF Written(f) THEN got[CHOOSE n \in DOMAIN got : got[n][1] = f][2]
                                       ELSE compiled[f]) \in Int
      BY <1>1 DEF Commit
    <2>1. CASE Written(f)
      <3>1. PICK n \in DOMAIN got : n = CHOOSE m \in DOMAIN got : got[m][1] = f
        BY <2>1 DEF Written
      <3>2. got[n] \in Files \X Nat
        BY LenProperties DEF WatchTypes, Configurations
      <3> QED
        BY <2>1, <3>1, <3>2
    <2>2. CASE ~Written(f)
      BY <2>2 DEF WatchTypes
    <2> QED
      BY <2>1, <2>2
  <1>5. WatchTypes'
    BY <1>1, <1>2, <1>3, <1>4, EmptySeq DEF WatchTypes, WatchPCs, Configurations
  <1>6. ASSUME NEW f \in Files, disk[f].is = "good" PROVE Told(f)'
    <2>1. Told(f) /\ ~Mentions(batch, f)
      BY <1>1, <1>2, <1>6 DEF EditsTold, Running, Mentions
    <2>2. ASSUME Written(f), Current(f) PROVE compiled'[f] = disk[f].ver
      <3>1. PICK n \in DOMAIN got : got[n][1] = f /\ n = CHOOSE m \in DOMAIN got : got[m][1] = f
        BY <2>2 DEF Written
      <3> QED
        BY <1>2, <2>2, <3>1 DEF Current
    <2>3. ~Written(f) => compiled'[f] = compiled[f] /\ (f \in unlucky' <=> f \in unlucky)
      BY <1>2
    <2>4. ~Mentions(batch, f)' /\ ~Written(f)'
      BY <1>2 DEF Mentions, Written
    <2>5. /\ Mentions(queue, f)' <=> Mentions(queue, f)
          /\ LastTells(queue, f)' <=> LastTells(queue, f)
          /\ Mentions(pending, f)' <=> Mentions(pending, f)
          /\ LastTells(pending, f)' <=> LastTells(pending, f)
      BY <1>1 DEF Mentions, LastTells
    <2> QED
      BY <1>1, <2>1, <2>2, <2>3, <2>4, <2>5 DEF Told
  <1>7. EditsTold'
    BY <1>1, <1>6 DEF EditsTold
  <1> QED
    BY <1>2, <1>5, <1>7 DEF TempWhole, Emptied, OncePerPath

LEMMA ErrorsPreserve ==
    ASSUME WatchInv, Errors
    PROVE  WatchInv'
  <1>1. CASE WriteFails \/ CopyFails \/ (RenameFails /\ ~copies)
    <2>1. /\ Fail /\ pc \in {"read", "write", "rename", "copy"}
          /\ UNCHANGED <<copies, disk, queue, pending, output>>
      BY <1>1 DEF WriteFails, CopyFails, RenameFails, loopVars, fileVars
    <2> QED
      BY <2>1, FailPreserves
  <1>2. CASE RenameFails /\ copies
    <2> USE DEF WatchInv
    <2>1. /\ pc = "rename" /\ pc' = "copy" /\ output' = Half
          /\ UNCHANGED <<copies, disk, queue, pending, batch, got, base, temp, compiled, unlucky>>
      BY <1>2 DEF RenameFails, loopVars, runVars
    <2>2. WatchTypes'
      BY <2>1 DEF WatchTypes, WatchPCs
    <2>3. TempWhole'
      BY <2>1 DEF TempWhole, Result
    <2>4. EditsTold'
      BY <2>1, ToldKept DEF Running
    <2>5. Emptied' /\ OncePerPath'
      BY <2>1 DEF Emptied, OncePerPath
    <2> QED
      BY <2>2, <2>3, <2>4, <2>5
  <1> QED
    BY <1>1, <1>2 DEF Errors

LEMMA WatchStepPreserves == WatchInv /\ [Next]_vars => WatchInv'
  <1> SUFFICES ASSUME WatchInv, [Next]_vars PROVE WatchInv'
    OBVIOUS
  <1>1. CASE Env
    BY <1>1, EditPreserves, EndPreserves DEF Env
  <1>2. CASE Start
    BY <1>2, StartPreserves
  <1>3. CASE Loop
    BY <1>3, QuietPreserves, ScanPreserves, ReceivePreserves, TimeoutPreserves, ReadNextPreserves
    DEF Loop
  <1>4. CASE Write
    BY <1>4, QuietPreserves, CommitPreserves DEF Write
  <1>5. CASE Errors
    BY <1>5, ErrorsPreserve
  <1>6. CASE UNCHANGED vars
    <2> USE DEF WatchInv
    <2>1. UNCHANGED <<copies, disk, queue, pending, pc, batch, got, base, temp, output, compiled, unlucky>>
      BY <1>6 DEF vars
    <2>2. WatchTypes' /\ TempWhole' /\ Emptied' /\ OncePerPath'
      BY <2>1 DEF WatchTypes, TempWhole, Result, Emptied, OncePerPath
    <2>3. EditsTold'
      BY <2>1, ToldKept DEF Running
    <2> QED
      BY <2>2, <2>3
  <1> QED
    BY <1>1, <1>2, <1>3, <1>4, <1>5, <1>6 DEF Next, Stopped

\* The invariant holds in every state of every behaviour.
LEMMA WatchInvariance == Spec => []WatchInv
  <1>1. Init => WatchInv
    BY WatchStarts
  <1>2. WatchInv /\ [Next]_vars => WatchInv'
    BY WatchStepPreserves
  <1> QED
    BY <1>1, <1>2, PTL DEF Spec

\* For any files, edits, errors, crashes and restarts: when the watcher has nothing left to
\* do, each file that parses was last compiled as it is now, but for those whose batch
\* failed and those a scan does not see.  (run_with_callback, flush_events)
THEOREM NoEditIsMissed == Spec => []NoEditMissed
  <1>1. WatchInv => NoEditMissed
    <2> SUFFICES ASSUME WatchInv, Settled, NEW f \in Files,
                        disk[f].is = "good", f \notin unlucky, ~(f \in Skipped /\ compiled[f] = -1)
                 PROVE  compiled[f] = disk[f].ver
      BY DEF NoEditMissed
    <2>1. pc = "idle" /\ queue = <<>> /\ pending = <<>> /\ batch = <<>> /\ got = <<>>
      BY DEF Settled, WatchInv, Emptied
    <2>2. Told(f)
      BY <2>1 DEF WatchInv, EditsTold, Running
    <2> QED
      BY <2>1, <2>2 DEF Told, Mentions, Written
  <1> QED
    BY <1>1, WatchInvariance, PTL

------------------------------------------------------------------------------
(* The refinement: a write is under way from OpenTemp to its end. *)

LEMMA ResultIsSomething ==
    ASSUME WatchTypes
    PROVE  Result \in Configurations /\ Result # NoTemp
  <1>1. Result \in Configurations
    BY ResultIsConfiguration
  <1>2. NoTemp \notin Configurations
    <2> SUFFICES ASSUME NoTemp \in Configurations PROVE FALSE
      OBVIOUS
    <2>1. NoTemp[1] = <<"none", 0>> /\ 1 \in 1..Len(NoTemp)
      BY DEF NoTemp
    <2>2. NoTemp[1] \in Files \X Nat
      BY <2>1, ElementOfSeq DEF Configurations
    <2> QED
      BY <2>1, <2>2, WatchAssumption
  <1> QED
    BY <1>1, <1>2

LEMMA WatchStartRefines == Init => Out!Init
  BY EmptySeq DEF Init, Out!Init, Configurations

\* Which step of OutputFile a step of the watch mode is, or that it is none.
LEMMA WatchStepRefines ==
    ASSUME WatchInv, [Next]_vars
    PROVE  [Out!Next]_Out!fileVars
  <1>1. Result \in Seq(Files \X Nat) /\ Result # NoTemp
    BY ResultIsSomething DEF WatchInv, Configurations
  <1>2. CASE OpenTemp
    <2>1. Out!Begin
      BY <1>1, <1>2 DEF OpenTemp, Out!Begin, Result, runVars
    <2> QED
      BY <2>1 DEF Out!Next
  <1>3. CASE Rename \/ Copy
    <2>1. temp = Result /\ pc \in {"rename", "copy"} /\ pc' = "reload" /\ output' = temp /\ UNCHANGED copies
      BY <1>3 DEF WatchInv, TempWhole, Rename, Copy, Commit
    <2>2. Out!Commit
      BY <1>1, <2>1 DEF Out!Commit
    <2> QED
      BY <2>2 DEF Out!Next
  <1>4. CASE WriteFails \/ CopyFails \/ (RenameFails /\ ~copies)
    <2>1. pc \in {"write", "rename", "copy"} /\ pc' = "idle" /\ UNCHANGED <<output, copies>>
      BY <1>4 DEF WriteFails, CopyFails, RenameFails, Fail
    <2>2. Out!GiveUp
      BY <1>1, <2>1 DEF Out!GiveUp
    <2> QED
      BY <2>2 DEF Out!Next
  <1>5. CASE RenameFails /\ copies
    <2>1. pc = "rename" /\ pc' = "copy" /\ output' = Half /\ UNCHANGED <<copies, base, got>>
      BY <1>5 DEF RenameFails, runVars
    <2>2. Out!Tear
      BY <1>1, <1>5, <2>1 DEF Out!Tear, Result
    <2> QED
      BY <2>2 DEF Out!Next
  <1>6. CASE Crash
    <2>1. pc' = "stopped" /\ UNCHANGED <<output, copies>>
      BY <1>6 DEF Crash
    <2>2. CASE pc \in {"write", "rename", "copy"}
      <3>1. Out!GiveUp
        BY <1>1, <2>1, <2>2 DEF Out!GiveUp
      <3> QED
        BY <3>1 DEF Out!Next
    <2>3. CASE pc \notin {"write", "rename", "copy"}
      BY <2>1, <2>3 DEF Out!fileVars
    <2> QED
      BY <2>2, <2>3
  <1>7. CASE WriteTemp
    BY <1>7 DEF WriteTemp, runVars, Result, Out!fileVars
  <1>8. CASE \/ Exit \/ Start \/ Scan \/ Receive \/ Timeout \/ ReadNext \/ Reload
    <2>1. pc \notin {"write", "rename", "copy"} /\ pc' \notin {"write", "rename", "copy"}
          /\ UNCHANGED <<output, copies>>
      BY <1>8 DEF Exit, Start, Scan, Receive, Timeout, ReadNext, Reload, Fail, Flush, fileVars
    <2> QED
      BY <2>1 DEF Out!fileVars
  <1>9. CASE Tick \/ (\E f \in Files, k \in {"good", "bad", "absent"} : Edit(f, k)) \/ UNCHANGED vars
    <2>1. UNCHANGED <<pc, base, got, output, copies>>
      BY <1>9 DEF Tick, Edit, vars, runVars, fileVars
    <2> QED
      BY <2>1 DEF Out!fileVars, Result
  <1> QED
    BY <1>2, <1>3, <1>4, <1>5, <1>6, <1>7, <1>8, <1>9
    DEF Next, Env, Loop, Write, Errors, Stopped

\* For any files, edits, errors, crashes and restarts, the configuration file is replaced
\* whole or not at all, except where a failed rename is followed by a copy: WatchMode
\* implements OutputFile.  (atomic_write)
THEOREM FileStaysWhole == Spec => WholeFile
  <1>1. Init => Out!Init
    BY WatchStartRefines
  <1>2. WatchInv /\ [Next]_vars => [Out!Next]_Out!fileVars
    BY WatchStepRefines
  <1> QED
    BY <1>1, <1>2, WatchInvariance, PTL DEF Spec, WholeFile, Out!Spec

-----------------------------------------------------------------------------
(* Orders and sums. *)

\* A set of natural numbers that is not empty has a least one.
LEMMA LeastNumber ==
  ASSUME NEW T \in SUBSET Nat, T # {}
  PROVE  \E t \in T : \A n \in T : t <= n
  <1>1. PICK t \in T : \A n \in T : ~(<<n, t>> \in OpToRel(<, Nat))
    BY NatLessThanWellFounded, WFMin, Zenon
  <1>2. T \subseteq Nat /\ t \in Nat
    OBVIOUS
  <1>3. ASSUME NEW n \in T PROVE t <= n
    <2>1. n \in Nat /\ <<n, t>> \in Nat \X Nat
      BY <1>2
    <2>2. ~(<<n, t>>[1] < <<n, t>>[2])
      BY <1>1, <2>1, Zenon DEF OpToRel
    <2>3. ~(n < t)
      BY <2>2
    <2> QED
      BY <1>2, <2>1, <2>3
  <1> QED
    BY <1>3

StrictOrder(S, R) ==
  /\ \A x \in S : <<x, x>> \notin R
  /\ \A x, y \in S : x = y \/ <<x, y>> \in R \/ <<y, x>> \in R
  /\ \A x, y, z \in S : <<x, y>> \in R /\ <<y, z>> \in R => <<x, z>> \in R

\* The elements of a finite set along a strict order: each has its place, and the order holds.
LEMMA AlongProperties ==
  ASSUME NEW S, IsFiniteSet(S), NEW R, StrictOrder(S, R)
  PROVE  /\ Cardinality(S) \in Nat
         /\ Along(S, R) \in [1..Cardinality(S) -> S]
         /\ \A x \in S : \E k \in 1..Cardinality(S) : Along(S, R)[k] = x
         /\ \A i, j \in 1..Cardinality(S) : i < j => <<Along(S, R)[i], Along(S, R)[j]>> \in R
  <1> DEFINE upto(x) == {y \in S : <<y, x>> \in R \/ y = x}
             place(x) == Cardinality(upto(x))
             n == Cardinality(S)
             at(k) == CHOOSE x \in S : place(x) = k
  <1>1. n \in Nat
    BY FS_CardinalityType
  <1>2. ASSUME NEW x \in S PROVE IsFiniteSet(upto(x)) /\ place(x) \in 1..n
    <2>1. upto(x) \in SUBSET S /\ x \in upto(x)
      OBVIOUS
    <2> HIDE DEF upto
    <2>2. IsFiniteSet(upto(x)) /\ place(x) \in Nat /\ place(x) <= n
      BY <2>1, FS_Subset, FS_CardinalityType
    <2> HIDE DEF n
    <2>3. place(x) # 0
      BY <2>1, <2>2, FS_EmptySet
    <2> QED
      BY <1>1, <2>2, <2>3
  <1>3. ASSUME NEW x \in S, NEW y \in S, <<x, y>> \in R PROVE place(x) < place(y)
    <2>1. upto(x) \subseteq upto(y) /\ y \in upto(y) /\ y \notin upto(x)
      BY <1>3 DEF StrictOrder
    <2>2. IsFiniteSet(upto(y))
      BY <1>2
    <2>3. place(x) \in 1..n /\ place(y) \in 1..n
      BY <1>2
    <2> HIDE DEF upto, n
    <2>4. place(x) <= place(y) /\ (place(x) = place(y) => upto(x) = upto(y))
      BY <2>1, <2>2, FS_Subset
    <2> QED
      BY <1>1, <2>1, <2>3, <2>4
  <1>4. \A x, y \in S : place(x) = place(y) => x = y
    <2> SUFFICES ASSUME NEW x \in S, NEW y \in S, place(x) = place(y), x # y PROVE FALSE
      OBVIOUS
    <2>1. place(x) \in 1..n /\ place(y) \in 1..n
      BY <1>2
    <2>2. <<x, y>> \in R \/ <<y, x>> \in R
      BY DEF StrictOrder
    <2>3. place(x) < place(y) \/ place(y) < place(x)
      BY <1>3, <2>2
    <2> HIDE DEF place, n
    <2> QED
      BY <1>1, <2>1, <2>3
  <1>5. \A k \in 1..n : \E x \in S : place(x) = k
    <2> DEFINE f == [x \in S |-> place(x)]
    <2>1. f \in Injection(S, 1..n)
      <3>1. f \in [S -> 1..n]
        BY <1>2
      <3>2. \A x, y \in S : f[x] = f[y] => x = y
        BY <1>4
      <3> HIDE DEF f, n
      <3> QED
        BY <3>1, <3>2 DEF Injection, IsInjective
    <2>2. IsFiniteSet(1..n) /\ Cardinality(1..n) = n
      BY <1>1, FS_Interval
    <2>3. f \in Surjection(S, 1..n)
      BY <2>1, <2>2, FS_Injection
    <2> QED
      BY <2>3 DEF Surjection
  <1>6. \A k \in 1..n : at(k) \in S /\ place(at(k)) = k
    BY <1>5
  <1>7. Along(S, R) = [k \in 1..n |-> at(k)]
    BY DEF Along
  <1> HIDE DEF place, n, at
  <1>8. \A x \in S : at(place(x)) = x
    BY <1>2, <1>4, <1>6
  <1>9. ASSUME NEW i \in 1..n, NEW j \in 1..n, i < j PROVE <<at(i), at(j)>> \in R
    <2>1. at(i) \in S /\ at(j) \in S /\ place(at(i)) = i /\ place(at(j)) = j
      BY <1>6
    <2>2. ~(<<at(j), at(i)>> \in R) /\ at(i) # at(j)
      BY <1>1, <1>3, <1>9, <2>1
    <2> QED
      BY <2>1, <2>2 DEF StrictOrder
  <1>10. \A x \in S : \E k \in 1..n : Along(S, R)[k] = x
    BY <1>2, <1>7, <1>8
  <1>11. Along(S, R) \in [1..n -> S]
    BY <1>6, <1>7
  <1>12. \A i, j \in 1..n : i < j => <<Along(S, R)[i], Along(S, R)[j]>> \in R
    BY <1>7, <1>9
  <1> QED
    BY <1>1, <1>10, <1>11, <1>12 DEF n

\* Sorting keeps the length of a list of numbers.
LEMMA AscendingType ==
  ASSUME NEW s \in Seq(Int)
  PROVE  Ascending(s) \in Seq(Int) /\ Len(Ascending(s)) = Len(s)
  <1> DEFINE D == DOMAIN s
             R == {p \in D \X D : s[p[1]] < s[p[2]] \/ (s[p[1]] = s[p[2]] /\ p[1] < p[2])}
             order == Along(D, R)
  <1>1. D = 1..Len(s) /\ Len(s) \in Nat /\ \A i \in D : s[i] \in Int /\ i \in Int
    OBVIOUS
  <1>2. IsFiniteSet(D) /\ Cardinality(D) = Len(s)
    <2> DEFINE n == Len(s)
    <2>1. n \in Nat
      BY <1>1
    <2> HIDE DEF n
    <2>2. 1 \in Int /\ n \in Int /\ (~(1 > n) => n - 1 + 1 = n) /\ (1 > n => n = 0)
      BY <2>1
    <2>3. IsFiniteSet(1..n) /\ Cardinality(1..n) = IF 1 > n THEN 0 ELSE n - 1 + 1
      BY <2>2, FS_Interval
    <2>4. IsFiniteSet(1..n) /\ Cardinality(1..n) = n
      BY <2>2, <2>3
    <2> QED
      BY <1>1, <2>4 DEF n
  <1>3. StrictOrder(D, R)
    <2>1. \A x, y \in D : <<x, y>> \in R <=> s[x] < s[y] \/ (s[x] = s[y] /\ x < y)
      OBVIOUS
    <2>2. \A x \in D : s[x] \in Int /\ x \in Int
      BY <1>1
    <2> HIDE DEF D, R
    <2>3. \A x \in D : <<x, x>> \notin R
      BY <2>1, <2>2
    <2>4. ASSUME NEW x \in D, NEW y \in D PROVE x = y \/ <<x, y>> \in R \/ <<y, x>> \in R
      <3>1. s[x] \in Int /\ s[y] \in Int /\ x \in Int /\ y \in Int
        BY <2>2
      <3>2. \/ x = y
            \/ s[x] < s[y] \/ (s[x] = s[y] /\ x < y)
            \/ s[y] < s[x] \/ (s[y] = s[x] /\ y < x)
        BY <3>1
      <3>3. /\ <<x, y>> \in R <=> s[x] < s[y] \/ (s[x] = s[y] /\ x < y)
            /\ <<y, x>> \in R <=> s[y] < s[x] \/ (s[y] = s[x] /\ y < x)
        BY <2>1, Zenon
      <3> QED
        BY <3>2, <3>3, Zenon
    <2>5. ASSUME NEW x \in D, NEW y \in D, NEW z \in D, <<x, y>> \in R, <<y, z>> \in R
          PROVE  <<x, z>> \in R
      <3>1. s[x] \in Int /\ s[y] \in Int /\ s[z] \in Int /\ x \in Int /\ y \in Int /\ z \in Int
        BY <2>2
      <3>2. s[x] < s[y] \/ (s[x] = s[y] /\ x < y)
        BY <2>1, <2>5
      <3>3. s[y] < s[z] \/ (s[y] = s[z] /\ y < z)
        BY <2>1, <2>5
      <3>4. s[x] < s[z] \/ (s[x] = s[z] /\ x < z)
        BY <3>1, <3>2, <3>3
      <3> QED
        BY <2>1, <3>4
    <2> QED
      BY <2>3, <2>4, <2>5 DEF StrictOrder
  <1>4. Ascending(s) = [k \in DOMAIN order |-> s[order[k]]]
    BY DEF Ascending, SortedBy
  <1> HIDE DEF D, R
  <1>5. order \in [1..Len(s) -> D]
    BY <1>2, <1>3, AlongProperties
  <1>6. Ascending(s) \in [1..Len(s) -> Int]
    BY <1>1, <1>4, <1>5
  <1> QED
    BY <1>1, <1>6, SeqDef

\* The sum of a list stays in a set of numbers that is closed under addition.
LEMMA TotalType ==
  ASSUME NEW T \in SUBSET Int, 0 \in T, \A a, b \in T : a + b \in T, NEW s \in Seq(T)
  PROVE  Total(s) \in T
  <1> DEFINE n == Len(s)
             Sums(k, g) == g = [i \in 0..k |-> IF i = 0 THEN 0 ELSE g[i - 1] + s[i]]
             Short(k) == \E g : Sums(k, g)
  <1>1. n \in Nat /\ \A i \in 1..n : s[i] \in T
    OBVIOUS
  <1> HIDE DEF n
  <1>2. Short(0)
    <2>1. Sums(0, [i \in 0..0 |-> 0])
      OBVIOUS
    <2> QED
      BY <2>1
  <1>3. ASSUME NEW k \in 1..n, Short(k - 1) PROVE Short(k)
    <2>1. PICK g : Sums(k - 1, g)
      BY <1>3
    <2> DEFINE h == [i \in 0..k |-> IF i = k THEN g[k - 1] + s[k] ELSE g[i]]
    <2>2. k \in Nat /\ k - 1 \in Nat /\ DOMAIN g = 0..(k - 1)
      BY <1>1, <2>1
    <2>3. ASSUME NEW i \in 0..k PROVE h[i] = IF i = 0 THEN 0 ELSE h[i - 1] + s[i]
      <3>1. CASE i = k
        <4>1. h[i] = g[k - 1] + s[k] /\ h[i - 1] = g[k - 1] /\ i # 0
          BY <1>1, <3>1
        <4> QED
          BY <3>1, <4>1
      <3>2. CASE i # k
        <4>1. i \in 0..(k - 1) /\ h[i] = g[i]
          BY <1>1, <3>2
        <4>2. g[i] = IF i = 0 THEN 0 ELSE g[i - 1] + s[i]
          BY <2>1, <4>1
        <4>3. i # 0 => h[i - 1] = g[i - 1]
          BY <1>1, <4>1
        <4> QED
          BY <4>1, <4>2, <4>3
      <3> QED
        BY <3>1, <3>2
    <2>4. Sums(k, h)
      <3>1. h = [i \in 0..k |-> h[i]]
        OBVIOUS
      <3> HIDE DEF h
      <3> QED
        BY <2>3, <3>1
    <2> QED
      BY <2>4
  <1>4. Short(n)
    <2> DEFINE bad == {k \in 0..n : ~Short(k)}
    <2>1. bad \in SUBSET Nat /\ \A k \in bad : k \in 0..n
      BY <1>1
    <2>2. ASSUME bad # {} PROVE FALSE
      <3>1. PICK k \in bad : \A j \in bad : k <= j
        BY <2>1, <2>2, LeastNumber
      <3>2. k \in 0..n /\ ~Short(k)
        OBVIOUS
      <3>3. k # 0
        BY <1>2, <3>2
      <3>4. k \in 1..n /\ k - 1 \in 0..n /\ ~(k <= k - 1)
        BY <1>1, <3>2, <3>3
      <3>5. Short(k - 1)
        BY <3>1, <3>4
      <3> QED
        BY <1>3, <3>2, <3>4, <3>5
    <2>3. n \in 0..n
      BY <1>1
    <2> HIDE DEF Short
    <2> QED
      BY <2>2, <2>3
  <1> DEFINE f == CHOOSE g : Sums(n, g)
  <1>5. Sums(n, f)
    BY <1>4, Zenon
  <1>6. Total(s) = f[n]
    BY Zenon DEF Total, n
  <1> HIDE DEF f
  <1>7. \A i \in 0..n : f[i] = IF i = 0 THEN 0 ELSE f[i - 1] + s[i]
    BY <1>5
  <1>8. f[n] \in T
    <2> DEFINE bad == {k \in 0..n : f[k] \notin T}
    <2>1. bad \in SUBSET Nat
      BY <1>1
    <2>2. ASSUME bad # {} PROVE FALSE
      <3>1. PICK k \in bad : \A j \in bad : k <= j
        BY <2>1, <2>2, LeastNumber
      <3>2. k \in 0..n /\ f[k] \notin T
        OBVIOUS
      <3>3. k # 0
        BY <1>1, <1>7, <3>2
      <3>4. k \in 1..n /\ k - 1 \in 0..n /\ ~(k <= k - 1)
        BY <1>1, <3>2, <3>3
      <3>5. f[k - 1] \in T
        BY <3>1, <3>4
      <3>6. f[k] = f[k - 1] + s[k] /\ s[k] \in T
        BY <1>1, <1>7, <3>4
      <3> HIDE DEF bad
      <3> QED
        BY <3>2, <3>5, <3>6
    <2> QED
      BY <1>1, <2>2
  <1> QED
    BY <1>6, <1>8

-----------------------------------------------------------------------------
(* The statistics of a window. *)

Records == [ms : Nat \cup {NoNumber}, ok : BOOLEAN]

\* A set of two integers has its smaller and its larger one.
LEMMA TwoNumbers ==
  ASSUME NEW a \in Int, NEW b \in Int
  PROVE  /\ Min({a, b}) = IF a <= b THEN a ELSE b
         /\ Max({a, b}) = IF a >= b THEN a ELSE b
  BY DEF Min, Max

LEMMA WithZero ==
  ASSUME NEW a \in Int
  PROVE  Max({a, 0}) \in Nat /\ Max({a, 0}) = IF a >= 0 THEN a ELSE 0
  <1> DEFINE zero == 0
  <1>1. zero \in Int /\ zero = 0
    OBVIOUS
  <1> HIDE DEF zero
  <1>2. Max({a, zero}) = IF a >= zero THEN a ELSE zero
    BY <1>1, TwoNumbers
  <1>3. Max({a, 0}) = IF a >= 0 THEN a ELSE 0
    BY <1>1, <1>2
  <1> QED
    BY <1>3

\* A natural number has an integer root.
LEMMA RootType ==
  ASSUME NEW v \in Nat
  PROVE  Root(v) \in Nat
  <1> DEFINE over == {r \in Nat : (r + 1) * (r + 1) > v}
  <1>1. v \in over
    <2>1. (v + 1) * (v + 1) = v * v + 2 * v + 1 /\ v * v \in Nat
      OBVIOUS
    <2> QED
      BY <2>1
  <1>2. over \in SUBSET Nat /\ over # {}
    BY <1>1
  <1> HIDE DEF over
  <1>3. PICK r \in over : \A k \in over : r <= k
    BY <1>2, LeastNumber
  <1>4. r \in 0..v /\ (r + 1) * (r + 1) > v
    BY <1>1, <1>2, <1>3 DEF over
  <1>5. r * r <= v
    <2>1. CASE r = 0
      BY <2>1
    <2>2. CASE r # 0
      <3>1. r - 1 \in Nat /\ ~(r <= r - 1)
        BY <1>4, <2>2
      <3>2. r - 1 \notin over
        BY <1>3, <3>1
      <3>3. ~((r - 1 + 1) * (r - 1 + 1) > v)
        BY <3>1, <3>2 DEF over
      <3>4. r - 1 + 1 = r /\ r * r \in Int
        BY <1>4
      <3> QED
        BY <3>3, <3>4
    <2> QED
      BY <2>1, <2>2
  <1>6. \E k \in 0..v : k * k <= v /\ (k + 1) * (k + 1) > v
    BY <1>4, <1>5
  <1>7. Root(v) \in 0..v
    BY <1>6, Zenon DEF Root
  <1> QED
    BY <1>7

\* A quotient of natural numbers.
LEMMA Quotient ==
  ASSUME NEW a \in Nat, NEW b \in Nat, b # 0
  PROVE  a \div b \in Nat
  OBVIOUS

LEMMA SuccessesType ==
  ASSUME NEW recs \in Seq(Records)
  PROVE  /\ Successes(recs) \in Seq(Records)
         /\ Range(Successes(recs)) = {r \in Range(recs) : r.ok}
         /\ Latencies(recs) \in Seq(Int)
         /\ Len(Latencies(recs)) = Len(Successes(recs))
  <1> DEFINE S == {r \in Range(recs) : ~r.ok}
             ok == Successes(recs)
             times == [i \in DOMAIN ok |-> ok[i].ms]
  <1>1. ok \in Seq(Records) /\ Range(ok) = Range(recs) \ S
    BY RetainedProperties DEF Successes
  <1>2. \A r \in Range(recs) : r \in Records
    BY DEF Range
  <1>3. times \in Seq(Int) /\ Len(times) = Len(ok)
    <2> HIDE DEF ok
    <2>1. DOMAIN ok = 1..Len(ok) /\ Len(ok) \in Nat /\ \A i \in 1..Len(ok) : ok[i] \in Records
      BY <1>1
    <2>2. \A i \in 1..Len(ok) : ok[i].ms \in Int
      BY <2>1 DEF Records, NoNumber
    <2>3. times \in [1..Len(ok) -> Int]
      BY <2>1, <2>2
    <2> QED
      BY <2>1, <2>3, SeqDef
  <1>4. Latencies(recs) = Ascending(times)
    BY DEF Latencies
  <1> HIDE DEF times, ok
  <1>5. Latencies(recs) \in Seq(Int) /\ Len(Latencies(recs)) = Len(ok)
    BY <1>3, <1>4, AscendingType
  <1> QED
    BY <1>1, <1>2, <1>5 DEF ok, Records

LEMMA P90Type ==
  ASSUME NEW s \in Seq(Int)
  PROVE  P90(s) \in Int /\ (s = <<>> => P90(s) = NoNumber)
  <1> DEFINE n == Len(s)
             lo == (9 * (n - 1)) \div 10
             part == (9 * (n - 1)) % 10
  <1>1. n \in Nat /\ \A i \in 1..n : s[i] \in Int
    OBVIOUS
  <1>2. (s = <<>> => n = 0) /\ P90(s) = IF n = 0 THEN NoNumber ELSE s[lo + 1] * (10 - part) + s[Min({lo + 2, n})] * part
    BY DEF P90
  <1> HIDE DEF n
  <1>3. CASE n = 0
    BY <1>2, <1>3 DEF NoNumber
  <1>4. CASE n # 0
    <2>1. lo \in Nat /\ part \in Int /\ lo + 1 \in 1..n /\ lo + 2 \in Int
      BY <1>1, <1>4
    <2> HIDE DEF lo, part
    <2>2. Min({lo + 2, n}) \in 1..n
      BY <1>1, <1>4, <2>1, TwoNumbers
    <2>3. s[lo + 1] \in Int /\ s[Min({lo + 2, n})] \in Int
      BY <1>1, <2>1, <2>2
    <2>4. \A a, b, c, d \in Int : a * b + c * d \in Int
      OBVIOUS
    <2>5. 10 - part \in Int
      BY <2>1
    <2>6. s[lo + 1] * (10 - part) + s[Min({lo + 2, n})] * part \in Int
      BY <2>1, <2>3, <2>4, <2>5
    <2> QED
      BY <1>2, <1>4, <2>6
  <1> QED
    BY <1>3, <1>4

LEMMA SpreadType ==
  ASSUME NEW s \in Seq(Int)
  PROVE  Spread(s) \in Int /\ (s = <<>> => Spread(s) = NoNumber)
  <1> DEFINE n == Len(s)
             sum == Total(s)
             away == [i \in DOMAIN s |-> (n * s[i] - sum) * (n * s[i] - sum)]
             squares == Total(away)
  <1>1. n \in Nat /\ DOMAIN s = 1..n /\ \A i \in 1..n : s[i] \in Int
    OBVIOUS
  <1>2. sum \in Int
    BY TotalType
  <1>3. squares \in Nat
    <2>1. \A x \in Int : x * x \in Nat
      OBVIOUS
    <2> HIDE DEF sum, n
    <2>2. \A i \in 1..n : n * s[i] - sum \in Int
      BY <1>1, <1>2
    <2>3. away \in [1..n -> Nat]
      BY <1>1, <2>1, <2>2
    <2>4. away \in Seq(Nat)
      BY <1>1, <2>3, SeqDef
    <2>5. Nat \in SUBSET Int /\ 0 \in Nat /\ \A a, b \in Nat : a + b \in Nat
      OBVIOUS
    <2> HIDE DEF away
    <2> QED
      BY <2>4, <2>5, TotalType
  <1>4. Spread(s) = IF n = 0 THEN NoNumber ELSE IF n = 1 THEN 0 ELSE Root(squares \div (n * n * (n - 1)))
    BY DEF Spread
  <1>5. s = <<>> => n = 0
    OBVIOUS
  <1> HIDE DEF n, squares
  <1>6. n # 0 /\ n # 1 => Root(squares \div (n * n * (n - 1))) \in Int
    <2> SUFFICES ASSUME n # 0, n # 1 PROVE Root(squares \div (n * n * (n - 1))) \in Int
      OBVIOUS
    <2>1. n * n \in Nat /\ n * n # 0 /\ n - 1 \in Nat /\ n - 1 # 0
      BY <1>1
    <2>2. \A a, b \in Nat : a # 0 /\ b # 0 => a * b \in Nat /\ a * b # 0
      OBVIOUS
    <2>3. n * n * (n - 1) \in Nat /\ n * n * (n - 1) # 0
      BY <2>1, <2>2
    <2>4. squares \div (n * n * (n - 1)) \in Nat
      BY <1>3, <2>3, Quotient
    <2>5. Root(squares \div (n * n * (n - 1))) \in Nat
      BY <2>4, RootType
    <2> QED
      BY <2>5
  <1> QED
    BY <1>4, <1>5, <1>6 DEF NoNumber

\* Statistics are numbers, and those of a window without a success are the worst.
LEMMA StatTypes ==
  ASSUME NEW recs \in Seq(Records), recs # <<>>
  PROVE  /\ SuccessRate(recs) \in Int /\ P90(Latencies(recs)) \in Int /\ Spread(Latencies(recs)) \in Int
         /\ (\A i \in DOMAIN recs : ~recs[i].ok) =>
              SuccessRate(recs) = 0 /\ P90(Latencies(recs)) = NoNumber /\ Spread(Latencies(recs)) = NoNumber
  <1> DEFINE ok == Successes(recs)
             times == Latencies(recs)
  <1>1. /\ ok \in Seq(Records) /\ Range(ok) = {r \in Range(recs) : r.ok}
        /\ times \in Seq(Int) /\ Len(times) = Len(ok)
    BY SuccessesType
  <1>2. Len(recs) \in Nat /\ Len(recs) # 0
    OBVIOUS
  <1>3. SuccessRate(recs) = (1000 * Len(ok)) \div Len(recs)
    BY DEF SuccessRate
  <1> HIDE DEF ok, times
  <1>4. Len(ok) \in Nat
    BY <1>1
  <1>5. 1000 * Len(ok) \in Nat
    BY <1>4
  <1>6. SuccessRate(recs) \in Int
    BY <1>2, <1>3, <1>5, Quotient
  <1>7. P90(times) \in Int /\ Spread(times) \in Int /\ (times = <<>> => P90(times) = NoNumber /\ Spread(times) = NoNumber)
    BY <1>1, P90Type, SpreadType
  <1>8. ASSUME \A i \in DOMAIN recs : ~recs[i].ok PROVE times = <<>> /\ SuccessRate(recs) = 0
    <2>1. Range(ok) = {}
      BY <1>1, <1>8 DEF Range
    <2>2. Len(ok) = 0
      <3>1. DOMAIN ok = 1..Len(ok)
        BY <1>1
      <3>2. \A i \in 1..Len(ok) : ok[i] \in Range(ok)
        BY <3>1 DEF Range
      <3>3. 1 \notin 1..Len(ok)
        BY <2>1, <3>2
      <3> QED
        BY <1>4, <3>3
    <2>3. times = <<>>
      BY <1>1, <2>2
    <2>4. 0 \div Len(recs) = 0
      BY <1>2
    <2> QED
      BY <1>3, <2>2, <2>3, <2>4
  <1> QED
    BY <1>6, <1>7, <1>8 DEF times

-----------------------------------------------------------------------------
(* The score and the interval. *)

SmTypes ==
  /\ records \in [SmNodes -> Seq(Records)]
  /\ rate \in [SmNodes -> Int] /\ p90 \in [SmNodes -> Int] /\ spread \in [SmNodes -> Int]
  /\ age \in [SmNodes -> 0..2] /\ judged \in [SmNodes -> Seq(Records)]

\* Whatever the weights are, a score is a number of 0..100000; without a success it is 0.
LEMMA ScoreRange ==
  ASSUME SmTypes, NEW n \in SmNodes
  PROVE  /\ Score(n) \in Int /\ Score(n) >= 0
         /\ rate[n] = 0 /\ p90[n] = NoNumber /\ spread[n] = NoNumber => Score(n) = 0
  <1> DEFINE w == [k \in DOMAIN Weights |-> Weight(Weights[k])]
             sum == w.latency + w.success + w.stability
             lat == LatencyScore(p90[n])
             sta == StabilityScore(spread[n])
             merit == IF sum = 0 THEN 0
                      ELSE (lat * w.latency + rate[n] * 100 * w.success + sta * w.stability) \div sum
             faded == merit \div Decay[age[n] + 1]
             trusted == (faded * Confidence(records[n])) \div 2
  <1>1. \A a \in Int : Weight(a) \in Nat
    BY WithZero DEF Weight
  <1>2. w.latency \in Nat /\ w.success \in Nat /\ w.stability \in Nat
    <2>1. /\ DOMAIN Weights = {"latency", "success", "stability"}
          /\ \A k \in DOMAIN Weights : Weights[k] \in Int
      BY SmAssumption
    <2>2. \A k \in {"latency", "success", "stability"} : w[k] \in Nat
      BY <1>1, <2>1
    <2> QED
      BY <2>2
  <1>3. rate[n] \in Int /\ p90[n] \in Int /\ spread[n] \in Int /\ age[n] \in 0..2
    BY DEF SmTypes
  <1>4. lat \in Int /\ (p90[n] = NoNumber => lat = 0)
    <2>1. 40000 - (p90[n] - 2000) * 5 \in Int /\ 100000 - (p90[n] - 500) * 40 \in Int
      BY <1>3
    <2> DEFINE far == Max({40000 - (p90[n] - 2000) * 5, 0})
    <2>2. far \in Int
      BY <2>1, WithZero
    <2>3. lat = IF p90[n] = NoNumber THEN 0 ELSE IF p90[n] < 500 THEN 100000
                ELSE IF p90[n] < 2000 THEN 100000 - (p90[n] - 500) * 40 ELSE far
      BY DEF LatencyScore
    <2> HIDE DEF far, lat
    <2> QED
      BY <2>1, <2>2, <2>3
  <1>5. sta \in Int /\ (spread[n] = NoNumber => sta = 0)
    <2>1. 100000 - spread[n] * 500 \in Int
      BY <1>3
    <2> DEFINE steady == Max({100000 - spread[n] * 500, 0})
    <2>2. steady \in Int
      BY <2>1, WithZero
    <2>3. sta = IF spread[n] = NoNumber THEN 0 ELSE steady
      BY DEF StabilityScore
    <2> HIDE DEF steady, sta
    <2> QED
      BY <2>2, <2>3
  <1>6. Score(n) = Min({Max({trusted, 0}), 100000})
    BY DEF Score
  <1> HIDE DEF w, lat, sta
  <1>7. sum \in Nat
    BY <1>2
  <1>8. merit \in Int /\ (rate[n] = 0 /\ lat = 0 /\ sta = 0 => merit = 0)
    <2> HIDE DEF sum
    <2>1. CASE sum = 0
      BY <2>1
    <2>2. CASE sum # 0
      <3>1. \A a, b, c, d, e, f \in Int : a * b + c * 100 * d + e * f \in Int
        OBVIOUS
      <3>2. lat * w.latency + rate[n] * 100 * w.success + sta * w.stability \in Int
        BY <1>2, <1>3, <1>4, <1>5, <3>1
      <3>3. \A a \in Int : a \div sum \in Int
        BY <1>7, <2>2
      <3>4. merit \in Int
        BY <2>2, <3>2, <3>3
      <3>5. ASSUME rate[n] = 0, lat = 0, sta = 0 PROVE merit = 0
        <4>1. \A b, d, f \in Int : 0 * b + 0 * 100 * d + 0 * f = 0
          OBVIOUS
        <4>2. 0 * w.latency + 0 * 100 * w.success + 0 * w.stability = 0
          BY <1>2, <4>1
        <4>3. 0 \div sum = 0
          BY <1>7, <2>2
        <4> QED
          BY <2>2, <3>5, <4>2, <4>3
      <3> QED
        BY <3>4, <3>5
    <2> QED
      BY <2>1, <2>2
  <1> HIDE DEF merit
  <1>9. faded \in Int /\ (merit = 0 => faded = 0)
    <2>1. Decay[age[n] + 1] \in {1, 2, 4}
      BY <1>3 DEF Decay
    <2>2. \A a \in Int : \A d \in {1, 2, 4} : a \div d \in Int /\ 0 \div d = 0
      OBVIOUS
    <2> QED
      BY <1>8, <2>1, <2>2
  <1> HIDE DEF faded
  <1>10. trusted \in Int /\ (faded = 0 => trusted = 0)
    <2>1. Confidence(records[n]) \in {1, 2}
      BY DEF Confidence
    <2> QED
      BY <1>9, <2>1
  <1> HIDE DEF trusted
  <1> DEFINE bounded == Max({trusted, 0})
             most == 100000
  <1>11. bounded \in Nat /\ (trusted = 0 => bounded = 0)
    BY <1>10, WithZero
  <1>12. Score(n) \in Nat /\ (trusted = 0 => Score(n) = 0)
    <2>1. most \in Nat /\ Score(n) = Min({bounded, most})
      BY <1>6
    <2> HIDE DEF bounded, most
    <2>2. Min({bounded, most}) = IF bounded <= most THEN bounded ELSE most
      BY <1>11, <2>1, TwoNumbers
    <2>3. bounded = 0 => bounded <= most
      BY <2>1
    <2> QED
      BY <1>11, <2>1, <2>2, <2>3
  <1> QED
    BY <1>4, <1>5, <1>8, <1>9, <1>10, <1>12

\* A node before another in the ranking.
Before == {p \in SmNodes \X SmNodes :
  Score(p[1]) > Score(p[2]) \/ (Score(p[1]) = Score(p[2]) /\ p[1] < p[2])}

\* There is a best node, and the first of the ranking scores as much.
LEMMA BestIsBest ==
  ASSUME SmTypes
  PROVE  /\ Best \in SmNodes /\ Ranking[1] \in SmNodes
         /\ \A m \in SmNodes : Score(m) <= Score(Best)
         /\ Score(Ranking[1]) = Score(Best)
  <1>1. \A n \in SmNodes : Score(n) \in Int /\ n \in Int
    BY ScoreRange, SmAssumption
  <1>2. IsFiniteSet(SmNodes) /\ SmNodes # {}
    BY SmAssumption
  <1>3. \A n, m \in SmNodes : <<n, m>> \in Before <=> Score(n) > Score(m) \/ (Score(n) = Score(m) /\ n < m)
    BY DEF Before
  <1>4. StrictOrder(SmNodes, Before)
    BY <1>1, <1>3 DEF StrictOrder
  <1>5. Ranking = Along(SmNodes, Before)
    BY DEF Ranking, Before
  <1> DEFINE n == Cardinality(SmNodes)
  <1>6. /\ n \in Nat /\ Ranking \in [1..n -> SmNodes]
        /\ \A x \in SmNodes : \E k \in 1..n : Ranking[k] = x
        /\ \A i, j \in 1..n : i < j => <<Ranking[i], Ranking[j]>> \in Before
    BY <1>2, <1>4, <1>5, AlongProperties
  <1> HIDE DEF n
  <1>7. 1 \in 1..n
    BY <1>2, <1>6
  <1>8. \A m \in SmNodes : Score(Ranking[1]) >= Score(m)
    <2> SUFFICES ASSUME NEW m \in SmNodes PROVE Score(Ranking[1]) >= Score(m)
      OBVIOUS
    <2>1. PICK k \in 1..n : Ranking[k] = m
      BY <1>6
    <2>2. k = 1 \/ 1 < k
      BY <1>6
    <2>3. Ranking[1] = m \/ <<Ranking[1], m>> \in Before
      BY <1>6, <1>7, <2>1, <2>2
    <2>4. Ranking[1] \in SmNodes
      BY <1>6, <1>7
    <2> QED
      BY <1>1, <1>3, <2>3, <2>4
  (* The last of the best: the first along the order that prefers larger numbers among equals. *)
  <1> DEFINE R == {p \in SmNodes \X SmNodes : Score(p[1]) > Score(p[2]) \/ (Score(p[1]) = Score(p[2]) /\ p[1] > p[2])}
             a == Along(SmNodes, R)
  <1>9. \A x, y \in SmNodes : <<x, y>> \in R <=> Score(x) > Score(y) \/ (Score(x) = Score(y) /\ x > y)
    OBVIOUS
  <1> HIDE DEF R
  <1>10. StrictOrder(SmNodes, R)
    BY <1>1, <1>9 DEF StrictOrder
  <1>11. /\ a \in [1..n -> SmNodes]
         /\ \A x \in SmNodes : \E k \in 1..n : a[k] = x
         /\ \A i, j \in 1..n : i < j => <<a[i], a[j]>> \in R
    BY <1>2, <1>10, AlongProperties DEF n
  <1> HIDE DEF a
  <1>12. a[1] \in SmNodes
    BY <1>7, <1>11
  <1>13. \A m \in SmNodes : Score(a[1]) > Score(m) \/ (Score(a[1]) = Score(m) /\ a[1] >= m)
    <2> SUFFICES ASSUME NEW m \in SmNodes
                 PROVE  Score(a[1]) > Score(m) \/ (Score(a[1]) = Score(m) /\ a[1] >= m)
      OBVIOUS
    <2>1. PICK k \in 1..n : a[k] = m
      BY <1>11
    <2>2. k = 1 \/ 1 < k
      BY <1>6
    <2>3. a[1] = m \/ <<a[1], m>> \in R
      BY <1>7, <1>11, <2>1, <2>2
    <2> QED
      BY <1>1, <1>9, <1>12, <2>3
  <1>14. /\ Best \in SmNodes
         /\ \A m \in SmNodes : Score(Best) > Score(m) \/ (Score(Best) = Score(m) /\ Best >= m)
    BY <1>12, <1>13, Zenon DEF Best
  <1>15. Ranking[1] \in SmNodes
    BY <1>6, <1>7
  <1>16. \A m \in SmNodes : Score(m) <= Score(Best)
    BY <1>1, <1>14
  <1>17. Score(Ranking[1]) = Score(Best)
    BY <1>1, <1>8, <1>14, <1>15, <1>16
  <1> QED
    BY <1>14, <1>15, <1>16, <1>17

\* Division by a positive number keeps the order.
LEMMA QuotientOrder ==
  ASSUME NEW a \in Int, NEW b \in Int, NEW d \in Nat, d # 0, a <= b
  PROVE  a \div d <= b \div d
  <1> DEFINE x == a \div d
             y == b \div d
  <1>1. /\ x \in Int /\ a % d \in 0..(d - 1) /\ a = d * x + (a % d)
        /\ y \in Int /\ b % d \in 0..(d - 1) /\ b = d * y + (b % d)
    OBVIOUS
  <1>2. d * x <= b /\ b < d * y + d
    BY <1>1
  <1> HIDE DEF x, y
  <1>3. d * x < d * (y + 1)
    <2>1. d * (y + 1) = d * y + d /\ d * x \in Int /\ d * y \in Int
      BY <1>1
    <2> QED
      BY <1>2, <2>1
  <1>4. x < y + 1
    <2>1. x >= y + 1 => d * x >= d * (y + 1)
      BY <1>1
    <2>2. d * x \in Int /\ d * (y + 1) \in Int
      BY <1>1
    <2> QED
      BY <1>1, <1>3, <2>1, <2>2
  <1> QED
    BY <1>1, <1>4 DEF x, y

\* For a valid configuration the multiplier of a better network is not smaller.
LEMMA MultiplierGrows ==
  ASSUME NEW c \in Schedules, ScheduleErrors(c) = {}, NEW p \in Int, NEW q \in Int, p <= q
  PROVE  Multiplier(c, p) \in Int /\ Multiplier(c, q) \in Int /\ Multiplier(c, p) <= Multiplier(c, q)
  <1> DEFINE d == c.good - c.bad
             line(x) == ((x - c.bad) * 275) \div d
  <1>1. c.good \in Int /\ c.bad \in Int
    BY SmAssumption
  <1>2. ~(c.good <= c.bad)
    BY DEF ScheduleErrors
  <1>3. d \in Nat /\ d # 0 /\ c.good # c.bad
    BY <1>1, <1>2
  <1>4. \A x \in Int : (x - c.bad) * 275 \in Int
    BY <1>1
  <1>5. \A x \in Int : line(x) \in Int
    BY <1>3, <1>4
  <1>6. \A x, y \in Int : x <= y => line(x) <= line(y)
    <2> SUFFICES ASSUME NEW x \in Int, NEW y \in Int, x <= y PROVE line(x) <= line(y)
      OBVIOUS
    <2>1. (x - c.bad) * 275 <= (y - c.bad) * 275
      BY <1>1
    <2> HIDE DEF d
    <2> QED
      BY <1>3, <1>4, <2>1, QuotientOrder
  <1>7. line(c.bad) = 0 /\ line(c.good) = 275
    <2>1. (c.bad - c.bad) * 275 = 0 /\ (c.good - c.bad) * 275 = d * 275
      BY <1>1
    <2>2. 0 \div d = 0 /\ (d * 275) \div d = 275
      BY <1>3
    <2> HIDE DEF d
    <2> QED
      BY <2>1, <2>2
  <1>8. \A x \in Int : Multiplier(c, x) = IF x > c.good THEN 300 ELSE IF x < c.bad THEN 25 ELSE 25 + line(x)
    BY <1>3 DEF Multiplier
  <1> HIDE DEF line
  <1>9. \A x \in Int : ~(x > c.good) /\ ~(x < c.bad) => line(x) >= 0 /\ line(x) <= 275
    BY <1>1, <1>5, <1>6, <1>7
  <1>10. Multiplier(c, p) \in Int /\ Multiplier(c, q) \in Int
    BY <1>5, <1>8
  <1>11. CASE p > c.good
    BY <1>1, <1>8, <1>11
  <1>12. CASE p < c.bad
    BY <1>1, <1>2, <1>5, <1>8, <1>9, <1>12
  <1>13. CASE ~(p > c.good) /\ ~(p < c.bad)
    <2>1. Multiplier(c, p) = 25 + line(p) /\ line(p) <= 275
      BY <1>8, <1>9, <1>13
    <2>2. q > c.good => Multiplier(c, q) = 300
      BY <1>8
    <2>3. ~(q > c.good) => Multiplier(c, q) = 25 + line(q) /\ line(p) <= line(q)
      BY <1>1, <1>6, <1>8, <1>13
    <2> QED
      BY <1>5, <2>1, <2>2, <2>3
  <1> QED
    BY <1>10, <1>11, <1>12, <1>13

\* The interval of a valid adaptive configuration stays inside bounds in order and grows with the quality.
LEMMA IntervalGrows ==
  ASSUME NEW c \in Schedules, ScheduleErrors(c) = {}, c.adaptive, c.min <= c.max,
         NEW p \in Int, NEW q \in Int, p # NoNumber, q # NoNumber, p <= q
  PROVE  NextInterval(c, q) \in c.min..c.max /\ NextInterval(c, p) <= NextInterval(c, q)
  <1> DEFINE wanted(x) == (c.base * Multiplier(c, x)) \div 100
  <1>1. c.base \in Nat /\ c.min \in Int /\ c.max \in Int
    BY SmAssumption
  <1>2. Multiplier(c, p) \in Int /\ Multiplier(c, q) \in Int /\ Multiplier(c, p) <= Multiplier(c, q)
    BY MultiplierGrows
  <1>3. \A a \in Nat : \A x, y \in Int : x <= y => a * x \in Int /\ a * y \in Int /\ a * x <= a * y
    OBVIOUS
  <1>4. /\ c.base * Multiplier(c, p) \in Int /\ c.base * Multiplier(c, q) \in Int
        /\ c.base * Multiplier(c, p) <= c.base * Multiplier(c, q)
    BY <1>1, <1>2, <1>3
  <1>5. wanted(p) \in Int /\ wanted(q) \in Int /\ wanted(p) <= wanted(q)
    BY <1>4, QuotientOrder
  <1>6. NextInterval(c, p) = Clamp(wanted(p), c.min, c.max) /\ NextInterval(c, q) = Clamp(wanted(q), c.min, c.max)
    BY DEF NextInterval
  <1> HIDE DEF wanted
  <1>7. \A v \in Int : Clamp(v, c.min, c.max) = IF v >= c.max THEN c.max ELSE IF v <= c.min THEN c.min ELSE v
    <2> SUFFICES ASSUME NEW v \in Int
                 PROVE  Clamp(v, c.min, c.max) = IF v >= c.max THEN c.max ELSE IF v <= c.min THEN c.min ELSE v
      OBVIOUS
    <2> DEFINE least == Min({v, c.max})
    <2>1. least = IF v <= c.max THEN v ELSE c.max
      BY <1>1, TwoNumbers
    <2>2. Clamp(v, c.min, c.max) = Max({c.min, least})
      BY <1>1 DEF Clamp
    <2> HIDE DEF least
    <2>3. Max({c.min, least}) = IF c.min >= least THEN c.min ELSE least
      BY <1>1, <2>1, TwoNumbers
    <2> QED
      BY <1>1, <2>1, <2>2, <2>3
  <1> QED
    BY <1>1, <1>5, <1>6, <1>7

-----------------------------------------------------------------------------
(* The selector. *)

\* What the last question to next_interval() was answered.
Asked == probe = NoProbe \/ \E c \in Schedules, q \in Qualities : probe = [c |-> c, q |-> q, secs |-> NextInterval(c, q)]
SmInv == SmTypes /\ StatsFollowWindow /\ (best # 0 => best \in SmNodes) /\ DeadNotBest /\ Asked

\* Statistics that are recalculated are those of the new window.
LEMMA Recalculated ==
  ASSUME SmTypes, StatsFollowWindow, NEW n \in SmNodes, NEW recs \in Seq(Records), Len(recs) <= MaxRecords,
         Recalculate(n, recs), Judge(n, recs), records' = [records EXCEPT ![n] = recs], age' \in [SmNodes -> 0..2]
  PROVE  SmTypes' /\ StatsFollowWindow'
  <1>1. records' \in [SmNodes -> Seq(Records)]
    BY DEF SmTypes
  <1>2. /\ rate' \in [SmNodes -> Int] /\ p90' \in [SmNodes -> Int] /\ spread' \in [SmNodes -> Int]
        /\ \A m \in SmNodes : m # n => rate'[m] = rate[m] /\ p90'[m] = p90[m] /\ spread'[m] = spread[m]
        /\ recs # <<>> => /\ rate'[n] = SuccessRate(recs) /\ p90'[n] = P90(Latencies(recs))
                          /\ spread'[n] = Spread(Latencies(recs))
        /\ recs = <<>> => UNCHANGED <<rate, p90, spread>>
    <2>1. CASE recs = <<>>
      BY <2>1 DEF Recalculate, SmTypes
    <2>2. CASE recs # <<>>
      <3> DEFINE s == SuccessRate(recs)
                 p == P90(Latencies(recs))
                 d == Spread(Latencies(recs))
      <3>1. s \in Int /\ p \in Int /\ d \in Int
        BY <2>2, StatTypes
      <3>2. rate' = [rate EXCEPT ![n] = s] /\ p90' = [p90 EXCEPT ![n] = p] /\ spread' = [spread EXCEPT ![n] = d]
        BY <2>2, Zenon DEF Recalculate
      <3> HIDE DEF s, p, d
      <3>3. /\ rate' \in [SmNodes -> Int] /\ p90' \in [SmNodes -> Int] /\ spread' \in [SmNodes -> Int]
            /\ \A m \in SmNodes : m # n => rate'[m] = rate[m] /\ p90'[m] = p90[m] /\ spread'[m] = spread[m]
            /\ rate'[n] = s /\ p90'[n] = p /\ spread'[n] = d
        BY <3>1, <3>2 DEF SmTypes
      <3> QED
        BY <2>2, <3>3 DEF s, p, d
    <2> QED
      BY <2>1, <2>2
  <1>3. /\ judged' \in [SmNodes -> Seq(Records)] /\ \A m \in SmNodes : m # n => judged'[m] = judged[m]
        /\ judged'[n] = IF recs = <<>> THEN judged[n] ELSE recs
    BY DEF Judge, SmTypes
  <1>4. SmTypes'
    BY <1>1, <1>2, <1>3 DEF SmTypes
  <1>5. records'[n] = recs /\ \A m \in SmNodes : m # n => records'[m] = records[m]
    BY DEF SmTypes
  <1>6. ASSUME NEW m \in SmNodes
        PROVE  /\ Len(records'[m]) <= MaxRecords
               /\ records'[m] # <<>> => judged'[m] = records'[m]
               /\ judged'[m] = <<>> => rate'[m] = 500 /\ p90'[m] = 0 /\ spread'[m] = 0
               /\ judged'[m] # <<>> =>
                    /\ rate'[m] = SuccessRate(judged'[m])
                    /\ p90'[m] = P90(Latencies(judged'[m])) /\ spread'[m] = Spread(Latencies(judged'[m]))
    <2>1. CASE m = n /\ recs # <<>>
      BY <1>2, <1>3, <1>5, <2>1
    <2>2. CASE m = n /\ recs = <<>>
      <3>1. Len(records'[n]) <= MaxRecords /\ records'[n] = <<>>
        BY <1>5, <2>2
      <3>2. judged'[n] = judged[n] /\ rate' = rate /\ p90' = p90 /\ spread' = spread
        BY <1>2, <1>3, <2>2
      <3>3. /\ judged[n] = <<>> => rate[n] = 500 /\ p90[n] = 0 /\ spread[n] = 0
            /\ judged[n] # <<>> =>
                 /\ rate[n] = SuccessRate(judged[n])
                 /\ p90[n] = P90(Latencies(judged[n])) /\ spread[n] = Spread(Latencies(judged[n]))
        BY DEF StatsFollowWindow
      <3> QED
        BY <2>2, <3>1, <3>2, <3>3
    <2>3. CASE m # n
      <3>1. /\ records'[m] = records[m] /\ judged'[m] = judged[m]
            /\ rate'[m] = rate[m] /\ p90'[m] = p90[m] /\ spread'[m] = spread[m]
        BY <1>2, <1>3, <1>5, <2>3
      <3>2. /\ Len(records[m]) <= MaxRecords
            /\ records[m] # <<>> => judged[m] = records[m]
            /\ judged[m] = <<>> => rate[m] = 500 /\ p90[m] = 0 /\ spread[m] = 0
            /\ judged[m] # <<>> =>
                 /\ rate[m] = SuccessRate(judged[m])
                 /\ p90[m] = P90(Latencies(judged[m])) /\ spread[m] = Spread(Latencies(judged[m]))
        BY DEF StatsFollowWindow
      <3> QED
        BY <3>1, <3>2
    <2> QED
      BY <2>1, <2>2, <2>3
  <1>7. StatsFollowWindow'
    BY <1>6 DEF StatsFollowWindow
  <1> QED
    BY <1>4, <1>7

\* The newest records of a window.
LEMMA NewestType ==
  ASSUME NEW s \in Seq(Records), NEW k \in Nat, k <= Len(s)
  PROVE  Newest(s, k) \in Seq(Records) /\ Len(Newest(s, k)) = k
  <1> DEFINE a == Len(s) - k + 1
  <1>1. a \in Int /\ a >= 1 /\ Len(s) - a + 1 = k /\ Len(s) \in Nat
    OBVIOUS
  <1>2. SubSeq(s, a, Len(s)) \in Seq(Records)
    BY <1>1
  <1>3. Len(SubSeq(s, a, Len(s))) = k
    <2>1. CASE a <= Len(s)
      BY <1>1, <2>1
    <2>2. CASE ~(a <= Len(s))
      <3>1. SubSeq(s, a, Len(s)) = <<>> /\ k = 0
        BY <1>1, <2>2
      <3> QED
        BY <3>1
    <2> QED
      BY <2>1, <2>2
  <1> QED
    BY <1>2, <1>3 DEF Newest

LEMMA SmStarts == SmInit => SmInv
  <1> SUFFICES ASSUME SmInit PROVE SmInv
    OBVIOUS
  <1>1. SmTypes
    BY DEF SmInit, SmTypes
  <1>2. StatsFollowWindow
    BY SmAssumption DEF SmInit, StatsFollowWindow
  <1>3. best = 0 /\ DeadNotBest /\ Asked
    BY DEF SmInit, DeadNotBest, Asked
  <1> QED
    BY <1>1, <1>2, <1>3 DEF SmInv

LEMMA AddKeeps ==
  ASSUME SmInv, NEW n \in SmNodes, NEW probed \in Seq(Samples), AddRecords(n, probed)
  PROVE  SmInv'
  <1> DEFINE stored == [i \in DOMAIN probed |-> Stored(probed[i])]
             all == records[n] \o stored
             recs == Window(all)
  <1>1. stored \in Seq(Records)
    <2>1. \A s \in Samples : Stored(s) \in Records
      BY SmAssumption DEF Stored, Records, NoNumber
    <2>2. DOMAIN probed = 1..Len(probed) /\ Len(probed) \in Nat /\ \A i \in 1..Len(probed) : probed[i] \in Samples
      OBVIOUS
    <2>3. stored \in [1..Len(probed) -> Records]
      BY <2>1, <2>2
    <2> HIDE DEF stored
    <2> QED
      BY <2>2, <2>3, SeqDef
  <1>2. all \in Seq(Records)
    BY <1>1 DEF SmInv, SmTypes
  <1> HIDE DEF all
  <1>3. recs \in Seq(Records) /\ Len(recs) <= MaxRecords
    BY <1>2, NewestType, SmAssumption DEF Window
  <1>4. /\ records' = [records EXCEPT ![n] = recs] /\ Recalculate(n, recs) /\ Judge(n, recs)
        /\ age' = [age EXCEPT ![n] = 0] /\ Unasked
    BY Zenon DEF AddRecords, all
  <1> HIDE DEF recs
  <1>5. age' \in [SmNodes -> 0..2]
    BY <1>4 DEF SmInv, SmTypes
  <1>6. SmTypes' /\ StatsFollowWindow'
    BY <1>3, <1>4, <1>5, Recalculated DEF SmInv
  <1>7. best' = 0 /\ probe' = NoProbe
    BY <1>4 DEF Unasked
  <1>8. DeadNotBest' /\ Asked'
    BY <1>7 DEF DeadNotBest, Asked, NoProbe
  <1> QED
    BY <1>6, <1>7, <1>8 DEF SmInv

LEMMA TrimKeeps ==
  ASSUME SmInv, NEW n \in SmNodes, NEW k \in 0..MaxRecords - 1, Trim(n, k)
  PROVE  SmInv'
  <1> DEFINE recs == Newest(records[n], k)
  <1>1. k \in Nat /\ k <= MaxRecords
    BY SmAssumption
  <1>2. recs \in Seq(Records) /\ Len(recs) <= MaxRecords
    <2>1. records[n] \in Seq(Records) /\ Len(records[n]) > k
      BY DEF SmInv, SmTypes, Trim
    <2>2. k <= Len(records[n])
      BY <1>1, <2>1
    <2> QED
      BY <1>1, <2>1, <2>2, NewestType
  <1>3. records' = [records EXCEPT ![n] = recs] /\ Recalculate(n, recs) /\ Judge(n, recs) /\ age' = age /\ Unasked
    BY Zenon DEF Trim
  <1> HIDE DEF recs
  <1>4. SmTypes' /\ StatsFollowWindow'
    <2>1. age' \in [SmNodes -> 0..2]
      BY <1>3 DEF SmInv, SmTypes
    <2> QED
      BY <1>2, <1>3, <2>1, Recalculated DEF SmInv
  <1>5. best' = 0 /\ probe' = NoProbe
    BY <1>3 DEF Unasked
  <1>6. DeadNotBest' /\ Asked'
    BY <1>5 DEF DeadNotBest, Asked, NoProbe
  <1> QED
    BY <1>4, <1>5, <1>6 DEF SmInv

LEMMA AgeKeeps ==
  ASSUME SmInv, NEW n \in SmNodes, Age(n)
  PROVE  SmInv'
  <1>1. age' \in [SmNodes -> 0..2]
    <2>1. age \in [SmNodes -> 0..2] /\ age' = [age EXCEPT ![n] = @ + 1] /\ age[n] + 1 < 3
      BY DEF SmInv, SmTypes, Age, Decay
    <2>2. age[n] + 1 \in 0..2
      BY <2>1
    <2> QED
      BY <2>1, <2>2
  <1>2. UNCHANGED <<records, rate, p90, spread, judged>> /\ best' = 0 /\ probe' = NoProbe
    BY DEF Age, Unasked
  <1>3. SmTypes' /\ StatsFollowWindow'
    BY <1>1, <1>2 DEF SmInv, SmTypes, StatsFollowWindow
  <1>4. DeadNotBest' /\ Asked'
    BY <1>2 DEF DeadNotBest, Asked, NoProbe
  <1> QED
    BY <1>2, <1>3, <1>4 DEF SmInv

\* A score depends on the statistics and the weights alone.
LEMMA SameScores ==
  ASSUME UNCHANGED <<records, rate, p90, spread, age>>
  PROVE  \A n : Score(n)' = Score(n)
  BY DEF Score, Confidence

LEMMA SelectKeeps ==
  ASSUME SmInv, Select
  PROVE  SmInv'
  <1>1. /\ ranked' = Ranking /\ best' = Best /\ probe' = NoProbe
        /\ UNCHANGED <<records, rate, p90, spread, age, judged>>
    BY DEF Select
  <1>2. SmTypes' /\ StatsFollowWindow'
    BY <1>1 DEF SmInv, SmTypes, StatsFollowWindow
  <1>3. /\ Best \in SmNodes /\ Ranking[1] \in SmNodes
        /\ \A m \in SmNodes : Score(m) <= Score(Best)
        /\ Score(Ranking[1]) = Score(Best)
    BY BestIsBest DEF SmInv
  <1>4. \A m \in SmNodes : Score(m) \in Int /\ Score(m) >= 0
    BY ScoreRange DEF SmInv
  <1>5. ASSUME judged[Best] # <<>>, \A i \in DOMAIN judged[Best] : ~judged[Best][i].ok
        PROVE  \A m \in SmNodes : Score(m) = 0
    <2>1. judged[Best] \in Seq(Records)
      BY <1>3 DEF SmInv, SmTypes
    <2>2. /\ SuccessRate(judged[Best]) = 0 /\ P90(Latencies(judged[Best])) = NoNumber
          /\ Spread(Latencies(judged[Best])) = NoNumber
      BY <1>5, <2>1, StatTypes
    <2>3. rate[Best] = 0 /\ p90[Best] = NoNumber /\ spread[Best] = NoNumber
      BY <1>3, <1>5, <2>2 DEF SmInv, StatsFollowWindow
    <2>4. Score(Best) = 0
      BY <1>3, <2>3, ScoreRange DEF SmInv
    <2> QED
      BY <1>3, <1>4, <2>4
  <1> DEFINE b == Best
             first == Ranking[1]
  <1>6. best' = b /\ ranked'[1] = first
    BY <1>1
  <1>7. /\ b \in SmNodes /\ first \in SmNodes /\ \A m \in SmNodes : Score(m) <= Score(b)
        /\ Score(first) = Score(b)
        /\ (judged[b] # <<>> /\ \A i \in DOMAIN judged[b] : ~judged[b][i].ok) => \A m \in SmNodes : Score(m) = 0
    BY <1>3, <1>5
  <1> HIDE DEF b, first
  <1>8. \A m \in SmNodes : Score(m)' = Score(m)
    BY <1>1, SameScores
  <1>9. DeadNotBest'
    <2>1. \A m \in SmNodes : Score(m)' <= Score(best)'
      BY <1>6, <1>7, <1>8
    <2>2. Score(ranked[1])' = Score(best)'
      BY <1>6, <1>7, <1>8
    <2>3. ((judged[best] # <<>> /\ \A i \in DOMAIN judged[best] : ~judged[best][i].ok)
             => \A m \in SmNodes : Score(m) = 0)'
      BY <1>1, <1>6, <1>7, <1>8
    <2> QED
      BY <2>1, <2>2, <2>3 DEF DeadNotBest
  <1>10. Asked' /\ (best # 0 => best \in SmNodes)'
    BY <1>1, <1>3 DEF Asked, NoProbe
  <1> QED
    BY <1>2, <1>9, <1>10 DEF SmInv

LEMMA AdaptKeeps ==
  ASSUME SmInv, NEW c \in Schedules, NEW q \in Qualities, Adapt(c, q)
  PROVE  SmInv'
  <1>1. /\ probe' = [c |-> c, q |-> q, secs |-> NextInterval(c, q)] /\ best' = 0
        /\ UNCHANGED <<records, rate, p90, spread, age, judged>>
    BY DEF Adapt
  <1>2. SmTypes' /\ StatsFollowWindow'
    BY <1>1 DEF SmInv, SmTypes, StatsFollowWindow
  <1>3. DeadNotBest' /\ Asked'
    BY <1>1 DEF DeadNotBest, Asked
  <1> QED
    BY <1>1, <1>2, <1>3 DEF SmInv

LEMMA SmKeeps == SmInv /\ [SmNext]_smVars => SmInv'
  <1> SUFFICES ASSUME SmInv, [SmNext]_smVars PROVE SmInv'
    OBVIOUS
  <1>1. ASSUME NEW n \in SmNodes, NEW x \in Samples, AddRecords(n, <<x>>) PROVE SmInv'
    <2>1. <<x>> \in Seq(Samples)
      OBVIOUS
    <2> QED
      BY <1>1, <2>1, AddKeeps
  <1>2. ASSUME NEW n \in SmNodes, NEW x \in Samples, NEW y \in Samples, AddRecords(n, <<x, y>>) PROVE SmInv'
    <2>1. <<x, y>> \in Seq(Samples)
      OBVIOUS
    <2> QED
      BY <1>2, <2>1, AddKeeps
  <1>3. ASSUME NEW n \in SmNodes, Age(n) PROVE SmInv'
    BY <1>3, AgeKeeps
  <1>4. ASSUME NEW n \in SmNodes, NEW k \in 0..MaxRecords - 1, Trim(n, k) PROVE SmInv'
    BY <1>4, TrimKeeps
  <1>5. ASSUME Select PROVE SmInv'
    BY <1>5, SelectKeeps
  <1>6. ASSUME NEW c \in Schedules, NEW q \in Qualities, Adapt(c, q) PROVE SmInv'
    BY <1>6, AdaptKeeps
  <1>7. ASSUME UNCHANGED smVars PROVE SmInv'
    <2>1. UNCHANGED <<records, rate, p90, spread, age, judged, ranked, best, probe>>
      BY <1>7 DEF smVars
    <2>2. SmTypes' /\ StatsFollowWindow' /\ Asked' /\ (best # 0 => best \in SmNodes)'
      BY <2>1 DEF SmInv, SmTypes, StatsFollowWindow, Asked, NoProbe, NextInterval
    <2>3. DeadNotBest'
      <3>1. \A n : Score(n)' = Score(n)
        BY <2>1, SameScores
      <3>2. Score(best)' = Score(best) /\ Score(ranked[1])' = Score(ranked[1])
        BY <2>1, <3>1
      <3>3. DeadNotBest
        BY DEF SmInv
      <3> QED
        BY <2>1, <3>1, <3>2, <3>3 DEF DeadNotBest
    <2> QED
      BY <2>2, <2>3 DEF SmInv
  <1> QED
    BY <1>1, <1>2, <1>3, <1>4, <1>5, <1>6, <1>7, Zenon DEF SmNext

\* The invariant says what the run checks.
LEMMA SmJudges == SmInv => NodesJudged
  <1> SUFFICES ASSUME SmInv PROVE IntervalFollowsQuality
    BY DEF SmInv, NodesJudged
  <1> SUFFICES ASSUME probe.secs # 0, ScheduleErrors(probe.c) = {}, probe.c.adaptive, probe.q # NoNumber,
                      probe.c.min <= probe.c.max
               PROVE  /\ probe.secs \in probe.c.min..probe.c.max
                      /\ \A q \in Qualities : q # NoNumber /\ q <= probe.q => NextInterval(probe.c, q) <= probe.secs
    BY DEF IntervalFollowsQuality
  <1>1. probe # NoProbe
    BY DEF NoProbe
  <1>2. PICK c \in Schedules, q \in Qualities : probe = [c |-> c, q |-> q, secs |-> NextInterval(c, q)]
    BY <1>1 DEF SmInv, Asked
  <1>3. probe.c = c /\ probe.q = q /\ probe.secs = NextInterval(c, q) /\ q \in Int
    BY <1>2, SmAssumption
  <1>4. NextInterval(c, q) \in c.min..c.max
    BY <1>3, IntervalGrows
  <1>5. ASSUME NEW p \in Qualities, p # NoNumber, p <= q PROVE NextInterval(c, p) <= NextInterval(c, q)
    <2>1. p \in Int
      BY SmAssumption
    <2> QED
      BY <1>3, <1>5, <2>1, IntervalGrows
  <1> QED
    BY <1>3, <1>4, <1>5

\* For any nodes, samples, weights and schedules: the statistics of a node are those of its window
\* or, once that was emptied, of the last window that held a record; a node that had no success in
\* it is best only when none scores; and the interval of a valid configuration grows with the
\* quality.  (history.rs, scorer.rs, scheduler.rs)
THEOREM NodesAreJudged == SmSpec => []NodesJudged
  <1> QED
    BY SmStarts, SmKeeps, SmJudges, PTL DEF SmSpec
=============================================================================
