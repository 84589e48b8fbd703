--------------------------- MODULE LanguageProofs ---------------------------
(* Proofs about what stands between a file and the configuration the kernel    *)
(* loads, for every value of the constants: the patch operations, the documents *)
(* they are written in, the conditions of patches, the output and the          *)
(* validator, and about the cron expressions by which plugins ask to be run.   *)
(* They share nothing but lemmas about lists and numbers.                      *)
EXTENDS TraceView, CronSearch, DslParser, ScopeMatch, HotReload, Validator, FunctionTheorems, FiniteSetTheorems, SequenceTheorems,
        WellFoundedInduction, TLAPS

-----------------------------------------------------------------------------
(* Lists and numbers. *)

\* What stands at some places of a list keeps its type, and is all that stands there.
LEMMA ChosenProperties ==
  ASSUME NEW T, NEW s \in Seq(T), NEW places \in SUBSET DOMAIN s
  PROVE  /\ Chosen(s, places) \in Seq(T)
         /\ Cardinality(places) \in Nat /\ Len(Chosen(s, places)) = Cardinality(places)
         /\ Range(Chosen(s, places)) = {s[i] : i \in places}
         /\ IsInjective(s) => IsInjective(Chosen(s, places))
  <1> DEFINE upto(i) == {j \in places : j <= i}
             rank(i) == Cardinality(upto(i))
             n == Cardinality(places)
             at(k) == CHOOSE i \in places : rank(i) = k
             r == Chosen(s, places)
  <1>1. Len(s) \in Nat /\ DOMAIN s = 1..Len(s) /\ places \subseteq 1..Len(s)
    OBVIOUS
  <1>2. IsFiniteSet(places) /\ n \in Nat
    <2>1. IsFiniteSet(1..Len(s))
      BY <1>1, FS_Interval
    <2> QED
      BY <1>1, <2>1, FS_Subset, FS_CardinalityType
  <1>3. ASSUME NEW i PROVE IsFiniteSet(upto(i)) /\ rank(i) \in Nat /\ rank(i) <= n
    <2>1. upto(i) \in SUBSET places
      OBVIOUS
    <2> HIDE DEF upto
    <2> QED
      BY <1>2, <2>1, FS_Subset, FS_CardinalityType
  <1>4. \A i \in places : rank(i) \in 1..n
    <2> SUFFICES ASSUME NEW i \in places PROVE rank(i) \in 1..n
      OBVIOUS
    <2>1. i \in upto(i)
      BY <1>1
    <2>2. IsFiniteSet(upto(i)) /\ rank(i) \in Nat /\ rank(i) <= n
      BY <1>3
    <2> HIDE DEF upto, n
    <2>3. rank(i) # 0
      BY <2>1, <2>2, FS_EmptySet
    <2> QED
      BY <1>2, <2>2, <2>3
  <1>5. ASSUME NEW i \in places, NEW j \in places, i < j PROVE rank(i) # rank(j)
    <2>1. upto(i) \subseteq upto(j) /\ j \in upto(j) /\ j \notin upto(i)
      BY <1>1, <1>5
    <2>2. IsFiniteSet(upto(j))
      BY <1>3
    <2> HIDE DEF upto
    <2> QED
      BY <2>1, <2>2, FS_Subset
  <1>6. \A i, j \in places : rank(i) = rank(j) => i = j
    <2> SUFFICES ASSUME NEW i \in places, NEW j \in places, rank(i) = rank(j), i # j PROVE FALSE
      OBVIOUS
    <2>1. i \in Int /\ j \in Int
      BY <1>1
    <2> HIDE DEF rank
    <2> QED
      BY <2>1, <1>5
  <1>7. \A k \in 1..n : \E i \in places : rank(i) = k
    <2> DEFINE f == [i \in places |-> rank(i)]
    <2>1. f \in Injection(places, 1..n)
      <3>1. f \in [places -> 1..n]
        BY <1>4
      <3>2. \A i, j \in places : f[i] = f[j] => i = j
        BY <1>6
      <3> QED
        BY <3>1, <3>2 DEF Injection, IsInjective
    <2>2. IsFiniteSet(1..n) /\ Cardinality(1..n) = n
      BY <1>2, FS_Interval
    <2>3. f \in Surjection(places, 1..n)
      BY <2>1, <2>2, FS_Injection
    <2> QED
      BY <2>3 DEF Surjection
  <1>8. \A k \in 1..n : at(k) \in places /\ rank(at(k)) = k
    BY <1>7
  <1>9. r = [k \in 1..n |-> s[at(k)]]
    BY DEF Chosen
  <1> HIDE DEF rank, n, at, r
  <1>10. r \in Seq(T) /\ DOMAIN r = 1..n /\ Len(r) = n
    <2>1. \A k \in 1..n : s[at(k)] \in T
      BY <1>1, <1>8
    <2>2. r \in [1..n -> T]
      BY <1>9, <2>1
    <2> QED
      BY <1>2, <2>2, SeqDef
  <1>11. Range(r) \subseteq {s[i] : i \in places}
    BY <1>8, <1>9 DEF Range
  <1>12. {s[i] : i \in places} \subseteq Range(r)
    <2> SUFFICES ASSUME NEW i \in places PROVE s[i] \in Range(r)
      OBVIOUS
    <2>1. rank(i) \in 1..n
      BY <1>4 DEF rank, n
    <2>2. at(rank(i)) = i
      BY <2>1, <1>6, <1>8 DEF rank
    <2> QED
      BY <1>9, <1>10, <2>1, <2>2 DEF Range
  <1>13. ASSUME IsInjective(s) PROVE IsInjective(r)
    <2> SUFFICES ASSUME NEW j \in 1..n, NEW k \in 1..n, r[j] = r[k] PROVE j = k
      BY <1>10 DEF IsInjective
    <2>1. at(j) = at(k)
      BY <1>1, <1>8, <1>9, <1>13 DEF IsInjective
    <2> QED
      BY <1>8, <2>1
  <1> QED
    BY <1>2, <1>10, <1>11, <1>12, <1>13 DEF r, n

\* What is left of a list keeps its type, and is what is not in S.
LEMMA RetainedProperties ==
  ASSUME NEW T, NEW s \in Seq(T), NEW S
  PROVE  /\ Retained(s, S) \in Seq(T)
         /\ Range(Retained(s, S)) = Range(s) \ S
         /\ IsInjective(s) => IsInjective(Retained(s, S))
  <1> DEFINE kept == {i \in DOMAIN s : s[i] \notin S}
  <1>1. kept \in SUBSET DOMAIN s /\ {s[i] : i \in kept} = Range(s) \ S
    BY DEF Range
  <1>2. Retained(s, S) = Chosen(s, kept)
    BY DEF Retained
  <1> HIDE DEF kept
  <1> QED
    BY <1>1, <1>2, ChosenProperties

\* A set of numbers that is not empty has a least one.
LEMMA LeastNumber ==
  ASSUME NEW T \in SUBSET Nat, T # {}
  PROVE  \E t \in T : \A n \in T : t <= n
  <1>1. PICK t \in T : \A n \in T : ~(<<n, t>> \in OpToRel(<, Nat))
    BY NatLessThanWellFounded, WFMin, Zenon
  <1>2. T \subseteq Nat /\ t \in Nat
    OBVIOUS
  <1>3. ASSUME NEW n \in T PROVE t <= n
    <2>1. n \in Nat /\ <<n, t>> \in Nat \X Nat
      BY <1>2
    <2>2. ~(<<n, t>>[1] < <<n, t>>[2])
      BY <1>1, <2>1, Zenon DEF OpToRel
    <2>3. ~(n < t)
      BY <2>2
    <2> QED
      BY <1>2, <2>1, <2>3
  <1> QED
    BY <1>3

\* A set of places up to n that is not empty has a last one.
LEMMA GreatestNumber ==
  ASSUME NEW n \in Nat, NEW T \in SUBSET (1..n), T # {}
  PROVE  \E t \in T : \A j \in T : j <= t
  <1> DEFINE U == {n - i : i \in T}
  <1>1. U \in SUBSET Nat /\ U # {}
    <2>1. \A i \in T : n - i \in Nat
      OBVIOUS
    <2> QED
      BY <2>1
  <1>2. PICK u \in U : \A v \in U : u <= v
    <2> HIDE DEF U
    <2> QED
      BY <1>1, LeastNumber
  <1>3. PICK t \in T : u = n - t
    OBVIOUS
  <1>4. ASSUME NEW j \in T PROVE j <= t
    <2>1. n - j \in U /\ t \in 1..n /\ j \in 1..n
      OBVIOUS
    <2>2. n - t <= n - j
      BY <1>2, <1>3, <2>1
    <2> QED
      BY <2>1, <2>2
  <1> QED
    BY <1>4

\* Every place but the last has a next one.
LEMMA NextIndex ==
  ASSUME NEW n \in Nat, NEW i \in 1..n, i # n
  PROVE  i + 1 \in 1..n
  OBVIOUS

\* What a list is to the provers.
LEMMA ListFacts ==
  ASSUME NEW s, IsList(s)
  PROVE  /\ Len(s) \in Nat /\ DOMAIN s = 1..Len(s) /\ (s = <<>> <=> Len(s) = 0)
         /\ Range(s) = {s[i] : i \in 1..Len(s)}
  BY DEF IsList, Range

\* A sequence is a list.
LEMMA ListOf ==
  ASSUME NEW S, NEW s \in Seq(S)
  PROVE  IsList(s)
  <1>1. Len(s) \in Nat /\ DOMAIN s = 1..Len(s) /\ s \in [1..Len(s) -> S]
    OBVIOUS
  <1>2. s \in [1..Len(s) -> Range(s)]
    BY <1>1 DEF Range
  <1> QED
    BY <1>1, <1>2, SeqDef DEF IsList

\* Append, of a list.
LEMMA AppendList ==
  ASSUME NEW s, IsList(s), NEW e
  PROVE  /\ IsList(Append(s, e)) /\ Len(Append(s, e)) = Len(s) + 1
         /\ \A i \in 1..Len(s) : Append(s, e)[i] = s[i]
         /\ Append(s, e)[Len(s) + 1] = e
  <1> DEFINE S == Range(s) \cup {e}
  <1>1. s \in Seq(S) /\ e \in S
    <2>1. Len(s) \in Nat /\ DOMAIN s = 1..Len(s) /\ s \in [1..Len(s) -> Range(s)]
      BY DEF IsList
    <2>2. s \in [1..Len(s) -> S]
      BY <2>1
    <2> QED
      BY <2>1, <2>2, SeqDef
  <1> HIDE DEF S
  <1>2. /\ Append(s, e) \in Seq(S) /\ Len(Append(s, e)) = Len(s) + 1
        /\ \A i \in 1..Len(s) : Append(s, e)[i] = s[i]
        /\ Append(s, e)[Len(s) + 1] = e
    BY <1>1, AppendProperties
  <1>3. IsList(Append(s, e))
    BY <1>2, ListOf
  <1> QED
    BY <1>2, <1>3

\* Head and tail, of a list.
LEMMA TailList ==
  ASSUME NEW s, IsList(s), s # <<>>
  PROVE  /\ IsList(Tail(s)) /\ Len(Tail(s)) = Len(s) - 1 /\ Len(s) \in Nat \ {0}
         /\ \A i \in 1..Len(s) - 1 : Tail(s)[i] = s[i + 1]
         /\ Head(s) = s[1] /\ Head(s) \in Range(s)
         /\ Range(Tail(s)) \subseteq Range(s) /\ Range(s) = {Head(s)} \cup Range(Tail(s))
  <1>1. s \in Seq(Range(s)) /\ Len(s) \in Nat \ {0} /\ DOMAIN s = 1..Len(s)
    <2>1. Len(s) \in Nat /\ DOMAIN s = 1..Len(s) /\ Len(s) # 0
      BY ListFacts
    <2> QED
      BY <2>1 DEF IsList
  <1>2. Tail(s) \in Seq(Range(s)) /\ Len(Tail(s)) = Len(s) - 1 /\ \A i \in 1..Len(Tail(s)) : Tail(s)[i] = s[i + 1]
    BY <1>1, HeadTailProperties
  <1>3. Head(s) = s[1] /\ 1 \in DOMAIN s
    BY <1>1
  <1>4. IsList(Tail(s))
    BY <1>2, ListOf
  <1>5. DOMAIN Tail(s) = 1..Len(s) - 1
    BY <1>2, <1>4, ListFacts
  <1>6. Range(s) \subseteq {Head(s)} \cup Range(Tail(s))
    <2> SUFFICES ASSUME NEW i \in 1..Len(s), i # 1 PROVE s[i] \in Range(Tail(s))
      BY <1>1, <1>3 DEF Range
    <2>1. i - 1 \in 1..Len(s) - 1 /\ i - 1 + 1 = i
      BY <1>1
    <2>2. Tail(s)[i - 1] = s[i]
      BY <1>2, <2>1
    <2> QED
      BY <1>5, <2>1, <2>2 DEF Range
  <1>7. Range(Tail(s)) \subseteq Range(s)
    BY <1>2 DEF Range
  <1> QED
    BY <1>1, <1>2, <1>3, <1>4, <1>6, <1>7 DEF Range

\* Two lists one after the other.
LEMMA ConcatRange ==
  ASSUME NEW S, NEW s \in Seq(S), NEW t \in Seq(S)
  PROVE  s \o t \in Seq(S) /\ Len(s \o t) = Len(s) + Len(t) /\ Range(s \o t) = Range(s) \cup Range(t)
  <1>1. /\ s \o t \in Seq(S) /\ Len(s \o t) = Len(s) + Len(t)
        /\ \A i \in 1..Len(s) + Len(t) : (s \o t)[i] = IF i <= Len(s) THEN s[i] ELSE t[i - Len(s)]
    BY ConcatProperties
  <1>2. Len(s) \in Nat /\ Len(t) \in Nat /\ DOMAIN s = 1..Len(s) /\ DOMAIN t = 1..Len(t)
    OBVIOUS
  <1> DEFINE u == s \o t
  <1>3. DOMAIN u = 1..Len(s) + Len(t)
    BY <1>1, <1>2
  <1>4. \A i \in 1..Len(s) + Len(t) : u[i] = IF i <= Len(s) THEN s[i] ELSE t[i - Len(s)]
    BY <1>1
  <1>5. u \in Seq(S) /\ Len(u) = Len(s) + Len(t)
    BY <1>1
  <1> HIDE DEF u
  <1>6. Range(u) \subseteq Range(s) \cup Range(t)
    <2> SUFFICES ASSUME NEW i \in 1..Len(s) + Len(t) PROVE u[i] \in Range(s) \cup Range(t)
      BY <1>3 DEF Range
    <2>1. CASE i <= Len(s)
      BY <1>2, <1>4, <2>1 DEF Range
    <2>2. CASE ~(i <= Len(s))
      <3>1. i - Len(s) \in 1..Len(t)
        BY <1>2, <2>2
      <3> QED
        BY <1>2, <1>4, <2>2, <3>1 DEF Range
    <2> QED
      BY <2>1, <2>2
  <1>7. ASSUME NEW i \in 1..Len(s) PROVE s[i] \in Range(u)
    <2>1. i \in 1..Len(s) + Len(t) /\ i <= Len(s)
      BY <1>2
    <2> QED
      BY <1>3, <1>4, <2>1 DEF Range
  <1>8. ASSUME NEW i \in 1..Len(t) PROVE t[i] \in Range(u)
    <2> DEFINE k == Len(s) + i
    <2>1. k \in 1..Len(s) + Len(t) /\ ~(k <= Len(s)) /\ k - Len(s) = i
      BY <1>2
    <2> HIDE DEF k
    <2>2. u[k] = t[i]
      BY <1>4, <2>1
    <2> QED
      BY <1>3, <2>1, <2>2 DEF Range
  <1>9. Range(u) = Range(s) \cup Range(t)
    BY <1>2, <1>6, <1>7, <1>8 DEF Range
  <1> QED
    BY <1>5, <1>9 DEF u

\* A strict order.
StrictOrder(S, R) ==
  /\ \A x \in S : <<x, x>> \notin R
  /\ \A x, y \in S : x = y \/ <<x, y>> \in R \/ <<y, x>> \in R
  /\ \A x, y, z \in S : <<x, y>> \in R /\ <<y, z>> \in R => <<x, z>> \in R

\* The elements of a finite set along a strict order: each has its place, and the order holds.
LEMMA AlongProperties ==
  ASSUME NEW S, IsFiniteSet(S), NEW R, StrictOrder(S, R)
  PROVE  /\ Cardinality(S) \in Nat
         /\ Along(S, R) \in [1..Cardinality(S) -> S]
         /\ \A x \in S : \E k \in 1..Cardinality(S) : Along(S, R)[k] = x
         /\ \A i, j \in 1..Cardinality(S) : i < j => <<Along(S, R)[i], Along(S, R)[j]>> \in R
  <1> DEFINE upto(x) == {y \in S : <<y, x>> \in R \/ y = x}
             seat(x) == Cardinality(upto(x))
             n == Cardinality(S)
             at(k) == CHOOSE x \in S : seat(x) = k
  <1>1. n \in Nat
    BY FS_CardinalityType
  <1>2. ASSUME NEW x \in S PROVE IsFiniteSet(upto(x)) /\ seat(x) \in 1..n
    <2>1. upto(x) \in SUBSET S /\ x \in upto(x)
      OBVIOUS
    <2> HIDE DEF upto
    <2>2. IsFiniteSet(upto(x)) /\ seat(x) \in Nat /\ seat(x) <= n
      BY <2>1, FS_Subset, FS_CardinalityType
    <2> HIDE DEF n
    <2>3. seat(x) # 0
      BY <2>1, <2>2, FS_EmptySet
    <2> QED
      BY <1>1, <2>2, <2>3
  <1>3. ASSUME NEW x \in S, NEW y \in S, <<x, y>> \in R PROVE seat(x) < seat(y)
    <2>1. upto(x) \subseteq upto(y) /\ y \in upto(y) /\ y \notin upto(x)
      BY <1>3 DEF StrictOrder
    <2>2. IsFiniteSet(upto(y))
      BY <1>2
    <2>3. seat(x) \in 1..n /\ seat(y) \in 1..n
      BY <1>2
    <2> HIDE DEF upto, n
    <2>4. seat(x) <= seat(y) /\ (seat(x) = seat(y) => upto(x) = upto(y))
      BY <2>1, <2>2, FS_Subset
    <2> QED
      BY <1>1, <2>1, <2>3, <2>4
  <1>4. \A x, y \in S : seat(x) = seat(y) => x = y
    <2> SUFFICES ASSUME NEW x \in S, NEW y \in S, seat(x) = seat(y), x # y PROVE FALSE
      OBVIOUS
    <2>1. seat(x) \in 1..n /\ seat(y) \in 1..n
      BY <1>2
    <2>2. <<x, y>> \in R \/ <<y, x>> \in R
      BY DEF StrictOrder
    <2>3. seat(x) < seat(y) \/ seat(y) < seat(x)
      BY <1>3, <2>2
    <2> HIDE DEF seat, n
    <2> QED
      BY <1>1, <2>1, <2>3
  <1>5. \A k \in 1..n : \E x \in S : seat(x) = k
    <2> DEFINE f == [x \in S |-> seat(x)]
    <2>1. f \in Injection(S, 1..n)
      <3>1. f \in [S -> 1..n]
        BY <1>2
      <3>2. \A x, y \in S : f[x] = f[y] => x = y
        BY <1>4
      <3> HIDE DEF f, n
      <3> QED
        BY <3>1, <3>2 DEF Injection, IsInjective
    <2>2. IsFiniteSet(1..n) /\ Cardinality(1..n) = n
      BY <1>1, FS_Interval
    <2>3. f \in Surjection(S, 1..n)
      BY <2>1, <2>2, FS_Injection
    <2> QED
      BY <2>3 DEF Surjection
  <1>6. \A k \in 1..n : at(k) \in S /\ seat(at(k)) = k
    BY <1>5
  <1>7. Along(S, R) = [k \in 1..n |-> at(k)]
    BY DEF Along
  <1> HIDE DEF seat, n, at
  <1>8. \A x \in S : at(seat(x)) = x
    BY <1>2, <1>4, <1>6
  <1>9. ASSUME NEW i \in 1..n, NEW j \in 1..n, i < j PROVE <<at(i), at(j)>> \in R
    <2>1. at(i) \in S /\ at(j) \in S /\ seat(at(i)) = i /\ seat(at(j)) = j
      BY <1>6
    <2>2. ~(<<at(j), at(i)>> \in R) /\ at(i) # at(j)
      BY <1>1, <1>3, <1>9, <2>1
    <2> QED
      BY <2>1, <2>2 DEF StrictOrder
  <1>10. \A x \in S : \E k \in 1..n : Along(S, R)[k] = x
    BY <1>2, <1>7, <1>8
  <1>11. Along(S, R) \in [1..n -> S]
    BY <1>6, <1>7
  <1>12. \A i, j \in 1..n : i < j => <<Along(S, R)[i], Along(S, R)[j]>> \in R
    BY <1>7, <1>9
  <1> QED
    BY <1>1, <1>10, <1>11, <1>12 DEF n

\* A sorted list holds what the list held, by rank.
LEMMA SortedProperties ==
  ASSUME NEW s, IsList(s), NEW rank \in [DOMAIN s -> Int]
  PROVE  /\ IsList(SortedBy(s, rank)) /\ Len(SortedBy(s, rank)) = Len(s)
         /\ \E at \in [1..Len(s) -> 1..Len(s)] :
              /\ \A i \in 1..Len(s) : SortedBy(s, rank)[i] = s[at[i]]
              /\ \A i \in 1..Len(s) : \E k \in 1..Len(s) : at[k] = i
              /\ \A i, j \in 1..Len(s) : i < j => rank[at[i]] <= rank[at[j]]
  <1> DEFINE n == Len(s)
             D == 1..n
             R == {p \in D \X D : rank[p[1]] < rank[p[2]] \/ (rank[p[1]] = rank[p[2]] /\ p[1] < p[2])}
             order == Along(D, R)
  <1>1. D = DOMAIN s /\ n \in Nat /\ \A i \in D : rank[i] \in Int /\ i \in Int
    BY ListFacts
  <1>2. IsFiniteSet(D) /\ Cardinality(D) = n
    <2> HIDE DEF n
    <2>1. 1 \in Int /\ n \in Int /\ (~(1 > n) => n - 1 + 1 = n) /\ (1 > n => n = 0)
      BY <1>1
    <2>2. IsFiniteSet(1..n) /\ Cardinality(1..n) = IF 1 > n THEN 0 ELSE n - 1 + 1
      BY <2>1, FS_Interval
    <2> QED
      BY <2>1, <2>2
  <1>3. \A x, y \in D : <<x, y>> \in R <=> rank[x] < rank[y] \/ (rank[x] = rank[y] /\ x < y)
    OBVIOUS
  <1>4. SortedBy(s, rank) = [k \in DOMAIN order |-> s[order[k]]]
    BY <1>1 DEF SortedBy
  <1> HIDE DEF n, D, R
  <1>5. StrictOrder(D, R)
    <2>1. \A x \in D : <<x, x>> \notin R
      BY <1>1, <1>3
    <2>2. ASSUME NEW x \in D, NEW y \in D PROVE x = y \/ <<x, y>> \in R \/ <<y, x>> \in R
      <3>1. rank[x] \in Int /\ rank[y] \in Int /\ x \in Int /\ y \in Int
        BY <1>1
      <3>2. \/ x = y
            \/ rank[x] < rank[y] \/ (rank[x] = rank[y] /\ x < y)
            \/ rank[y] < rank[x] \/ (rank[y] = rank[x] /\ y < x)
        BY <3>1
      <3>3. /\ <<x, y>> \in R <=> rank[x] < rank[y] \/ (rank[x] = rank[y] /\ x < y)
            /\ <<y, x>> \in R <=> rank[y] < rank[x] \/ (rank[y] = rank[x] /\ y < x)
        BY <1>3, Zenon
      <3> QED
        BY <3>2, <3>3, Zenon
    <2>3. ASSUME NEW x \in D, NEW y \in D, NEW z \in D, <<x, y>> \in R, <<y, z>> \in R
          PROVE  <<x, z>> \in R
      <3>1. rank[x] \in Int /\ rank[y] \in Int /\ rank[z] \in Int /\ x \in Int /\ y \in Int /\ z \in Int
        BY <1>1
      <3>2. rank[x] < rank[y] \/ (rank[x] = rank[y] /\ x < y)
        BY <1>3, <2>3
      <3>3. rank[y] < rank[z] \/ (rank[y] = rank[z] /\ y < z)
        BY <1>3, <2>3
      <3>4. rank[x] < rank[z] \/ (rank[x] = rank[z] /\ x < z)
        BY <3>1, <3>2, <3>3
      <3> QED
        BY <1>3, <3>4
    <2> QED
      BY <2>1, <2>2, <2>3 DEF StrictOrder
  <1>6. /\ order \in [1..n -> D] /\ \A x \in D : \E k \in 1..n : order[k] = x
        /\ \A i, j \in 1..n : i < j => <<order[i], order[j]>> \in R
    BY <1>2, <1>5, AlongProperties
  <1> HIDE DEF order
  <1>7. SortedBy(s, rank) = [k \in 1..n |-> s[order[k]]]
    BY <1>4, <1>6
  <1>8. SortedBy(s, rank) \in [1..n -> Range(s)]
    BY <1>1, <1>6, <1>7 DEF Range
  <1>9. SortedBy(s, rank) \in Seq(Range(s)) /\ Len(SortedBy(s, rank)) = n
    BY <1>1, <1>8, SeqDef
  <1>10. IsList(SortedBy(s, rank))
    BY <1>9, ListOf
  <1>11. ASSUME NEW i \in 1..n, NEW j \in 1..n, i < j PROVE rank[order[i]] <= rank[order[j]]
    <2> DEFINE x == order[i]
               y == order[j]
    <2>1. x \in D /\ y \in D /\ <<x, y>> \in R
      BY <1>6, <1>11
    <2> HIDE DEF x, y
    <2>2. rank[x] \in Int /\ rank[y] \in Int
      BY <1>1, <2>1
    <2>3. rank[x] < rank[y] \/ rank[x] = rank[y]
      BY <1>3, <2>1, Zenon
    <2>4. rank[x] <= rank[y]
      BY <2>2, <2>3
    <2> QED
      BY <2>4 DEF x, y
  <1>12. \A i \in 1..n : SortedBy(s, rank)[i] = s[order[i]]
    BY <1>7
  <1> QED
    BY <1>6, <1>9, <1>10, <1>11, <1>12 DEF D, n

-----------------------------------------------------------------------------
(* The operations.  No program of patches changes a guarded field, for every   *)
(* program, every base configuration and every set of items.  That the root    *)
(* keeps its fields (Rooted) is what makes the claim inductive: an update      *)
(* elsewhere says something of the guarded field only while that field is in   *)
(* the domain.                                                                 *)

Rooted == DOMAIN config = Keys
OpsInv == Rooted /\ GuardedKept

\* Writing below any other root field leaves the guarded one and the fields alone.
LEMMA PutElsewhere ==
    ASSUME NEW c, DOMAIN c = Keys, NEW p, ~Guarded(p), NEW v
    PROVE  /\ DOMAIN Put(c, p, v) = Keys
           /\ Put(c, p, v)["authentication"] = c["authentication"]
  BY DEF Put, Guarded, Keys

\* One operation: on a guarded path nothing happens, elsewhere PutElsewhere applies, and
\* the stray key of a failed $override is no guarded field either.
LEMMA ExecKeeps ==
    ASSUME NEW c, DOMAIN c = Keys, NEW p, NEW o
    PROVE  /\ DOMAIN Exec(c, p, o) = Keys
           /\ Exec(c, p, o)["authentication"] = c["authentication"]
  <1>1. CASE Guarded(p)
    BY <1>1 DEF Exec
  <1>2. CASE ~Guarded(p)
    <2>1. Exec(c, p, o) \in {c, [c EXCEPT !["dns.list"] = o.val]} \/ \E v : Exec(c, p, o) = Put(c, p, v)
      BY <1>2 DEF Exec, ExecList, ExecDefault, ExecMerge, ExecOverride
    <2>2. CASE \E v : Exec(c, p, o) = Put(c, p, v)
      BY <1>2, <2>2, PutElsewhere
    <2>3. CASE Exec(c, p, o) \in {c, [c EXCEPT !["dns.list"] = o.val]}
      BY <2>3 DEF Keys
    <2> QED
      BY <2>1, <2>2, <2>3
  <1> QED
    BY <1>1, <1>2

\* No step of a run touches a guarded field.
LEMMA OpsInvStep == OpsInv /\ [Next]_vars => OpsInv'
  <1> SUFFICES ASSUME OpsInv, [Next]_vars PROVE OpsInv'
    OBVIOUS
  <1>1. CASE TakePatch
    BY <1>1 DEF TakePatch, OpsInv, Rooted, GuardedKept
  <1>2. CASE RunOp
    <2>1. base' = base /\ config' \in {config, Exec(config, Current.path, Head(todo))}
      BY <1>2 DEF RunOp
    <2>2. /\ DOMAIN Exec(config, Current.path, Head(todo)) = Keys
          /\ Exec(config, Current.path, Head(todo))["authentication"] = config["authentication"]
      BY ExecKeeps DEF OpsInv, Rooted
    <2> QED
      BY <2>1, <2>2 DEF OpsInv, Rooted, GuardedKept
  <1>3. CASE Finished \/ UNCHANGED vars
    BY <1>3 DEF Finished, vars, OpsInv, Rooted, GuardedKept
  <1> QED
    BY <1>1, <1>2, <1>3 DEF Next

\* GUARDED_FIELDS hold through every run of PatchExecutor::execute.
THEOREM GuardedFieldsKept == Spec => []GuardedKept
  <1>1. Init => OpsInv
    BY BasesAreRoots DEF Init, OpsInv, Rooted, GuardedKept, IsConfig
  <1>2. OpsInv => GuardedKept
    BY DEF OpsInv
  <1> QED
    BY <1>1, <1>2, OpsInvStep, PTL DEF Spec

-----------------------------------------------------------------------------
\* A place of a configuration holds a value.
LEMMA GetIsJSON ==
  ASSUME NEW c, IsConfig(c), NEW p \in Paths
  PROVE  /\ IsJSON(Get(c, p)) /\ (Len(p) = 1 => IsField(Get(c, p)))
         /\ Get(c, p) # Absent => Creatable(c, p)
  <1>1. p[1] \in Keys /\ IsField(c[p[1]])
    BY DEF IsConfig, Paths, Keys
  <1>2. IsJSON(Absent)
    BY DEF IsJSON, Absent, JSON
  <1>3. CASE Len(p) = 1
    BY <1>1, <1>3 DEF Get, IsField, Creatable
  <1>4. CASE Len(p) # 1
    BY <1>1, <1>2, <1>4 DEF Get, IsField, IsJSON, Creatable
  <1> QED
    BY <1>3, <1>4

\* Writing a value there leaves a configuration, with the value in its place.
LEMMA PutIsConfig ==
  ASSUME NEW c, IsConfig(c), NEW p \in Paths, NEW v, IsJSON(v),
         Len(p) = 1 => IsField(v), Len(p) # 1 => v.kind # "absent"
  PROVE  IsConfig(Put(c, p, v)) /\ Get(Put(c, p, v), p) = v /\ Creatable(Put(c, p, v), p)
  <1> DEFINE w == IF Len(p) = 1 THEN v ELSE Obj(v)
  <1>1. p[1] \in Keys /\ DOMAIN c = Keys
    BY DEF IsConfig, Paths, Keys
  <1>2. IsField(w)
    <2>1. CASE Len(p) = 1
      BY <2>1
    <2>2. CASE Len(p) # 1
      <3>1. /\ Obj(v).kind = "object" /\ Obj(v).items = <<>> /\ Obj(v).sub = <<v>> /\ <<v>> # <<>>
            /\ Len(<<v>>) = 1 /\ <<v>>[1] = v /\ <<>> \in Seq(Items) /\ Len(<<>>) = 0
        BY DEF Obj, JSON
      <3>2. IsField(Obj(v))
        BY <2>2, <3>1 DEF IsField, IsJSON
      <3> QED
        BY <2>2, <3>2
    <2> QED
      BY <2>1, <2>2
  <1>3. Put(c, p, v)[p[1]] = w /\ DOMAIN Put(c, p, v) = Keys /\ \A k \in Keys \ {p[1]} : Put(c, p, v)[k] = c[k]
    BY <1>1 DEF Put
  <1> HIDE DEF w
  <1>4. IsConfig(Put(c, p, v))
    BY <1>2, <1>3 DEF IsConfig
  <1>5. CASE Len(p) = 1
    BY <1>3, <1>4, <1>5 DEF Get, Creatable, w
  <1>6. CASE Len(p) # 1
    <2>1. w.sub = <<v>> /\ w.kind = "object" /\ <<v>> # <<>> /\ <<v>>[1] = v
      BY <1>6 DEF w, Obj, JSON
    <2> QED
      BY <1>3, <1>4, <1>6, <2>1 DEF Get, Creatable
  <1> QED
    BY <1>5, <1>6

\* What is put into an array are items.
LEMMA NewItemsList ==
  ASSUME NEW o, IsOperation(o), o.op \in {"prepend", "append"}
  PROVE  NewItems(o.val) \in Seq(Items)
  <1>1. IsJSON(o.val) /\ o.val.kind \in {"array", "scalar"}
    BY DEF IsOperation, IsField
  <1>2. CASE o.val.kind = "array"
    BY <1>1, <1>2 DEF NewItems, IsJSON
  <1>3. CASE o.val.kind = "scalar"
    <2>1. o.val.items \in Seq(Items) /\ Len(o.val.items) = 1
      BY <1>1, <1>3 DEF IsJSON
    <2>2. o.val.items[1] \in Items
      BY <2>1
    <2> QED
      BY <1>3, <2>2 DEF NewItems
  <1> QED
    BY <1>1, <1>2, <1>3

\* What an operation makes of a list: items, as many as it says it has added and removed, and none lost
\* on which the expressions fail.
Dropped(op, s) == {k \in DOMAIN s : ~Kept(op, s[k])}
Made(o, s, t) ==
  /\ t \in Seq(Items)
  /\ o.op \in {"filter", "remove"} =>
       /\ Cardinality(Dropped(o.op, s)) \in Nat /\ Len(t) = Len(s) - Cardinality(Dropped(o.op, s))
       /\ Range(t) \subseteq Range(s)
  /\ o.op = "transform" => Len(t) = Len(s)
  /\ o.op \in {"prepend", "append"} =>
       Len(t) = Len(s) + Len(NewItems(o.val)) /\ Range(t) = Range(s) \cup Range(NewItems(o.val))
  /\ \A x \in Range(s) : Pred[x] = "error" /\ Rewrite[x] = "error" => x \in Range(t)
\* That is what OnList makes.
LEMMA OnListMakes ==
  ASSUME NEW s \in Seq(Items), NEW o, IsOperation(o), o.op \in ListOps
  PROVE  Made(o, s, OnList(o, s))
  <1>1. Len(s) \in Nat /\ DOMAIN s = 1..Len(s) /\ \A k \in 1..Len(s) : s[k] \in Items
    OBVIOUS
  <1>2. CASE o.op \in {"filter", "remove"}
    <2> DEFINE places == {k \in DOMAIN s : Kept(o.op, s[k])}
               t == Chosen(s, places)
    <2>1. OnList(o, s) = t
      BY <1>2 DEF OnList
    <2>2. places \in SUBSET DOMAIN s
      OBVIOUS
    <2>3. Dropped(o.op, s) = DOMAIN s \ places
      BY DEF Dropped
    <2>4. \A k \in DOMAIN s : Pred[s[k]] = "error" => k \in places
      BY <1>2 DEF Kept
    <2> HIDE DEF places
    <2>5. t \in Seq(Items) /\ Cardinality(places) \in Nat /\ Len(t) = Cardinality(places) /\ Range(t) = {s[i] : i \in places}
      BY <2>2, ChosenProperties
    <2> DEFINE n == Len(s)
    <2>6. IsFiniteSet(1..n) /\ Cardinality(1..n) = n
      <3>1. n \in Nat
        BY <1>1
      <3> HIDE DEF n
      <3>2. 1 \in Int /\ n \in Int /\ (~(1 > n) => n - 1 + 1 = n) /\ (1 > n => n = 0)
        BY <3>1
      <3>3. IsFiniteSet(1..n) /\ Cardinality(1..n) = IF 1 > n THEN 0 ELSE n - 1 + 1
        BY <3>2, FS_Interval
      <3> QED
        BY <3>2, <3>3
    <2>7. Cardinality(Dropped(o.op, s)) = n - Cardinality(places) /\ Cardinality(Dropped(o.op, s)) \in Nat
      <3> DEFINE S == 1..n
      <3>1. IsFiniteSet(S) /\ DOMAIN s = S /\ S \cap places = places
        BY <1>1, <2>2, <2>6
      <3> HIDE DEF S
      <3>2. IsFiniteSet(S \ places) /\ Cardinality(S \ places) = Cardinality(S) - Cardinality(S \cap places)
        BY <3>1, FS_Difference
      <3>3. Cardinality(S \ places) \in Nat
        BY <3>2, FS_CardinalityType
      <3> QED
        BY <2>3, <2>6, <3>1, <3>2, <3>3 DEF S
    <2>8. Len(t) = Len(s) - Cardinality(Dropped(o.op, s))
      BY <1>1, <2>5, <2>7 DEF n
    <2>9. (\A x \in Range(s) : Pred[x] = "error" => x \in Range(t)) /\ Range(t) \subseteq Range(s)
      <3>1. Range(t) \subseteq Range(s)
        BY <2>2, <2>5 DEF Range
      <3>2. \A x \in Range(s) : Pred[x] = "error" => x \in Range(t)
        BY <2>4, <2>5 DEF Range
      <3> QED
        BY <3>1, <3>2
    <2> QED
      BY <1>2, <2>1, <2>5, <2>7, <2>8, <2>9 DEF Made
  <1>3. CASE o.op = "transform"
    <2> DEFINE t == [k \in DOMAIN s |-> Rewritten(s[k])]
    <2>1. OnList(o, s) = t
      BY <1>3 DEF OnList
    <2>2. ASSUME NEW k \in DOMAIN s PROVE t[k] \in Items
      BY <1>1, OpsAssumption DEF Rewritten
    <2>3. t \in Seq(Items) /\ Len(t) = Len(s)
      <3>1. t \in [1..Len(s) -> Items]
        BY <1>1, <2>2
      <3> QED
        BY <1>1, <3>1, SeqDef
    <2>4. \A x \in Range(s) : Rewrite[x] = "error" => x \in Range(t)
      BY DEF Range, Rewritten
    <2> QED
      BY <1>3, <2>1, <2>3, <2>4 DEF Made
  <1>4. CASE o.op \in {"prepend", "append"}
    <2> DEFINE new == NewItems(o.val)
    <2>1. new \in Seq(Items)
      BY <1>4, NewItemsList
    <2> DEFINE before == new \o s
               behind == s \o new
    <2>2. OnList(o, s) \in {before, behind}
      BY <1>4 DEF OnList
    <2>3. /\ before \in Seq(Items) /\ Len(before) = Len(new) + Len(s) /\ Range(before) = Range(new) \cup Range(s)
          /\ behind \in Seq(Items) /\ Len(behind) = Len(s) + Len(new) /\ Range(behind) = Range(s) \cup Range(new)
      BY <2>1, ConcatRange
    <2>4. Len(new) \in Nat
      BY <2>1
    <2> HIDE DEF new, before, behind
    <2>5. /\ OnList(o, s) \in Seq(Items) /\ Len(OnList(o, s)) = Len(s) + Len(new)
          /\ Range(OnList(o, s)) = Range(s) \cup Range(new)
      BY <1>1, <2>2, <2>3, <2>4
    <2> QED
      BY <1>4, <2>5 DEF Made, new
  <1> QED
    BY <1>2, <1>3, <1>4 DEF ListOps

\* An array operation on a place: the list there is replaced, or nothing happens.
LEMMA ListOpEffect ==
  ASSUME NEW c, IsConfig(c), NEW p \in Paths, NEW o, IsOperation(o), o.op \in ListOps
  PROVE  /\ Guarded(p) \/ ~IsArray(c, p) => Exec(c, p, o) = c
         /\ ~Guarded(p) /\ IsArray(c, p) =>
              /\ Exec(c, p, o) = Put(c, p, Arr(OnList(o, Get(c, p).items)))
              /\ Get(c, p).items \in Seq(Items)
              /\ Get(Exec(c, p, o), p) = Arr(OnList(o, Get(c, p).items)) /\ IsConfig(Exec(c, p, o))
  <1>1. Guarded(p) \/ ~IsArray(c, p) => Exec(c, p, o) = c
    BY DEF Exec, ExecList
  <1>2. ASSUME ~Guarded(p), IsArray(c, p)
        PROVE  /\ Exec(c, p, o) = Put(c, p, Arr(OnList(o, Get(c, p).items)))
               /\ Get(c, p).items \in Seq(Items)
               /\ Get(Exec(c, p, o), p) = Arr(OnList(o, Get(c, p).items)) /\ IsConfig(Exec(c, p, o))
    <2> DEFINE s == Get(c, p).items
               t == OnList(o, s)
    <2>1. Exec(c, p, o) = Put(c, p, Arr(t))
      BY <1>2 DEF Exec, ExecList
    <2>2. s \in Seq(Items)
      BY GetIsJSON DEF IsJSON
    <2>3. t \in Seq(Items)
      BY <2>2, OnListMakes DEF Made
    <2> HIDE DEF t
    <2>4. IsField(Arr(t)) /\ Arr(t).kind # "absent"
      BY <2>3 DEF IsField, IsJSON, Arr, JSON
    <2>5. IsJSON(Arr(t))
      BY <2>4 DEF IsField
    <2>6. IsConfig(Put(c, p, Arr(t))) /\ Get(Put(c, p, Arr(t)), p) = Arr(t)
      BY <2>4, <2>5, PutIsConfig
    <2> QED
      BY <2>1, <2>2, <2>6 DEF t
  <1> QED
    BY <1>1, <1>2

\* Every operation leaves a configuration.
LEMMA ExecIsConfig ==
  ASSUME NEW c, IsConfig(c), NEW p \in Paths, NEW o, IsOperation(o)
  PROVE  IsConfig(Exec(c, p, o))
  <1>1. CASE o.op \in ListOps
    BY <1>1, ListOpEffect
  <1>2. CASE o.op \in {"default", "merge", "override"}
    <2>1. IsField(o.val) /\ IsJSON(o.val) /\ o.val.kind # "absent"
      BY <1>2 DEF IsOperation, IsField
    <2>2. IsConfig(Put(c, p, o.val))
      BY <2>1, PutIsConfig
    <2>3. IsConfig([c EXCEPT !["dns.list"] = o.val])
      BY <2>1 DEF IsConfig, Keys
    <2> DEFINE b == IF Get(c, p) = Absent THEN EmptyObj ELSE Get(c, p)
               m == DeepMerge(b, o.val)
    <2>4. IsField(EmptyObj)
      BY DEF IsField, IsJSON, EmptyObj, JSON
    <2>5. IsJSON(b) /\ (Len(p) = 1 => IsField(b))
      BY <2>4, GetIsJSON DEF IsField
    <2> HIDE DEF b
    <2>6. IsJSON(m) /\ (Len(p) = 1 => IsField(m)) /\ m.kind # "absent"
      BY <2>1, <2>5 DEF DeepMerge, MergeObj
    <2> HIDE DEF m
    <2>7. IsConfig(Put(c, p, m))
      BY <2>6, PutIsConfig
    <2>8. ExecMerge(c, p, o) \in {c, Put(c, p, m)}
      BY DEF ExecMerge, m, b
    <2>9. Exec(c, p, o) \in {c, Put(c, p, o.val), [c EXCEPT !["dns.list"] = o.val], Put(c, p, m)}
      BY <1>2, <2>8 DEF Exec, ExecDefault, ExecOverride, ListOps
    <2> QED
      BY <2>2, <2>3, <2>7, <2>9
  <1> QED
    BY <1>1, <1>2 DEF IsOperation, Ops, ListOps

\* The replay of a patch goes through its operations one by one.
LEMMA ReplayOpsSteps ==
  ASSUME NEW c, NEW q, IsList(q.ops)
  PROVE  /\ ReplayOps(c, q)[0] = c
         /\ \A k \in 1..Len(q.ops) : ReplayOps(c, q)[k] = ReplayOp(ReplayOps(c, q)[k - 1], q.path, AllOps(q.ops)[k])
  <1> DEFINE n == Len(q.ops)
             From(k, g) == g = [i \in 0..k |-> IF i = 0 THEN c ELSE ReplayOp(g[i - 1], q.path, AllOps(q.ops)[i])]
             Short(k) == \E g : From(k, g)
  <1>1. n \in Nat
    BY ListFacts
  <1> HIDE DEF n
  <1>2. Short(0)
    <2>1. From(0, [i \in 0..0 |-> c])
      OBVIOUS
    <2> QED
      BY <2>1
  <1>3. ASSUME NEW k \in 1..n, Short(k - 1) PROVE Short(k)
    <2>1. PICK g : From(k - 1, g)
      BY <1>3
    <2> DEFINE h == [i \in 0..k |-> IF i = k THEN ReplayOp(g[k - 1], q.path, AllOps(q.ops)[k]) ELSE g[i]]
    <2>2. k \in Nat /\ k - 1 \in Nat /\ DOMAIN g = 0..(k - 1)
      BY <1>1, <2>1
    <2>3. ASSUME NEW i \in 0..k PROVE h[i] = IF i = 0 THEN c ELSE ReplayOp(h[i - 1], q.path, AllOps(q.ops)[i])
      <3>1. CASE i = k
        <4>1. h[i] = ReplayOp(g[k - 1], q.path, AllOps(q.ops)[k]) /\ h[i - 1] = g[k - 1] /\ i # 0
          BY <1>1, <3>1
        <4> QED
          BY <3>1, <4>1
      <3>2. CASE i # k
        <4>1. i \in 0..(k - 1) /\ h[i] = g[i]
          BY <1>1, <3>2
        <4>2. g[i] = IF i = 0 THEN c ELSE ReplayOp(g[i - 1], q.path, AllOps(q.ops)[i])
          BY <2>1, <4>1
        <4>3. i # 0 => h[i - 1] = g[i - 1]
          BY <1>1, <4>1
        <4> QED
          BY <4>1, <4>2, <4>3
      <3> QED
        BY <3>1, <3>2
    <2>4. From(k, h)
      <3>1. h = [i \in 0..k |-> h[i]]
        OBVIOUS
      <3> HIDE DEF h
      <3> QED
        BY <2>3, <3>1
    <2> QED
      BY <2>4
  <1>4. Short(n)
    <2> DEFINE bad == {k \in 0..n : ~Short(k)}
    <2>1. bad \in SUBSET Nat /\ \A k \in bad : k \in 0..n
      BY <1>1
    <2>2. ASSUME bad # {} PROVE FALSE
      <3>1. PICK k \in bad : \A j \in bad : k <= j
        BY <2>1, <2>2, LeastNumber
      <3>2. k \in 0..n /\ ~Short(k)
        OBVIOUS
      <3>3. k # 0
        BY <1>2, <3>2
      <3>4. k \in 1..n /\ k - 1 \in 0..n /\ ~(k <= k - 1)
        BY <1>1, <3>2, <3>3
      <3>5. Short(k - 1)
        BY <3>1, <3>4
      <3> QED
        BY <1>3, <3>2, <3>4, <3>5
    <2>3. n \in 0..n
      BY <1>1
    <2> HIDE DEF Short
    <2> QED
      BY <2>2, <2>3
  <1> DEFINE f == CHOOSE g : From(n, g)
  <1>5. From(n, f)
    BY <1>4, Zenon
  <1>6. ReplayOps(c, q) = f
    BY Zenon DEF ReplayOps, n
  <1> HIDE DEF f
  <1>7. \A i \in 0..n : f[i] = IF i = 0 THEN c ELSE ReplayOp(f[i - 1], q.path, AllOps(q.ops)[i])
    BY <1>5
  <1>8. 0 \in 0..n /\ \A k \in 1..n : k \in 0..n /\ k # 0
    BY <1>1
  <1> QED
    BY <1>6, <1>7, <1>8 DEF n

\* The replay of a program goes through its patches one by one.
LEMMA ReplaySteps ==
  ASSUME NEW b, NEW prog, IsList(prog)
  PROVE  /\ Replay(b, prog)[0] = b
         /\ \A k \in 1..Len(prog) : Replay(b, prog)[k] = ReplayPatch(Replay(b, prog)[k - 1], prog[k])
  <1> DEFINE n == Len(prog)
             From(k, g) == g = [i \in 0..k |-> IF i = 0 THEN b ELSE ReplayPatch(g[i - 1], prog[i])]
             Short(k) == \E g : From(k, g)
  <1>1. n \in Nat
    BY ListFacts
  <1> HIDE DEF n
  <1>2. Short(0)
    <2>1. From(0, [i \in 0..0 |-> b])
      OBVIOUS
    <2> QED
      BY <2>1
  <1>3. ASSUME NEW k \in 1..n, Short(k - 1) PROVE Short(k)
    <2>1. PICK g : From(k - 1, g)
      BY <1>3
    <2> DEFINE h == [i \in 0..k |-> IF i = k THEN ReplayPatch(g[k - 1], prog[k]) ELSE g[i]]
    <2>2. k \in Nat /\ k - 1 \in Nat /\ DOMAIN g = 0..(k - 1)
      BY <1>1, <2>1
    <2>3. ASSUME NEW i \in 0..k PROVE h[i] = IF i = 0 THEN b ELSE ReplayPatch(h[i - 1], prog[i])
      <3>1. CASE i = k
        <4>1. h[i] = ReplayPatch(g[k - 1], prog[k]) /\ h[i - 1] = g[k - 1] /\ i # 0
          BY <1>1, <3>1
        <4> QED
          BY <3>1, <4>1
      <3>2. CASE i # k
        <4>1. i \in 0..(k - 1) /\ h[i] = g[i]
          BY <1>1, <3>2
        <4>2. g[i] = IF i = 0 THEN b ELSE ReplayPatch(g[i - 1], prog[i])
          BY <2>1, <4>1
        <4>3. i # 0 => h[i - 1] = g[i - 1]
          BY <1>1, <4>1
        <4> QED
          BY <4>1, <4>2, <4>3
      <3> QED
        BY <3>1, <3>2
    <2>4. From(k, h)
      <3>1. h = [i \in 0..k |-> h[i]]
        OBVIOUS
      <3> HIDE DEF h
      <3> QED
        BY <2>3, <3>1
    <2> QED
      BY <2>4
  <1>4. Short(n)
    <2> DEFINE bad == {k \in 0..n : ~Short(k)}
    <2>1. bad \in SUBSET Nat /\ \A k \in bad : k \in 0..n
      BY <1>1
    <2>2. ASSUME bad # {} PROVE FALSE
      <3>1. PICK k \in bad : \A j \in bad : k <= j
        BY <2>1, <2>2, LeastNumber
      <3>2. k \in 0..n /\ ~Short(k)
        OBVIOUS
      <3>3. k # 0
        BY <1>2, <3>2
      <3>4. k \in 1..n /\ k - 1 \in 0..n /\ ~(k <= k - 1)
        BY <1>1, <3>2, <3>3
      <3>5. Short(k - 1)
        BY <3>1, <3>4
      <3> QED
        BY <1>3, <3>2, <3>4, <3>5
    <2>3. n \in 0..n
      BY <1>1
    <2> HIDE DEF Short
    <2> QED
      BY <2>2, <2>3
  <1> DEFINE f == CHOOSE g : From(n, g)
  <1>5. From(n, f)
    BY <1>4, Zenon
  <1>6. Replay(b, prog) = f
    BY Zenon DEF Replay, n
  <1> HIDE DEF f
  <1>7. \A i \in 0..n : f[i] = IF i = 0 THEN b ELSE ReplayPatch(f[i - 1], prog[i])
    BY <1>5
  <1>8. 0 \in 0..n /\ \A k \in 1..n : k \in 0..n /\ k # 0
    BY <1>1
  <1> QED
    BY <1>6, <1>7, <1>8 DEF n

\* Where replay does not differ, it does what the run does.
LEMMA ReplaySame ==
  ASSUME NEW c, IsConfig(c), NEW q, IsPatch(q), NEW o, IsOperation(o), ~ReplayDiffers(c, q, o)
  PROVE  ReplayOp(c, q.path, o) = Exec(c, q.path, o)
  <1> DEFINE p == q.path
             s == Get(c, p).items
  <1>1. p \in Paths
    BY DEF IsPatch
  <1> SUFFICES ReplayOp(c, p, o) = Exec(c, p, o)
    OBVIOUS
  <1> HIDE DEF p
  <1>2. ~(Guarded(p) /\ o.op \in {"merge", "override"}) /\ (o.op = "merge" => Get(c, p) # Absent) /\ (o.op = "override" => Creatable(c, p))
    BY DEF ReplayDiffers, p
  <1>3. CASE Guarded(p)
    BY <1>2, <1>3 DEF ReplayOp, ReplaySkips, Exec
  <1>4. CASE ~Guarded(p) /\ o.op \in ListOps
    <2>1. IsJSON(Get(c, p))
      BY <1>1, GetIsJSON
    <2>2. s \in Seq(Items)
      BY <2>1 DEF IsJSON
    <2>3. ReplayOnList(o, s) = OnList(o, s)
      <3>1. CASE o.op = "filter"
        BY <3>1 DEF ReplayOnList, OnList, ReplayKept, Kept
      <3>2. CASE o.op = "remove"
        <4>1. \A k \in DOMAIN s : s[k] \in Items /\ Pred[s[k]] \in {"yes", "no", "error"}
          BY <2>2, OpsAssumption
        <4>2. \A k \in DOMAIN s : Pred[s[k]] # "error"
          BY <3>2 DEF ReplayDiffers, Range, p
        <4> HIDE DEF s
        <4>3. {k \in DOMAIN s : ReplayKept("remove", s[k])} = {k \in DOMAIN s : Kept("remove", s[k])}
          BY <4>1, <4>2 DEF ReplayKept, Kept
        <4> QED
          BY <3>2, <4>3 DEF ReplayOnList, OnList
      <3>3. CASE o.op \notin {"filter", "remove"}
        BY <3>3 DEF ReplayOnList
      <3> QED
        BY <3>1, <3>2, <3>3
    <2> QED
      BY <1>4, <2>3 DEF ReplayOp, ReplaySkips, Exec, ExecList
  <1>5. CASE ~Guarded(p) /\ o.op = "default"
    BY <1>5 DEF ReplayOp, ReplaySkips, Exec, ListOps
  <1>6. CASE ~Guarded(p) /\ o.op = "merge"
    <2>1. Get(c, p) # Absent /\ Creatable(c, p)
      BY <1>1, <1>2, <1>6, GetIsJSON
    <2> QED
      BY <1>6, <2>1 DEF ReplayOp, ReplaySkips, Exec, ListOps, ReplayMerge, ExecMerge
  <1>7. CASE ~Guarded(p) /\ o.op = "override"
    BY <1>2, <1>7 DEF ReplayOp, ReplaySkips, Exec, ListOps, ReplayOverride, ExecOverride
  <1> QED
    BY <1>3, <1>4, <1>5, <1>6, <1>7 DEF IsOperation, Ops, ListOps

-----------------------------------------------------------------------------
(* The order of the operations of a patch. *)

\* The order of the operations: a default comes after what needs a list and before what adds to it.
LEMMA OrderOfOps ==
  /\ \A op \in Ops : ExecutionOrder[op] \in Int
  /\ \A op \in {"prepend", "append"} : ExecutionOrder["default"] < ExecutionOrder[op]
  /\ \A op \in {"filter", "remove", "transform"} : ExecutionOrder[op] < ExecutionOrder["default"]
  BY DEF ExecutionOrder, Ops

\* The operations of a patch, by rank.
Runs(t, q) ==
  /\ IsList(t) /\ Len(t) = Len(q.ops) /\ t # <<>> /\ Range(t) = Range(q.ops)
  /\ \A i \in 1..Len(t) : IsOperation(t[i]) /\ t[i].op \in Ops
  /\ \A i, j \in 1..Len(t) : i < j => ExecutionOrder[t[i].op] <= ExecutionOrder[t[j].op]
\* The operations run are those of the patch, in their order.
LEMMA AllOpsRun ==
  ASSUME NEW q, IsPatch(q)
  PROVE  Runs(AllOps(q.ops), q)
  <1> DEFINE s == q.ops
             rank == [n \in DOMAIN s |-> ExecutionOrder[s[n].op]]
             t == SortedBy(s, rank)
             N == Len(s)
  <1>1. /\ IsList(s) /\ N \in Nat /\ N # 0 /\ DOMAIN s = 1..N
        /\ \A i \in 1..N : IsOperation(s[i]) /\ s[i].op \in Ops
    <2>1. IsList(s) /\ s # <<>> /\ \A i \in DOMAIN s : IsOperation(s[i])
      BY DEF IsPatch
    <2>2. N \in Nat /\ DOMAIN s = 1..N /\ N # 0
      BY <2>1, ListFacts
    <2> QED
      BY <2>1, <2>2 DEF IsOperation
  <1>2. rank \in [DOMAIN s -> Int] /\ \A i \in 1..N : rank[i] = ExecutionOrder[s[i].op]
    BY <1>1, OrderOfOps
  <1> HIDE DEF s, rank
  <1>3. IsList(t) /\ Len(t) = N
    BY <1>1, <1>2, SortedProperties
  <1>4. PICK at \in [1..N -> 1..N] :
          /\ \A i \in 1..N : t[i] = s[at[i]]
          /\ \A i \in 1..N : \E k \in 1..N : at[k] = i
          /\ \A i, j \in 1..N : i < j => rank[at[i]] <= rank[at[j]]
    BY <1>1, <1>2, SortedProperties
  <1> HIDE DEF t, N
  <1>5. t # <<>> /\ DOMAIN t = 1..N
    BY <1>1, <1>3, ListFacts
  <1>6. Range(t) = Range(s)
    <2>1. Range(t) \subseteq Range(s)
      BY <1>1, <1>4, <1>5 DEF Range
    <2>2. ASSUME NEW i \in 1..N PROVE s[i] \in Range(t)
      <3>1. PICK k \in 1..N : at[k] = i
        BY <1>4
      <3> QED
        BY <1>4, <1>5, <3>1 DEF Range
    <2> QED
      BY <1>1, <2>1, <2>2 DEF Range
  <1>7. \A i \in 1..N : IsOperation(t[i]) /\ t[i].op \in Ops
    BY <1>1, <1>4
  <1>8. ASSUME NEW i \in 1..N, NEW j \in 1..N, i < j
        PROVE  ExecutionOrder[t[i].op] <= ExecutionOrder[t[j].op]
    <2>1. rank[at[i]] <= rank[at[j]] /\ at[i] \in 1..N /\ at[j] \in 1..N
      BY <1>4, <1>8
    <2>2. rank[at[i]] = ExecutionOrder[t[i].op] /\ rank[at[j]] = ExecutionOrder[t[j].op]
      BY <1>2, <1>4, <2>1
    <2> QED
      BY <2>1, <2>2
  <1>9. AllOps(q.ops) = t
    BY DEF AllOps, t, s, rank
  <1> QED
    BY <1>3, <1>5, <1>6, <1>7, <1>8, <1>9 DEF Runs, s, N

-----------------------------------------------------------------------------
(* The run of a patch. *)

\* What is left of a patch: its operations, in their order.
Left(t, q) ==
  /\ IsList(t) /\ Range(t) \subseteq Range(q.ops)
  /\ \A i \in 1..Len(t) : IsOperation(t[i]) /\ t[i].op \in Ops
  /\ \A i, j \in 1..Len(t) : i < j => ExecutionOrder[t[i].op] <= ExecutionOrder[t[j].op]
\* The first is one of them, and none after it comes before it.
LEMMA LeftTail ==
  ASSUME NEW q, NEW t, Left(t, q), t # <<>>
  PROVE  /\ Left(Tail(t), q) /\ IsOperation(Head(t)) /\ Head(t) \in Range(q.ops) /\ Head(t).op \in Ops
         /\ \A o \in Range(Tail(t)) : o \in Range(t) /\ o.op \in Ops /\ ExecutionOrder[Head(t).op] <= ExecutionOrder[o.op]
         /\ Range(t) = {Head(t)} \cup Range(Tail(t))
  <1> DEFINE n == Len(t)
             u == Tail(t)
  <1>1. /\ IsList(u) /\ Len(u) = n - 1 /\ n \in Nat \ {0}
        /\ \A i \in 1..n - 1 : u[i] = t[i + 1]
        /\ Head(t) = t[1] /\ Head(t) \in Range(t)
        /\ Range(u) \subseteq Range(t) /\ Range(t) = {Head(t)} \cup Range(u)
    BY TailList DEF Left
  <1>2. DOMAIN u = 1..n - 1
    BY <1>1, ListFacts
  <1>3. /\ \A i \in 1..n : IsOperation(t[i]) /\ t[i].op \in Ops
        /\ \A i, j \in 1..n : i < j => ExecutionOrder[t[i].op] <= ExecutionOrder[t[j].op]
        /\ Range(t) \subseteq Range(q.ops)
    BY DEF Left
  <1> HIDE DEF u, n
  <1>4. \A i \in 1..n - 1 : i + 1 \in 1..n /\ 1 < i + 1 /\ 1 \in 1..n
    BY <1>1
  <1>5. \A i \in 1..n - 1 : IsOperation(u[i]) /\ u[i].op \in Ops
    BY <1>1, <1>3, <1>4
  <1>6. \A i, j \in 1..n - 1 : i < j => ExecutionOrder[u[i].op] <= ExecutionOrder[u[j].op]
    <2> SUFFICES ASSUME NEW i \in 1..n - 1, NEW j \in 1..n - 1, i < j
                 PROVE  ExecutionOrder[u[i].op] <= ExecutionOrder[u[j].op]
      OBVIOUS
    <2>1. i + 1 \in 1..n /\ j + 1 \in 1..n /\ i + 1 < j + 1
      BY <1>1
    <2>2. ExecutionOrder[t[i + 1].op] <= ExecutionOrder[t[j + 1].op]
      BY <1>3, <2>1
    <2> QED
      BY <1>1, <2>2
  <1>7. Left(u, q)
    BY <1>1, <1>3, <1>5, <1>6 DEF Left
  <1>8. 1 \in 1..n
    BY <1>1
  <1>9. IsOperation(Head(t)) /\ Head(t).op \in Ops
    BY <1>1, <1>3, <1>8
  <1>10. ASSUME NEW o \in Range(u) PROVE o \in Range(t) /\ o.op \in Ops /\ ExecutionOrder[Head(t).op] <= ExecutionOrder[o.op]
    <2>1. PICK i \in 1..n - 1 : o = u[i]
      BY <1>2 DEF Range
    <2>2. i + 1 \in 1..n /\ 1 < i + 1 /\ o = t[i + 1]
      BY <1>1, <1>4, <2>1
    <2> QED
      BY <1>1, <1>3, <1>8, <2>2
  <1>11. Head(t) \in Range(q.ops)
    BY <1>1, <1>3
  <1> QED
    BY <1>1, <1>7, <1>9, <1>10, <1>11 DEF u

\* A patch has each operation once, a merge or an override alone.
LEMMA OneOfAKind ==
  ASSUME NEW q, IsPatch(q)
  PROVE  /\ \A o, d \in Range(q.ops) : o.op = d.op => o = d
         /\ \A o, d \in Range(q.ops) : o.op \in {"merge", "override"} => o = d
         /\ \A o \in Range(q.ops) : IsOperation(o) /\ o.op \in Ops
  <1>1. DOMAIN q.ops = 1..Len(q.ops)
    BY ListFacts DEF IsPatch
  <1>2. ASSUME NEW o \in Range(q.ops), NEW d \in Range(q.ops)
        PROVE  (o.op = d.op => o = d) /\ (o.op \in {"merge", "override"} => o = d)
    <2>1. PICK i \in DOMAIN q.ops : o = q.ops[i]
      BY DEF Range
    <2>2. PICK j \in DOMAIN q.ops : d = q.ops[j]
      BY DEF Range
    <2>3. /\ q.ops[i].op = q.ops[j].op => i = j
          /\ q.ops[i].op \in {"merge", "override"} => Len(q.ops) = 1
      BY DEF IsPatch
    <2>4. Len(q.ops) = 1 => i = j
      BY <1>1
    <2> QED
      BY <2>1, <2>2, <2>3, <2>4
  <1>3. \A o \in Range(q.ops) : IsOperation(o) /\ o.op \in Ops
    BY DEF IsPatch, Range, IsOperation
  <1> QED
    BY <1>2, <1>3

\* The array a $default puts in place is still to come, and all that is to be added to it after it;
\* or it is there, nothing is left that takes from it, and what is not in it is still to be added.
Waits(c, t, q) ==
  /\ Creatable(c, q.path) /\ Get(c, q.path).kind \in {"absent", "null"}
  /\ \E d \in Range(t) : d.op = "default" /\ d.val.kind = "array"
  /\ \A o \in Range(q.ops) : o.op \in {"prepend", "append"} => o \in Range(t)
Takes(c, t, q) ==
  /\ IsArray(c, q.path) /\ \E d \in Range(q.ops) : d.op = "default"
  /\ \A o \in Range(t) : o.op \notin {"filter", "remove", "transform"}
  /\ \A o \in Range(q.ops) : o.op \in {"prepend", "append"} =>
       o \in Range(t) \/ Range(NewItems(o.val)) \subseteq Range(Get(c, q.path).items)
\* A step leaves it so.
LEMMA FeedStep ==
  ASSUME NEW q, IsPatch(q), ~Guarded(q.path), NEW c, IsConfig(c), NEW t, Left(t, q), t # <<>>,
         Waits(c, t, q) \/ Takes(c, t, q)
  PROVE  LET e == Exec(c, q.path, Head(t)) IN Waits(e, Tail(t), q) \/ Takes(e, Tail(t), q)
  <1> DEFINE p == q.path
             h == Head(t)
             u == Tail(t)
             e == Exec(c, p, h)
  <1>1. /\ IsOperation(h) /\ h \in Range(q.ops) /\ h.op \in Ops
        /\ \A o \in Range(u) : o \in Range(t) /\ o.op \in Ops /\ ExecutionOrder[h.op] <= ExecutionOrder[o.op]
        /\ Range(t) = {h} \cup Range(u)
    BY LeftTail
  <1>2. /\ \A o, d \in Range(q.ops) : o.op = d.op => o = d
        /\ \A o, d \in Range(q.ops) : o.op \in {"merge", "override"} => o = d
    BY OneOfAKind
  <1>3. p \in Paths /\ ~Guarded(p)
    BY DEF IsPatch
  <1>4. Range(t) \subseteq Range(q.ops)
    BY DEF Left
  <1> SUFFICES Waits(e, u, q) \/ Takes(e, u, q)
    OBVIOUS
  <1> HIDE DEF h, u
  <1>5. CASE Waits(c, t, q)
    <2>1. PICK d \in Range(t) : d.op = "default" /\ d.val.kind = "array"
      BY <1>5 DEF Waits
    <2>2. Creatable(c, p) /\ Get(c, p).kind \in {"absent", "null"} /\ ~IsArray(c, p)
      BY <1>5 DEF Waits, IsArray
    <2>3. h.op \notin {"merge", "override"}
      <3> SUFFICES ASSUME h.op \in {"merge", "override"} PROVE FALSE
        OBVIOUS
      <3>1. h = d
        BY <1>1, <1>2, <1>4
      <3> QED
        BY <2>1, <3>1
    <2>4. CASE h.op = "default"
      <3>1. h = d
        BY <1>1, <1>2, <1>4, <2>1, <2>4
      <3>2. e = Put(c, p, d.val)
        BY <1>3, <2>1, <2>2, <3>1 DEF Exec, ExecDefault, ListOps
      <3>3. IsField(d.val) /\ IsJSON(d.val)
        BY <1>1, <3>1 DEF IsOperation, IsField
      <3>4. Get(e, p) = d.val
        BY <1>3, <2>1, <3>2, <3>3, PutIsConfig
      <3>5. IsArray(e, p)
        BY <2>1, <3>4 DEF IsArray
      <3>6. ASSUME NEW o \in Range(u) PROVE o.op \notin {"filter", "remove", "transform"}
        <4>1. ExecutionOrder["default"] <= ExecutionOrder[o.op] /\ o.op \in Ops
          BY <1>1, <2>4
        <4>2. ExecutionOrder["default"] \in Int /\ ExecutionOrder[o.op] \in Int
          BY <4>1, OrderOfOps DEF Ops
        <4> QED
          BY <4>1, <4>2, OrderOfOps
      <3>7. ASSUME NEW o \in Range(q.ops), o.op \in {"prepend", "append"} PROVE o \in Range(u)
        <4>1. o \in Range(t) /\ o # h
          BY <1>5, <2>4, <3>7 DEF Waits
        <4> QED
          BY <1>1, <4>1
      <3> QED
        BY <1>1, <2>4, <3>5, <3>6, <3>7 DEF Takes
    <2>5. CASE h.op \in {"prepend", "append"}
      <3>1. d \in Range(u)
        BY <1>1, <2>1, <2>5
      <3>2. ExecutionOrder[h.op] <= ExecutionOrder["default"] /\ ExecutionOrder[h.op] \in Int /\ ExecutionOrder["default"] \in Int
        BY <1>1, <2>1, <3>1, OrderOfOps DEF Ops
      <3>3. ExecutionOrder["default"] < ExecutionOrder[h.op]
        BY <2>5, OrderOfOps
      <3> QED
        BY <3>2, <3>3
    <2>6. CASE h.op \in {"filter", "remove", "transform"}
      <3>1. e = c
        BY <1>1, <1>3, <2>2, <2>6, ListOpEffect DEF ListOps
      <3>2. d \in Range(u)
        BY <1>1, <2>1, <2>6
      <3>3. \A o \in Range(q.ops) : o.op \in {"prepend", "append"} => o \in Range(u)
        BY <1>1, <1>5, <2>6 DEF Waits
      <3>4. Waits(c, u, q)
        BY <1>5, <2>1, <3>2, <3>3 DEF Waits
      <3> QED
        BY <3>1, <3>4
    <2> QED
      BY <1>1, <2>3, <2>4, <2>5, <2>6 DEF Ops
  <1>6. CASE Takes(c, t, q)
    <2>1. IsArray(c, p) /\ h.op \notin {"filter", "remove", "transform"}
      BY <1>1, <1>6 DEF Takes
    <2>2. \A o \in Range(u) : o.op \notin {"filter", "remove", "transform"}
      BY <1>1, <1>6 DEF Takes
    <2>3. CASE h.op \in {"prepend", "append"}
      <3> DEFINE s == Get(c, p).items
                 r == OnList(h, s)
      <3>1. h.op \in ListOps
        BY <2>3 DEF ListOps
      <3>2. s \in Seq(Items) /\ Get(e, p) = Arr(r)
        BY <1>1, <1>3, <2>1, <3>1, ListOpEffect
      <3>3. Range(r) = Range(s) \cup Range(NewItems(h.val))
        BY <1>1, <2>3, <3>1, <3>2, OnListMakes DEF Made
      <3>4. Get(e, p).items = r /\ IsArray(e, p)
        BY <3>2 DEF IsArray, Arr, JSON
      <3> HIDE DEF r, s, e
      <3>5. ASSUME NEW o \in Range(q.ops), o.op \in {"prepend", "append"}
            PROVE  o \in Range(u) \/ Range(NewItems(o.val)) \subseteq Range(r)
        <4>1. o \in Range(t) \/ Range(NewItems(o.val)) \subseteq Range(s)
          BY <1>6, <3>5 DEF Takes, s
        <4> QED
          BY <1>1, <3>3, <4>1
      <3>6. Takes(e, u, q)
        BY <1>6, <2>2, <3>4, <3>5 DEF Takes
      <3> QED
        BY <3>6
    <2>4. CASE h.op = "default"
      <3>1. e = c
        BY <1>3, <2>1, <2>4 DEF Exec, ExecDefault, ListOps, IsArray
      <3>2. \A o \in Range(q.ops) : o.op \in {"prepend", "append"} =>
               o \in Range(u) \/ Range(NewItems(o.val)) \subseteq Range(Get(c, p).items)
        BY <1>1, <1>6, <2>4 DEF Takes
      <3>3. Takes(c, u, q)
        BY <1>6, <2>1, <2>2, <3>2 DEF Takes
      <3> QED
        BY <3>1, <3>3
    <2>5. h.op \notin {"merge", "override"}
      <3> SUFFICES ASSUME h.op \in {"merge", "override"} PROVE FALSE
        OBVIOUS
      <3>1. PICK d \in Range(q.ops) : d.op = "default"
        BY <1>6 DEF Takes
      <3>2. h = d
        BY <1>1, <1>2
      <3> QED
        BY <3>1, <3>2
    <2> QED
      BY <1>1, <2>1, <2>3, <2>4, <2>5 DEF Ops
  <1> QED
    BY <1>5, <1>6

\* Whatever an array operation leaves out, it is no item its expressions fail on.
Stays(b, c, q) ==
  {o.op : o \in Range(q.ops)} \subseteq ListOps =>
    \A x \in Range(Get(b, q.path).items) :
      Pred[x] = "error" /\ Rewrite[x] = "error" => x \in Range(Get(c, q.path).items)
\* An operation keeps it so.
LEMMA StayStep ==
  ASSUME NEW q, IsPatch(q), NEW b, NEW c, IsConfig(c), NEW o \in Range(q.ops), Stays(b, c, q)
  PROVE  Stays(b, Exec(c, q.path, o), q)
  <1> DEFINE p == q.path
             e == Exec(c, p, o)
             s == Get(c, p).items
             r == OnList(o, s)
  <1>1. p \in Paths /\ IsOperation(o)
    BY OneOfAKind DEF IsPatch
  <1> SUFFICES ASSUME {d.op : d \in Range(q.ops)} \subseteq ListOps PROVE Stays(b, e, q)
    BY DEF Stays
  <1>2. o.op \in ListOps
    OBVIOUS
  <1>3. CASE Guarded(p) \/ ~IsArray(c, p)
    <2>1. e = c
      BY <1>1, <1>2, <1>3, ListOpEffect
    <2> QED
      BY <2>1
  <1>4. CASE ~Guarded(p) /\ IsArray(c, p)
    <2>1. s \in Seq(Items) /\ Get(e, p) = Arr(r)
      BY <1>1, <1>2, <1>4, ListOpEffect
    <2>2. \A x \in Range(s) : Pred[x] = "error" /\ Rewrite[x] = "error" => x \in Range(r)
      BY <1>1, <1>2, <2>1, OnListMakes DEF Made
    <2>3. Get(e, p).items = r
      BY <2>1 DEF Arr, JSON
    <2> HIDE DEF e, r
    <2> QED
      BY <2>2, <2>3 DEF Stays
  <1> QED
    BY <1>3, <1>4

\* What the trace of an array operation counts.
TraceRecord == [added: Nat, removed: Nat, modified: Nat, affected: Nat]
\* A trace is one.
LEMMA SummaryType ==
  ASSUME NEW c, IsConfig(c), NEW p \in Paths, NEW o, IsOperation(o)
  PROVE  Summary(c, p, o) \in TraceRecord /\ Skipped \in TraceRecord
  <1> DEFINE s == Get(c, p).items
             a == Added(c, p, o)
             r == Removed(c, p, o)
             m == Modified(c, p, o)
             f == Affected(c, p, o)
  <1>1. s \in Seq(Items) /\ Len(s) \in Nat /\ DOMAIN s = 1..Len(s)
    BY GetIsJSON DEF IsJSON
  <1>2. IsFiniteSet(DOMAIN s)
    <2> DEFINE n == Len(s)
    <2>1. 1 \in Int /\ n \in Int
      BY <1>1
    <2> HIDE DEF n
    <2>2. IsFiniteSet(1..n)
      BY <2>1, FS_Interval
    <2> QED
      BY <1>1, <2>2 DEF n
  <1> HIDE DEF s
  <1>3. \A S \in SUBSET DOMAIN s : Cardinality(S) \in Nat
    BY <1>2, FS_Subset, FS_CardinalityType
  <1>4. o.op \in {"prepend", "append"} => Len(NewItems(o.val)) \in Nat
    BY NewItemsList
  <1>5. a \in Nat
    BY <1>4 DEF Added
  <1>6. r \in Nat
    BY <1>3 DEF Removed, s
  <1>7. m \in Nat
    BY <1>3 DEF Modified, s
  <1>8. f \in {Len(NewItems(o.val)), r + m} /\ (o.op \notin {"prepend", "append"} => f = r + m)
    BY DEF Affected
  <1> HIDE DEF a, r, m, f
  <1>9. f \in Nat
    BY <1>4, <1>6, <1>7, <1>8
  <1>10. [added |-> a, removed |-> r, modified |-> m, affected |-> f] \in TraceRecord
    BY <1>5, <1>6, <1>7, <1>9 DEF TraceRecord
  <1>11. Skipped \in TraceRecord
    BY DEF Skipped, TraceRecord
  <1>12. Summary(c, p, o) \in {Skipped, [added |-> a, removed |-> r, modified |-> m, affected |-> f]}
    BY DEF Summary, a, r, m, f
  <1> QED
    BY <1>10, <1>11, <1>12

\* It counts by how much the array grows.
LEMMA SummaryCounts ==
  ASSUME NEW c, IsConfig(c), NEW p \in Paths, NEW o, IsOperation(o), o.op \in ListOps
  PROVE  /\ Length(Exec(c, p, o), p) - Length(c, p) = Summary(c, p, o).added - Summary(c, p, o).removed
         /\ IsArray(c, p) /\ ~Guarded(p) =>
              Summary(c, p, o).affected = Summary(c, p, o).added + Summary(c, p, o).removed + Summary(c, p, o).modified
  <1> DEFINE s == Get(c, p).items
             e == Exec(c, p, o)
             t == OnList(o, s)
             a == Added(c, p, o)
             r == Removed(c, p, o)
             m == Modified(c, p, o)
             f == Affected(c, p, o)
             y == Summary(c, p, o)
  <1>1. s \in Seq(Items) /\ Len(s) \in Nat
    BY GetIsJSON DEF IsJSON
  <1>2. Length(c, p) \in Nat /\ (IsArray(c, p) => Length(c, p) = Len(s))
    BY <1>1 DEF Length
  <1>3. y \in TraceRecord
    BY SummaryType
  <1>4. CASE Guarded(p)
    <2>1. e = c /\ y = Skipped
      BY <1>4, ListOpEffect DEF Summary
    <2> HIDE DEF e, y
    <2>2. y.added = 0 /\ y.removed = 0
      BY <2>1 DEF Skipped
    <2> QED
      BY <1>2, <1>4, <2>1, <2>2 DEF e, y
  <1>5. CASE ~Guarded(p)
    <2>1. y = [added |-> a, removed |-> r, modified |-> m, affected |-> f]
      BY <1>5 DEF Summary
    <2>2. y.added = a /\ y.removed = r /\ y.modified = m /\ y.affected = f
      BY <2>1
    <2>3. a \in Nat /\ r \in Nat /\ m \in Nat
      <3> HIDE DEF a, r, m, f, y
      <3>1. y.added \in Nat /\ y.removed \in Nat /\ y.modified \in Nat
        BY <1>3 DEF TraceRecord
      <3> QED
        BY <2>2, <3>1
    <2>4. CASE ~IsArray(c, p)
      <3>1. e = c
        BY <2>4, ListOpEffect
      <3>2. a = 0 /\ r = 0
        BY <2>4 DEF Added, Removed
      <3> HIDE DEF e, y
      <3> QED
        BY <1>2, <2>2, <2>4, <3>1, <3>2 DEF e, y
    <2>5. CASE IsArray(c, p)
      <3>1. Get(e, p) = Arr(t)
        BY <1>5, <2>5, ListOpEffect
      <3>2. Length(e, p) = Len(t)
        <4> HIDE DEF e, t
        <4> QED
          BY <3>1 DEF Length, IsArray, Arr, JSON
      <3>3. Made(o, s, t)
        BY <1>1, OnListMakes
      <3>4. Len(t) - Len(s) = a - r
        <4>1. CASE o.op \in {"filter", "remove"}
          <5>1. a = 0 /\ r = Cardinality(Dropped(o.op, s))
            BY <2>5, <4>1 DEF Added, Removed, Dropped
          <5> HIDE DEF t, s, a, r
          <5>2. r \in Nat /\ Len(t) = Len(s) - r
            BY <3>3, <4>1, <5>1 DEF Made
          <5> QED
            BY <1>1, <5>1, <5>2
        <4>2. CASE o.op = "transform"
          <5>1. a = 0 /\ r = 0
            BY <4>2 DEF Added, Removed
          <5> HIDE DEF t, s, a, r
          <5>2. Len(t) = Len(s)
            BY <3>3, <4>2 DEF Made
          <5> QED
            BY <1>1, <5>1, <5>2
        <4>3. CASE o.op \in {"prepend", "append"}
          <5>1. a = Len(NewItems(o.val)) /\ r = 0
            BY <2>5, <4>3 DEF Added, Removed
          <5> HIDE DEF t, s, a, r
          <5>2. Len(t) = Len(s) + a
            BY <3>3, <4>3, <5>1 DEF Made
          <5> QED
            BY <1>1, <2>3, <5>1, <5>2
        <4> QED
          BY <4>1, <4>2, <4>3 DEF ListOps
      <3>5. f = a + r + m
        <4>1. CASE o.op \in {"prepend", "append"}
          <5>1. a = Len(NewItems(o.val)) /\ r = 0 /\ m = 0 /\ f = Len(NewItems(o.val))
            BY <2>5, <4>1 DEF Added, Removed, Modified, Affected
          <5> HIDE DEF a, r, m, f
          <5> QED
            BY <2>3, <5>1
        <4>2. CASE o.op \notin {"prepend", "append"}
          <5>1. a = 0 /\ f = r + m
            BY <4>2 DEF Added, Affected
          <5> HIDE DEF a, r, m, f
          <5> QED
            BY <2>3, <5>1
        <4> QED
          BY <4>1, <4>2
      <3> HIDE DEF a, r, m, f, s, t
      <3>6. Length(e, p) - Length(c, p) = a - r
        BY <1>2, <2>5, <3>2, <3>4
      <3> QED
        BY <2>2, <3>5, <3>6
    <2> QED
      BY <2>4, <2>5
  <1> QED
    BY <1>4, <1>5

-----------------------------------------------------------------------------
(* The run of a program. *)

\* What has been run and what is left: the patches up to place, the last one up to the operations
\* in todo.
Going ==
  /\ base \in Bases /\ IsProgram(program) /\ place \in 0..Len(program) /\ alike \in BOOLEAN
  /\ IsConfig(config) /\ IsList(todo) /\ IsList(snapshots)
  /\ Len(snapshots) = (IF todo = <<>> THEN place ELSE place - 1)
  /\ todo = <<>> => config = (IF place = 0 THEN base ELSE snapshots[place])
  /\ todo # <<>> =>
       /\ place # 0 /\ Left(todo, Current) /\ Len(todo) <= Len(Current.ops)
       /\ \A j \in 1..Len(todo) : todo[j] = AllOps(Current.ops)[Len(Current.ops) - Len(todo) + j]
Counted == IsList(traces) /\ \A n \in 1..Len(traces) : traces[n] \in TraceRecord

\* Replay, as far as no step differs, has come to where the run is.
Replayed ==
  alike =>
    /\ \A n \in 1..Len(snapshots) : ReplayAt(n) = snapshots[n]
    /\ todo # <<>> =>
         config = IF Current.matched /\ Current.condition
                    THEN ReplayOps(Before(place), Current)[Len(Current.ops) - Len(todo)] ELSE Before(place)

Stayed ==
  /\ \A n \in 1..Len(snapshots) : Stays(Before(n), snapshots[n], program[n])
  /\ todo # <<>> => Stays(Before(place), config, Current)

\* A patch with a $default for which there is nothing yet.
Feeds(b, q) ==
  /\ q.matched /\ ~Guarded(q.path) /\ Creatable(b, q.path)
  /\ Get(b, q.path).kind \in {"absent", "null"}
  /\ \E d \in Range(q.ops) : d.op = "default" /\ d.val.kind = "array"
Fed ==
  /\ \A n \in 1..Len(snapshots) : Feeds(Before(n), program[n]) =>
       \A o \in Range(program[n].ops) : o.op \in {"prepend", "append"} =>
         Range(NewItems(o.val)) \subseteq Range(Get(snapshots[n], program[n].path).items)
  /\ todo # <<>> /\ Feeds(Before(place), Current) => Waits(config, todo, Current) \/ Takes(config, todo, Current)

\* Patches of a program.
LEMMA ProgramFacts ==
  ASSUME IsProgram(program)
  PROVE  IsList(program) /\ Len(program) \in Nat /\ \A n \in 1..Len(program) : IsPatch(program[n])
  BY ListFacts DEF IsProgram

\* A patch is taken whole.
LEMMA TakeFrame ==
  ASSUME Going, TakePatch
  PROVE  /\ todo = <<>> /\ place' = place + 1 /\ place' \in 1..Len(program) /\ Len(snapshots) = place
         /\ UNCHANGED <<base, program, config, traces, snapshots, alike>>
         /\ config = Before(place') /\ IsPatch(program[place']) /\ Current' = program[place']
         /\ todo' = AllOps(program[place'].ops) /\ Runs(todo', program[place'])
         /\ \A n \in 1..Len(snapshots) + 1 : Before(n)' = Before(n)
  <1> DEFINE q == program[place + 1]
  <1>1. /\ todo = <<>> /\ place < Len(program) /\ place' = place + 1 /\ todo' = AllOps(q.ops)
        /\ UNCHANGED <<base, program, config, traces, snapshots, alike>>
    BY DEF TakePatch
  <1>2. Len(program) \in Nat /\ \A n \in 1..Len(program) : IsPatch(program[n])
    BY ProgramFacts DEF Going
  <1>3. place \in 0..Len(program)
    BY DEF Going
  <1>4. place + 1 \in 1..Len(program)
    BY <1>1, <1>2, <1>3
  <1>5. config = Before(place + 1) /\ Len(snapshots) = place
    <2>1. config = (IF place = 0 THEN base ELSE snapshots[place]) /\ Len(snapshots) = place
      BY <1>1 DEF Going
    <2>2. (place + 1 = 1 <=> place = 0) /\ place + 1 - 1 = place
      BY <1>2, <1>3
    <2> QED
      BY <2>1, <2>2 DEF Before
  <1>6. IsPatch(q) /\ Runs(AllOps(q.ops), q)
    BY <1>2, <1>4, AllOpsRun
  <1>7. \A n \in 1..Len(snapshots) + 1 : Before(n)' = Before(n)
    BY <1>1 DEF Before
  <1>8. Current' = program[place']
    BY <1>1 DEF Current
  <1> QED
    BY <1>1, <1>4, <1>5, <1>6, <1>7, <1>8

\* An operation is run; the last one of a patch leaves a snapshot.
LEMMA RunFrame ==
  ASSUME Going, RunOp
  PROVE  /\ todo # <<>> /\ todo' = Tail(todo) /\ IsList(todo') /\ Len(todo') = Len(todo) - 1
         /\ UNCHANGED <<base, program, place>>
         /\ place \in 1..Len(program) /\ Len(snapshots) = place - 1 /\ IsPatch(Current) /\ Current' = Current
         /\ Len(todo) \in Nat \ {0} /\ Left(todo, Current) /\ Left(todo', Current)
         /\ IsOperation(Head(todo)) /\ Head(todo) \in Range(Current.ops) /\ Current.path \in Paths
         /\ IsConfig(config) /\ IsConfig(config')
         /\ config' = IF Current.matched THEN Exec(config, Current.path, Head(todo)) ELSE config
         /\ IsList(snapshots') /\ \A n \in 1..place - 1 : snapshots'[n] = snapshots[n]
         /\ \A n \in 1..place : Before(n)' = Before(n)
         /\ todo' = <<>> <=> Len(todo) = 1
         /\ todo' = <<>> => Len(snapshots') = place /\ snapshots'[place] = config'
         /\ todo' # <<>> => snapshots' = snapshots
  <1>1. /\ todo # <<>> /\ todo' = Tail(todo)
        /\ config' = (IF Current.matched THEN Exec(config, Current.path, Head(todo)) ELSE config)
        /\ snapshots' = (IF Len(todo) = 1 THEN Append(snapshots, config') ELSE snapshots)
        /\ UNCHANGED <<base, program, place>>
    BY DEF RunOp
  <1>2. Len(program) \in Nat /\ \A n \in 1..Len(program) : IsPatch(program[n])
    BY ProgramFacts DEF Going
  <1>3. /\ place \in 0..Len(program) /\ place # 0 /\ Len(snapshots) = place - 1 /\ IsList(snapshots)
        /\ IsList(todo) /\ Left(todo, Current) /\ IsConfig(config)
    BY <1>1 DEF Going
  <1>4. place \in 1..Len(program)
    BY <1>2, <1>3
  <1>5. IsPatch(Current) /\ Current' = Current
    BY <1>1, <1>2, <1>4 DEF Current
  <1>6. IsList(todo') /\ Len(todo') = Len(todo) - 1 /\ Len(todo) \in Nat \ {0}
    BY <1>1, <1>3, TailList
  <1>7. Left(todo', Current) /\ IsOperation(Head(todo)) /\ Head(todo) \in Range(Current.ops)
    BY <1>1, <1>3, LeftTail
  <1>8. Current.path \in Paths
    BY <1>5 DEF IsPatch
  <1>9. IsConfig(config')
    BY <1>1, <1>3, <1>7, <1>8, ExecIsConfig
  <1>10. todo' = <<>> <=> Len(todo) = 1
    <2>1. todo' = <<>> <=> Len(todo') = 0
      BY <1>6, ListFacts
    <2> QED
      BY <1>6, <2>1
  <1>11. /\ IsList(snapshots') /\ \A n \in 1..place - 1 : snapshots'[n] = snapshots[n]
         /\ todo' = <<>> => Len(snapshots') = place /\ snapshots'[place] = config'
         /\ todo' # <<>> => snapshots' = snapshots
    <2>1. CASE todo' = <<>>
      <3>1. snapshots' = Append(snapshots, config')
        BY <1>1, <1>10, <2>1
      <3>2. /\ IsList(Append(snapshots, config')) /\ Len(Append(snapshots, config')) = Len(snapshots) + 1
            /\ \A i \in 1..Len(snapshots) : Append(snapshots, config')[i] = snapshots[i]
            /\ Append(snapshots, config')[Len(snapshots) + 1] = config'
        BY <1>3, AppendList
      <3>3. Len(snapshots) + 1 = place
        BY <1>3, <1>4
      <3> QED
        BY <1>3, <2>1, <3>1, <3>2, <3>3
    <2>2. CASE todo' # <<>>
      BY <1>1, <1>3, <1>10, <2>2
    <2> QED
      BY <2>1, <2>2
  <1>12. ASSUME NEW n \in 1..place PROVE Before(n)' = Before(n)
    <2>1. Before(n)' = IF n = 1 THEN base' ELSE snapshots'[n - 1]
      BY DEF Before
    <2>2. n # 1 => n - 1 \in 1..place - 1
      BY <1>4
    <2> QED
      BY <1>1, <1>11, <2>1, <2>2 DEF Before
  <1> QED
    BY <1>1, <1>3, <1>4, <1>5, <1>6, <1>7, <1>8, <1>9, <1>10, <1>11, <1>12

\* A step keeps the account of what has been run.
LEMMA GoingKeeps == Going /\ [Next]_vars => Going'
  <1> SUFFICES ASSUME Going, [Next]_vars PROVE Going'
    OBVIOUS
  <1>1. CASE TakePatch
    <2> DEFINE q == program[place']
               N == Len(q.ops)
    <2>1. /\ todo = <<>> /\ place' = place + 1 /\ place' \in 1..Len(program) /\ Len(snapshots) = place
          /\ UNCHANGED <<base, program, config, traces, snapshots, alike>>
          /\ config = Before(place') /\ Current' = q
          /\ todo' = AllOps(q.ops) /\ Runs(todo', q)
      BY <1>1, TakeFrame
    <2>2. Len(program) \in Nat
      BY ProgramFacts DEF Going
    <2>3. /\ IsList(todo') /\ Len(todo') = N /\ todo' # <<>> /\ Left(todo', q)
      BY <2>1 DEF Runs, Left
    <2>4. N \in Nat
      BY <2>3, ListFacts
    <2>5. place' # 0 /\ place' \in 0..Len(program) /\ place = place' - 1
      BY <2>1, <2>2 DEF Going
    <2>6. ASSUME NEW j \in 1..N PROVE N - N + j = j
      BY <2>4
    <2>7. base \in Bases /\ IsProgram(program) /\ alike \in BOOLEAN /\ IsConfig(config) /\ IsList(snapshots)
      BY DEF Going
    <2> HIDE DEF q
    <2>8. Len(todo') <= Len(q.ops) /\ \A j \in 1..Len(todo') : todo'[j] = AllOps(q.ops)[Len(q.ops) - Len(todo') + j]
      BY <2>1, <2>3, <2>4, <2>6
    <2>9. Len(snapshots') = place' - 1
      BY <2>1, <2>5
    <2> QED
      BY <2>1, <2>3, <2>5, <2>7, <2>8, <2>9 DEF Going
  <1>2. CASE RunOp
    <2> DEFINE q == Current
               N == Len(q.ops)
               n == Len(todo)
    <2>1. /\ todo # <<>> /\ todo' = Tail(todo) /\ IsList(todo') /\ Len(todo') = n - 1
          /\ UNCHANGED <<base, program, place>>
          /\ place \in 1..Len(program) /\ Len(snapshots) = place - 1 /\ IsPatch(q) /\ Current' = Current
          /\ n \in Nat \ {0} /\ Left(todo', q) /\ IsConfig(config') /\ IsList(snapshots')
          /\ todo' = <<>> => Len(snapshots') = place /\ snapshots'[place] = config'
          /\ todo' # <<>> => snapshots' = snapshots
      BY <1>2, RunFrame
    <2>2. Len(program) \in Nat
      BY ProgramFacts DEF Going
    <2>3. base \in Bases /\ IsProgram(program) /\ place \in 0..Len(program) /\ place # 0
      BY <2>1, <2>2 DEF Going
    <2>4. alike' \in BOOLEAN
      BY <1>2 DEF RunOp
    <2>5. Len(snapshots') = (IF todo' = <<>> THEN place' ELSE place' - 1)
      BY <2>1
    <2>6. todo' = <<>> => config' = IF place' = 0 THEN base' ELSE snapshots'[place']
      BY <2>1, <2>3
    <2>7. N \in Nat
      BY <2>1, ListFacts DEF IsPatch
    <2>8. n <= N /\ \A j \in 1..n : todo[j] = AllOps(q.ops)[N - n + j]
      BY <2>1 DEF Going
    <2>9. \A i \in 1..n - 1 : Tail(todo)[i] = todo[i + 1]
      BY <2>1, TailList DEF Going
    <2> HIDE DEF N, n, q
    <2>10. \A i \in 1..n - 1 : i + 1 \in 1..n /\ N - n + (i + 1) = N - (n - 1) + i
      BY <2>1, <2>7
    <2>11. n - 1 <= N /\ \A i \in 1..n - 1 : todo'[i] = AllOps(q.ops)[N - (n - 1) + i]
      <3>1. ASSUME NEW i \in 1..n - 1 PROVE todo'[i] = AllOps(q.ops)[N - (n - 1) + i]
        BY <2>1, <2>8, <2>9, <2>10
      <3> QED
        BY <2>1, <2>7, <2>8, <3>1
    <2>12. todo' # <<>> =>
             /\ place' # 0 /\ Left(todo', Current') /\ Len(todo') <= Len(Current'.ops)
             /\ \A j \in 1..Len(todo') : todo'[j] = AllOps(Current'.ops)[Len(Current'.ops) - Len(todo') + j]
      BY <2>1, <2>3, <2>11 DEF N, q
    <2> QED
      BY <2>1, <2>3, <2>4, <2>5, <2>6, <2>12 DEF Going
  <1>3. CASE Finished \/ UNCHANGED vars
    BY <1>3 DEF Finished, vars, Going, Before, Current
  <1> QED
    BY <1>1, <1>2, <1>3 DEF Next

\* Every trace is one.
LEMMA CountedKeeps == Going /\ Counted /\ [Next]_vars => Counted'
  <1> SUFFICES ASSUME Going, Counted, [Next]_vars PROVE Counted'
    OBVIOUS
  <1>1. CASE TakePatch
    BY <1>1 DEF TakePatch, Counted
  <1>2. CASE RunOp
    <2> DEFINE y == IF Current.matched THEN Summary(config, Current.path, Head(todo)) ELSE Skipped
    <2>1. traces' = Append(traces, y)
      BY <1>2 DEF RunOp
    <2>2. IsConfig(config) /\ Current.path \in Paths /\ IsOperation(Head(todo))
      BY <1>2, RunFrame
    <2>3. Summary(config, Current.path, Head(todo)) \in TraceRecord /\ Skipped \in TraceRecord
      BY <2>2, SummaryType
    <2>4. y \in TraceRecord
      BY <2>3
    <2> HIDE DEF y
    <2>5. /\ IsList(Append(traces, y)) /\ Len(Append(traces, y)) = Len(traces) + 1
          /\ \A i \in 1..Len(traces) : Append(traces, y)[i] = traces[i]
          /\ Append(traces, y)[Len(traces) + 1] = y
      BY AppendList DEF Counted
    <2>6. Len(traces) \in Nat
      BY ListFacts DEF Counted
    <2>7. \A n \in 1..Len(traces) + 1 : Append(traces, y)[n] \in TraceRecord
      BY <2>4, <2>5, <2>6 DEF Counted
    <2> QED
      BY <2>1, <2>5, <2>7 DEF Counted
  <1>3. CASE Finished \/ UNCHANGED vars
    BY <1>3 DEF Finished, vars, Counted
  <1> QED
    BY <1>1, <1>2, <1>3 DEF Next

\* Replay follows: a step of the run is a step of ReplayOps, the last one a step of Replay.
LEMMA ReplayedKeeps == Going /\ Replayed /\ [Next]_vars => Replayed'
  <1> SUFFICES ASSUME Going, Replayed, [Next]_vars, alike' PROVE Replayed'
    BY DEF Replayed
  <1>1. CASE TakePatch
    <2> DEFINE q == program[place']
    <2>1. /\ todo = <<>> /\ place' \in 1..Len(program) /\ Len(snapshots) = place /\ place' = place + 1
          /\ UNCHANGED <<base, program, config, traces, snapshots, alike>>
          /\ config = Before(place') /\ IsPatch(q) /\ Current' = q
          /\ Runs(todo', q)
          /\ \A n \in 1..Len(snapshots) + 1 : Before(n)' = Before(n)
      BY <1>1, TakeFrame
    <2>2. IsList(q.ops) /\ Len(todo') = Len(q.ops)
      BY <2>1 DEF IsPatch, Runs
    <2>3. Len(q.ops) - Len(todo') = 0
      BY <2>2, ListFacts
    <2>4. ReplayOps(config, q)[0] = config
      BY <2>2, ReplayOpsSteps
    <2>5. Before(place)' = config'
      <3>1. Before(place)' = IF place' = 1 THEN base' ELSE snapshots'[place' - 1]
        BY DEF Before
      <3>2. Before(place') = IF place' = 1 THEN base ELSE snapshots[place' - 1]
        BY DEF Before
      <3> QED
        BY <2>1, <3>1, <3>2
    <2>6. \A n \in 1..Len(snapshots) : ReplayAt(n)' = snapshots'[n]
      BY <2>1 DEF Replayed, ReplayAt
    <2> HIDE DEF q
    <2>7. config' = IF q.matched /\ q.condition THEN ReplayOps(Before(place)', q)[Len(q.ops) - Len(todo')] ELSE Before(place)'
      BY <2>1, <2>3, <2>4, <2>5
    <2> QED
      BY <2>1, <2>6, <2>7 DEF Replayed
  <1>2. CASE RunOp
    <2> DEFINE q == Current
               N == Len(q.ops)
               n == Len(todo)
               b == Before(place)
               h == Head(todo)
    <2>1. /\ todo # <<>> /\ todo' = Tail(todo) /\ Len(todo') = n - 1
          /\ UNCHANGED <<base, program, place>>
          /\ place \in 1..Len(program) /\ Len(snapshots) = place - 1 /\ IsPatch(q) /\ Current' = Current
          /\ n \in Nat \ {0} /\ IsOperation(h) /\ IsConfig(config)
          /\ config' = IF q.matched THEN Exec(config, q.path, h) ELSE config
          /\ \A i \in 1..place - 1 : snapshots'[i] = snapshots[i]
          /\ \A i \in 1..place : Before(i)' = Before(i)
          /\ todo' = <<>> <=> n = 1
          /\ todo' = <<>> => Len(snapshots') = place /\ snapshots'[place] = config'
          /\ todo' # <<>> => snapshots' = snapshots
      BY <1>2, RunFrame
    <2>2. Len(program) \in Nat /\ IsList(program)
      BY ProgramFacts DEF Going
    <2>3. alike /\ ~(q.matched /\ ReplayDiffers(config, q, h))
      BY <1>2 DEF RunOp
    <2>4. /\ \A i \in 1..place - 1 : ReplayAt(i) = snapshots[i]
          /\ config = IF q.matched /\ q.condition THEN ReplayOps(b, q)[N - n] ELSE b
      BY <2>1, <2>3 DEF Replayed
    <2>5. N \in Nat /\ IsList(q.ops)
      BY <2>1, ListFacts DEF IsPatch
    <2>6. n <= N /\ h = AllOps(q.ops)[N - n + 1]
      <3>1. n <= N /\ \A j \in 1..n : todo[j] = AllOps(q.ops)[N - n + j]
        BY <2>1 DEF Going
      <3>2. h = todo[1]
        BY <2>1, TailList DEF Going
      <3>3. 1 \in 1..n
        BY <2>1
      <3> QED
        BY <3>1, <3>2, <3>3
    <2>7. \A i \in 1..N : ReplayOps(b, q)[i] = ReplayOp(ReplayOps(b, q)[i - 1], q.path, AllOps(q.ops)[i])
      BY <2>5, ReplayOpsSteps
    <2>8. N - n + 1 \in 1..N /\ (N - n + 1) - 1 = N - n /\ N - (n - 1) = N - n + 1
      BY <2>1, <2>5, <2>6
    <2>9. q.matched => q.condition
      BY <2>3 DEF ReplayDiffers
    <2> HIDE DEF N, n, b, h
    <2>10. config' = IF q.matched /\ q.condition THEN ReplayOps(b, q)[N - (n - 1)] ELSE b
      <3>1. CASE q.matched
        <4>1. config = ReplayOps(b, q)[N - n] /\ config' = Exec(config, q.path, h)
          BY <2>1, <2>4, <2>9, <3>1
        <4>2. ~ReplayDiffers(config, q, h)
          BY <2>3, <3>1
        <4> HIDE DEF q
        <4>3. ReplayOp(config, q.path, h) = Exec(config, q.path, h)
          BY <2>1, <4>2, ReplaySame
        <4>4. ReplayOps(b, q)[N - n + 1] = ReplayOp(ReplayOps(b, q)[N - n], q.path, h)
          BY <2>6, <2>7, <2>8
        <4> QED
          BY <2>8, <2>9, <3>1, <4>1, <4>3, <4>4
      <3>2. CASE ~q.matched
        BY <2>1, <2>4, <3>2
      <3> QED
        BY <3>1, <3>2
    <2>11. Before(place)' = b
      <3>1. Before(place)' = IF place' = 1 THEN base' ELSE snapshots'[place' - 1]
        BY DEF Before
      <3>2. place # 1 => place - 1 \in 1..place - 1
        BY <2>1, <2>2
      <3> QED
        BY <2>1, <3>1, <3>2 DEF Before, b
    <2>12. todo' # <<>> =>
             config' = IF Current'.matched /\ Current'.condition
                         THEN ReplayOps(Before(place)', Current')[Len(Current'.ops) - Len(todo')] ELSE Before(place)'
      BY <2>1, <2>10, <2>11 DEF N
    <2>13. \A i \in 1..place - 1 : ReplayAt(i)' = snapshots'[i]
      BY <2>1, <2>4 DEF ReplayAt
    <2>14. CASE todo' # <<>>
      <3>1. Len(snapshots') = place - 1
        BY <2>1, <2>14
      <3> QED
        BY <2>1, <2>12, <2>13, <3>1 DEF Replayed
    <2>15. CASE todo' = <<>>
      <3>1. Replay(base, program)[0] = base /\ Replay(base, program)[place] = ReplayPatch(Replay(base, program)[place - 1], program[place])
        BY <2>1, <2>2, ReplaySteps
      <3>2. Replay(base, program)[place - 1] = b
        <4>1. CASE place = 1
          <5>1. place - 1 = 0
            BY <4>1
          <5> QED
            BY <3>1, <4>1, <5>1 DEF b, Before
        <4>2. CASE place # 1
          <5>1. place - 1 \in 1..place - 1
            BY <2>1, <2>2, <4>2
          <5> QED
            BY <2>4, <4>2, <5>1 DEF b, Before, ReplayAt
        <4> QED
          BY <4>1, <4>2
      <3>3. N - (n - 1) = N
        BY <2>1, <2>5, <2>15
      <3>4. ReplayPatch(b, q) = config'
        BY <2>10, <3>3 DEF ReplayPatch, N
      <3>5. ReplayAt(place) = config'
        BY <3>1, <3>2, <3>4 DEF ReplayAt, Current
      <3>6. ReplayAt(place)' = snapshots'[place]
        BY <2>1, <2>15, <3>5 DEF ReplayAt
      <3>7. Len(snapshots') = place /\ \A i \in 1..place : i = place \/ i \in 1..place - 1
        BY <2>1, <2>2, <2>15
      <3>8. \A i \in 1..Len(snapshots') : ReplayAt(i)' = snapshots'[i]
        <4> SUFFICES ASSUME NEW i \in 1..place PROVE ReplayAt(i)' = snapshots'[i]
          BY <3>7
        <4>1. CASE i = place
          BY <2>1, <3>6, <4>1 DEF ReplayAt
        <4>2. CASE i # place
          BY <2>13, <3>7, <4>2
        <4> QED
          BY <4>1, <4>2
      <3> QED
        BY <2>15, <3>8 DEF Replayed
    <2> QED
      BY <2>14, <2>15
  <1>3. CASE Finished \/ UNCHANGED vars
    BY <1>3 DEF Finished, vars, Replayed, ReplayAt, Before, Current
  <1> QED
    BY <1>1, <1>2, <1>3 DEF Next

\* No step loses an item the expressions fail on.
LEMMA StayedKeeps == Going /\ Stayed /\ [Next]_vars => Stayed'
  <1> SUFFICES ASSUME Going, Stayed, [Next]_vars PROVE Stayed'
    OBVIOUS
  <1>1. CASE TakePatch
    <2>1. /\ todo = <<>> /\ Len(snapshots) = place
          /\ UNCHANGED <<base, program, config, traces, snapshots, alike>>
          /\ config = Before(place') /\ Current' = program[place']
          /\ \A n \in 1..Len(snapshots) + 1 : Before(n)' = Before(n)
      BY <1>1, TakeFrame
    <2>2. Before(place)' = config
      <3>1. Before(place)' = IF place' = 1 THEN base' ELSE snapshots'[place' - 1]
        BY DEF Before
      <3> QED
        BY <2>1, <3>1 DEF Before
    <2>3. Stays(Before(place)', config', Current')
      BY <2>1, <2>2 DEF Stays
    <2>4. \A n \in 1..Len(snapshots) : Stays(Before(n)', snapshots'[n], program'[n])
      BY <2>1 DEF Stayed, Before
    <2> QED
      BY <2>1, <2>3, <2>4 DEF Stayed
  <1>2. CASE RunOp
    <2> DEFINE q == Current
               b == Before(place)
    <2>1. /\ todo # <<>>
          /\ UNCHANGED <<base, program, place>>
          /\ place \in 1..Len(program) /\ Len(snapshots) = place - 1 /\ IsPatch(q) /\ Current' = Current
          /\ Head(todo) \in Range(q.ops) /\ IsConfig(config)
          /\ config' = IF q.matched THEN Exec(config, q.path, Head(todo)) ELSE config
          /\ \A i \in 1..place - 1 : snapshots'[i] = snapshots[i]
          /\ \A i \in 1..place : Before(i)' = Before(i)
          /\ todo' = <<>> => Len(snapshots') = place /\ snapshots'[place] = config'
          /\ todo' # <<>> => snapshots' = snapshots
      BY <1>2, RunFrame
    <2>2. Len(program) \in Nat
      BY ProgramFacts DEF Going
    <2>3. Stays(b, config, q)
      BY <2>1 DEF Stayed
    <2>4. Stays(b, config', q)
      BY <2>1, <2>3, StayStep
    <2>5. Before(place)' = b
      <3>1. Before(place)' = IF place' = 1 THEN base' ELSE snapshots'[place' - 1]
        BY DEF Before
      <3>2. place # 1 => place - 1 \in 1..place - 1
        BY <2>1, <2>2
      <3> QED
        BY <2>1, <3>1, <3>2 DEF Before, b
    <2>6. \A i \in 1..place - 1 : Stays(Before(i)', snapshots'[i], program'[i])
      <3> SUFFICES ASSUME NEW i \in 1..place - 1 PROVE Stays(Before(i)', snapshots'[i], program'[i])
        OBVIOUS
      <3>1. i \in 1..place
        BY <2>1, <2>2
      <3>2. Before(i)' = Before(i)
        BY <2>1, <3>1
      <3>3. Stays(Before(i), snapshots[i], program[i])
        BY <2>1 DEF Stayed
      <3> QED
        BY <2>1, <3>2, <3>3
    <2>7. CASE todo' # <<>>
      <3>1. Len(snapshots') = place - 1
        BY <2>1, <2>7
      <3>2. Stays(Before(place)', config', Current')
        BY <2>1, <2>4, <2>5
      <3> QED
        BY <2>6, <3>1, <3>2 DEF Stayed
    <2>8. CASE todo' = <<>>
      <3>1. Stays(Before(place)', snapshots'[place], program'[place])
        BY <2>1, <2>4, <2>5, <2>8 DEF Current
      <3>2. Len(snapshots') = place /\ \A i \in 1..place : i = place \/ i \in 1..place - 1
        BY <2>1, <2>2, <2>8
      <3>3. ASSUME NEW i \in 1..place PROVE Stays(Before(i)', snapshots'[i], program'[i])
        <4>1. CASE i = place
          <5>1. Before(i)' = Before(place)'
            BY <2>1, <4>1 DEF Before
          <5> QED
            BY <3>1, <4>1, <5>1
        <4>2. CASE i # place
          BY <2>6, <3>2, <4>2
        <4> QED
          BY <4>1, <4>2
      <3> QED
        BY <2>8, <3>2, <3>3 DEF Stayed
    <2> QED
      BY <2>7, <2>8
  <1>3. CASE Finished \/ UNCHANGED vars
    BY <1>3 DEF Finished, vars, Stayed, Before, Current
  <1> QED
    BY <1>1, <1>2, <1>3 DEF Next

\* What is to be added waits for the array, and is added.
LEMMA FedKeeps == Going /\ Fed /\ [Next]_vars => Fed'
  <1> SUFFICES ASSUME Going, Fed, [Next]_vars PROVE Fed'
    OBVIOUS
  <1> DEFINE Full(b, c, q) ==
               Feeds(b, q) => \A o \in Range(q.ops) : o.op \in {"prepend", "append"} =>
                                Range(NewItems(o.val)) \subseteq Range(Get(c, q.path).items)
             Filling(b, c, t, q) == Feeds(b, q) => Waits(c, t, q) \/ Takes(c, t, q)
  <1>1. /\ \A n \in 1..Len(snapshots) : Full(Before(n), snapshots[n], program[n])
        /\ todo # <<>> => Filling(Before(place), config, todo, Current)
    BY DEF Fed
  <1>2. ASSUME \A n \in 1..Len(snapshots') : Full(Before(n)', snapshots'[n], program'[n]),
               todo' # <<>> => Filling(Before(place)', config', todo', Current')
        PROVE  Fed'
    BY <1>2 DEF Fed
  <1>3. CASE TakePatch
    <2> DEFINE q == program[place']
    <2>1. /\ todo = <<>> /\ Len(snapshots) = place
          /\ UNCHANGED <<base, program, config, traces, snapshots, alike>>
          /\ config = Before(place') /\ IsPatch(q) /\ Current' = q /\ Runs(todo', q)
          /\ \A n \in 1..Len(snapshots) + 1 : Before(n)' = Before(n)
      BY <1>3, TakeFrame
    <2>2. Before(place)' = config
      <3>1. Before(place)' = IF place' = 1 THEN base' ELSE snapshots'[place' - 1]
        BY DEF Before
      <3> QED
        BY <2>1, <3>1 DEF Before
    <2>3. Range(todo') = Range(q.ops)
      BY <2>1 DEF Runs
    <2> HIDE DEF q
    <2>4. Filling(config, config, todo', q)
      BY <2>3 DEF Feeds, Waits
    <2>5. \A n \in 1..Len(snapshots) : Full(Before(n)', snapshots'[n], program'[n])
      <3> SUFFICES ASSUME NEW n \in 1..Len(snapshots) PROVE Full(Before(n)', snapshots'[n], program'[n])
        OBVIOUS
      <3>1. Before(n)' = Before(n)
        BY <2>1 DEF Before
      <3>2. Full(Before(n), snapshots[n], program[n])
        BY <1>1
      <3> HIDE DEF Full
      <3> QED
        BY <2>1, <3>1, <3>2
    <2> HIDE DEF Full, Filling
    <2> QED
      BY <1>2, <2>1, <2>2, <2>4, <2>5
  <1>4. CASE RunOp
    <2> DEFINE q == Current
               b == Before(place)
    <2>1. /\ todo # <<>> /\ todo' = Tail(todo)
          /\ UNCHANGED <<base, program, place>>
          /\ place \in 1..Len(program) /\ Len(snapshots) = place - 1 /\ IsPatch(q) /\ Current' = Current
          /\ Left(todo, q) /\ IsConfig(config)
          /\ config' = IF q.matched THEN Exec(config, q.path, Head(todo)) ELSE config
          /\ \A i \in 1..place - 1 : snapshots'[i] = snapshots[i]
          /\ \A i \in 1..place : Before(i)' = Before(i)
          /\ todo' = <<>> => Len(snapshots') = place /\ snapshots'[place] = config'
          /\ todo' # <<>> => snapshots' = snapshots
      BY <1>4, RunFrame
    <2>2. Len(program) \in Nat
      BY ProgramFacts DEF Going
    <2>3. Filling(b, config', todo', q)
      <3> SUFFICES ASSUME Feeds(b, q) PROVE Waits(config', todo', q) \/ Takes(config', todo', q)
        OBVIOUS
      <3>1. q.matched /\ ~Guarded(q.path)
        BY DEF Feeds
      <3>2. Waits(config, todo, q) \/ Takes(config, todo, q)
        BY <1>1, <2>1
      <3>3. config' = Exec(config, q.path, Head(todo))
        BY <2>1, <3>1
      <3> HIDE DEF q, b
      <3> QED
        BY <2>1, <3>1, <3>2, <3>3, FeedStep
    <2>4. Before(place)' = b
      <3>1. Before(place)' = IF place' = 1 THEN base' ELSE snapshots'[place' - 1]
        BY DEF Before
      <3>2. place # 1 => place - 1 \in 1..place - 1
        BY <2>1, <2>2
      <3> QED
        BY <2>1, <3>1, <3>2 DEF Before, b
    <2>5. ASSUME NEW i \in 1..place - 1 PROVE Full(Before(i)', snapshots'[i], program'[i])
      <3>1. i \in 1..place
        BY <2>1, <2>2
      <3>2. Before(i)' = Before(i) /\ snapshots'[i] = snapshots[i] /\ program' = program
        BY <2>1, <3>1
      <3>3. Full(Before(i), snapshots[i], program[i])
        BY <1>1, <2>1
      <3> HIDE DEF Full
      <3> QED
        BY <3>2, <3>3
    <2>6. CASE todo' # <<>>
      <3>1. Len(snapshots') = place - 1
        BY <2>1, <2>6
      <3>2. Filling(Before(place)', config', todo', Current')
        BY <2>1, <2>3, <2>4
      <3> HIDE DEF Full, Filling
      <3> QED
        BY <1>2, <2>5, <3>1, <3>2
    <2>7. CASE todo' = <<>>
      <3>1. Range(todo') = {}
        BY <2>7 DEF Range
      <3>2. Full(b, config', q)
        BY <2>3, <3>1 DEF Waits, Takes
      <3>3. Len(snapshots') = place /\ \A i \in 1..place : i = place \/ i \in 1..place - 1
        BY <2>1, <2>2, <2>7
      <3>4. Full(Before(place)', snapshots'[place], program'[place])
        <4>1. snapshots'[place] = config' /\ program'[place] = q
          BY <2>1, <2>7 DEF Current
        <4> HIDE DEF Full, q, b
        <4> QED
          BY <2>4, <3>2, <4>1
      <3>5. ASSUME NEW i \in 1..place PROVE Full(Before(i)', snapshots'[i], program'[i])
        <4>1. CASE i = place
          <5>1. Before(i)' = Before(place)'
            BY <2>1, <4>1 DEF Before
          <5> HIDE DEF Full
          <5> QED
            BY <3>4, <4>1, <5>1
        <4>2. CASE i # place
          <5> HIDE DEF Full
          <5> QED
            BY <2>5, <3>3, <4>2
        <4> QED
          BY <4>1, <4>2
      <3> HIDE DEF Full, Filling
      <3> QED
        BY <1>2, <2>7, <3>3, <3>5
    <2> QED
      BY <2>6, <2>7
  <1>5. CASE Finished \/ UNCHANGED vars
    BY <1>5 DEF Finished, vars, Fed, Before, Current
  <1> QED
    BY <1>3, <1>4, <1>5 DEF Next

\* The trace a step leaves.
LEMMA SummaryStep == Going /\ Counted /\ [Next]_vars => [ todo # <<>> /\ Current.matched /\ Head(todo).op \in ListOps => LET p == Current.path IN
        /\ Length(config', p) - Length(config, p) = Last(traces').added - Last(traces').removed
        /\ IsArray(config, p) /\ ~Guarded(p) =>
             Last(traces').affected = Last(traces').added + Last(traces').removed + Last(traces').modified
    ]_<<config, traces>>
  <1> SUFFICES ASSUME Going, Counted, [Next]_vars, ~UNCHANGED <<config, traces>>,
                      todo # <<>>, Current.matched, Head(todo).op \in ListOps
               PROVE  LET p == Current.path IN
        /\ Length(config', p) - Length(config, p) = Last(traces').added - Last(traces').removed
        /\ IsArray(config, p) /\ ~Guarded(p) =>
             Last(traces').affected = Last(traces').added + Last(traces').removed + Last(traces').modified
    OBVIOUS
  <1>1. RunOp
    BY DEF Next, TakePatch, Finished, vars
  <1> DEFINE p == Current.path
             h == Head(todo)
             y == Summary(config, p, h)
  <1>2. IsConfig(config) /\ p \in Paths /\ IsOperation(h) /\ config' = Exec(config, p, h)
    BY <1>1, RunFrame
  <1>3. traces' = Append(traces, y)
    BY <1>1 DEF RunOp
  <1> HIDE DEF h, p, y
  <1>4. /\ IsList(Append(traces, y)) /\ Len(Append(traces, y)) = Len(traces) + 1
        /\ Append(traces, y)[Len(traces) + 1] = y
    BY AppendList DEF Counted
  <1>5. Last(traces') = y
    BY <1>3, <1>4 DEF Last
  <1>6. h.op \in ListOps
    BY DEF h
  <1>7. /\ Length(Exec(config, p, h), p) - Length(config, p) = y.added - y.removed
        /\ IsArray(config, p) /\ ~Guarded(p) => y.affected = y.added + y.removed + y.modified
    BY <1>2, <1>6, SummaryCounts DEF y
  <1> QED
    BY <1>2, <1>5, <1>7 DEF p

\* A run that has not begun, and one that has.
Begins ==
  /\ base \in Bases /\ IsProgram(program) /\ config = base /\ place = 0 /\ todo = <<>>
  /\ traces = <<>> /\ snapshots = <<>> /\ alike = TRUE
Running == Going /\ Counted /\ Replayed /\ Stayed /\ Fed

\* Where no patch has run, nothing is wrong yet.
LEMMA BeginsWell == Begins => Running
  <1> SUFFICES ASSUME Begins PROVE Running
    OBVIOUS
  <1>1. /\ base \in Bases /\ IsProgram(program) /\ config = base /\ place = 0 /\ todo = <<>>
        /\ traces = <<>> /\ snapshots = <<>> /\ alike = TRUE
    BY DEF Begins
  <1>2. IsConfig(config) /\ Len(program) \in Nat
    BY <1>1, BasesAreRoots, ProgramFacts
  <1>3. IsList(<<>>) /\ Len(<<>>) = 0
    BY DEF IsList
  <1>4. Going
    BY <1>1, <1>2, <1>3 DEF Going
  <1>5. \A n \in 1..0 : FALSE
    OBVIOUS
  <1>6. Counted /\ Replayed /\ Stayed /\ Fed
    BY <1>1, <1>3, <1>5 DEF Counted, Replayed, Stayed, Fed
  <1> QED
    BY <1>4, <1>6 DEF Running

\* The run goes on as it began.
LEMMA RunningStep == Running /\ [Next]_vars => Running'
  <1>1. Running /\ [Next]_vars => Going' /\ Counted' /\ Replayed' /\ Stayed' /\ Fed'
    BY GoingKeeps, CountedKeeps, ReplayedKeeps, StayedKeeps, FedKeeps DEF Running
  <1> QED
    BY <1>1 DEF Running

\* A run that goes well does what is documented.
LEMMA RunningMeans == Running => TypeOK /\ DefaultsFeedLists /\ FailingItemsStay /\ ReplayAgrees
  <1> SUFFICES ASSUME Running PROVE TypeOK /\ DefaultsFeedLists /\ FailingItemsStay /\ ReplayAgrees
    OBVIOUS
  <1>1. DOMAIN snapshots = 1..Len(snapshots) /\ DOMAIN traces = 1..Len(traces)
    BY ListFacts DEF Running, Going, Counted
  <1>2. TypeOK
    BY <1>1 DEF Running, Going, Counted, TypeOK, TraceRecord
  <1>3. DefaultsFeedLists
    BY <1>1 DEF Running, Fed, Feeds, DefaultsFeedLists
  <1>4. FailingItemsStay
    BY <1>1 DEF Running, Stayed, Stays, FailingItemsStay
  <1>5. ReplayAgrees
    BY <1>1 DEF Running, Replayed, ReplayAgrees
  <1> QED
    BY <1>2, <1>3, <1>4, <1>5

\* What the documentation of the executor says of its order, its expressions, its traces and the replay
\* holds of every program of patches.  (executor.rs, trace.rs)
THEOREM OpsAreSound == Spec => OpsSound
  <1>1. Init => Begins
    BY ProgramsArePatches DEF Init, Begins
  <1>2. Spec => []Running
    BY <1>1, BeginsWell, RunningStep, PTL DEF Spec
  <1>3. Running => Going /\ Counted
    BY DEF Running
  <1>4. Spec => SummaryExact
    BY <1>2, <1>3, SummaryStep, PTL DEF Spec, SummaryExact
  <1> QED
    BY <1>2, <1>4, RunningMeans, GuardedFieldsKept, PTL DEF OpsSound

-----------------------------------------------------------------------------
(* Documents. *)

\* What the conditions of its items leave of a value.
LEMMA ConditionalItems ==
  ASSUME NEW v, IsField(v), v.kind = "array"
  PROVE  LET w == ProcessConditional(v) IN
         /\ IsField(w) /\ w.kind = "array"
         /\ \A n \in DOMAIN w.items : w.items[n] \in DOMAIN Guarding => Guarding[w.items[n]].enabled # "false"
  <1> DEFINE places == {n \in DOMAIN v.items : ~SwitchedOff(v.items[n])}
             left == Chosen(v.items, places)
             r == [n \in DOMAIN left |-> RuleOf(left[n])]
  <1>1. v.items \in Seq(Items)
    BY DEF IsField, IsJSON
  <1>2. places \in SUBSET DOMAIN v.items
    OBVIOUS
  <1>3. left \in Seq(Items) /\ Range(left) = {v.items[i] : i \in places}
    <2> HIDE DEF places
    <2> QED
      BY <1>1, <1>2, ChosenProperties
  <1>4. ASSUME NEW n \in DOMAIN left
        PROVE  RuleOf(left[n]) \in Items /\ (RuleOf(left[n]) \in DOMAIN Guarding => Guarding[RuleOf(left[n])].enabled # "false")
    <2> DEFINE x == left[n]
    <2>1. x \in Items
      BY <1>3
    <2>2. x \in Range(left)
      BY DEF Range
    <2>3. PICK i \in places : x = v.items[i]
      BY <1>3, <2>2
    <2>4. ~SwitchedOff(x)
      BY <2>3
    <2> HIDE DEF x, left, places
    <2>5. CASE x \notin DOMAIN Guarding \/ Guarding[x].enabled = "unsaid" \/ Guarding[x].rule = "none"
      <3>1. RuleOf(x) = x
        BY <2>5 DEF RuleOf
      <3> QED
        BY <2>1, <2>4, <3>1 DEF SwitchedOff, x
    <2>6. CASE ~(x \notin DOMAIN Guarding \/ Guarding[x].enabled = "unsaid" \/ Guarding[x].rule = "none")
      <3>1. RuleOf(x) = Guarding[x].rule
        BY <2>6 DEF RuleOf
      <3>2. RuleOf(x) \in Items \ DOMAIN Guarding
        BY <2>6, <3>1, DocumentAssumption
      <3> QED
        BY <3>2 DEF x
    <2> QED
      BY <2>5, <2>6
  <1> HIDE DEF places, left
  <1>5. r \in Seq(Items) /\ DOMAIN r = DOMAIN left
    BY <1>3, <1>4
  <1>6. ProcessConditional(v) = Arr(r)
    BY DEF ProcessConditional, left, places
  <1> HIDE DEF r
  <1>7. Arr(r).kind = "array" /\ Arr(r).items = r /\ Arr(r).sub = <<>>
    BY DEF Arr, JSON
  <1>8. IsField(Arr(r))
    BY <1>5, <1>7 DEF IsField, IsJSON
  <1>9. \A n \in DOMAIN r : r[n] \in DOMAIN Guarding => Guarding[r[n]].enabled # "false"
    BY <1>4, <1>5 DEF r
  <1> QED
    BY <1>6, <1>7, <1>8, <1>9

\* The value an operation gets is one that the executor can do something with.
LEMMA ValueIs ==
  ASSUME NEW g, IsGroup(g), NEW n \in DOMAIN g, ~BadPair(g[n]), g[n].key \in OpKeys
  PROVE  LET e == g[n]  o == [op |-> OpName[e.key], val |-> ValueOf(e)] IN
         /\ IsOperation(o)
         /\ o.op \in {"prepend", "append"} /\ o.val.kind = "array" =>
              \A k \in DOMAIN o.val.items : o.val.items[k] \in DOMAIN Guarding => Guarding[o.val.items[k]].enabled # "false"
  <1> DEFINE e == g[n]
             o == [op |-> OpName[e.key], val |-> ValueOf(e)]
  <1>1. /\ e.val.is = "value" => IsField(Json(e.val)) /\ Json(e.val).kind # "absent"
        /\ e.val.is = "value" /\ e.key \in ListKeys => Json(e.val).kind \in {"array", "scalar"}
    BY DEF IsGroup
  <1>2. e.key \notin PredicateOps => e.val.is = "value"
    BY DEF BadPair, Converts
  <1>3. o.op = OpName[e.key] /\ o.val = ValueOf(e) /\ e.key \in OpKeys
    OBVIOUS
  <1> HIDE DEF o, e
  <1>4. o.op \in Ops
    BY <1>3 DEF OpName, Ops
  <1>5. CASE e.key \in PredicateOps
    <2>1. o.op \in {"filter", "remove", "transform"}
      BY <1>3, <1>5 DEF OpName, PredicateOps
    <2>2. o.val = Null
      BY <1>3, <1>5 DEF ValueOf
    <2>3. IsField(Null)
      BY DEF IsField, IsJSON, Null, JSON
    <2>4. IsOperation(o)
      BY <1>4, <2>1, <2>2, <2>3 DEF IsOperation
    <2> QED
      BY <2>1, <2>4 DEF o, e
  <1>6. CASE e.key \in ListKeys
    <2>1. o.op \in {"prepend", "append"}
      BY <1>3, <1>6 DEF OpName, ListKeys
    <2>2. o.val = ProcessConditional(Json(e.val)) /\ e.val.is = "value"
      BY <1>2, <1>3, <1>6 DEF ValueOf, ListKeys, PredicateOps
    <2>3. CASE Json(e.val).kind = "array"
      <3>1. /\ IsField(o.val) /\ o.val.kind = "array"
            /\ \A k \in DOMAIN o.val.items : o.val.items[k] \in DOMAIN Guarding => Guarding[o.val.items[k]].enabled # "false"
        BY <1>1, <2>2, <2>3, ConditionalItems
      <3>2. IsOperation(o)
        BY <1>4, <2>1, <3>1 DEF IsOperation
      <3> QED
        BY <3>1, <3>2 DEF o, e
    <2>4. CASE Json(e.val).kind # "array"
      <3>1. o.val = Json(e.val) /\ o.val.kind = "scalar" /\ IsField(o.val)
        BY <1>1, <1>6, <2>2, <2>4 DEF ProcessConditional
      <3>2. IsOperation(o)
        BY <1>4, <2>1, <3>1 DEF IsOperation
      <3> QED
        BY <3>1, <3>2 DEF o, e
    <2> QED
      BY <2>3, <2>4
  <1>7. CASE e.key \notin PredicateOps /\ e.key \notin ListKeys
    <2>1. o.op \in {"default", "override"}
      BY <1>3, <1>7 DEF OpName, OpKeys, ListKeys, PredicateOps
    <2>2. o.val = Json(e.val) /\ IsField(o.val) /\ o.val.kind # "absent"
      BY <1>1, <1>2, <1>3, <1>7 DEF ValueOf
    <2>3. IsOperation(o)
      BY <1>4, <2>1, <2>2 DEF IsOperation
    <2> QED
      BY <2>1, <2>3 DEF o, e
  <1> QED
    BY <1>5, <1>6, <1>7

\* Where a key is written, what is picked stands there.
LEMMA PickedIs ==
  ASSUME NEW g, NEW k, Keyed(g, k) # {}
  PROVE  \E n \in DOMAIN g : g[n].key = k /\ Picked(g, k) = [op |-> OpName[g[n].key], val |-> ValueOf(g[n])]
  <1> DEFINE n == CHOOSE m \in Keyed(g, k) : TRUE
  <1>1. n \in Keyed(g, k)
    OBVIOUS
  <1>2. n \in DOMAIN g /\ g[n].key = k
    BY <1>1 DEF Keyed
  <1>3. Picked(g, k) = [op |-> OpName[k], val |-> ValueOf(g[n])]
    BY DEF Picked
  <1> QED
    BY <1>2, <1>3

\* Keys of operations have names of their own.
LEMMA NamesDiffer ==
  /\ \A k, l \in OpKeys : OpName[k] = OpName[l] => k = l
  /\ \A k \in OpKeys : OpName[k] \in Ops \ {"merge"} /\ (OpName[k] = "override" => k = "$override")
  BY DEF OpName, OpKeys, PredicateOps, ListKeys, Ops

\* The keys of a composite patch.
LEMMA SubKeysAre ==
  /\ SubKeys \in Seq(OpKeys) /\ DOMAIN SubKeys = 1..6 /\ Len(SubKeys) = 6 /\ IsInjective(SubKeys)
  /\ \A k : (\E n \in DOMAIN SubKeys : SubKeys[n] = k) <=> k \in OpKeys /\ k # "$override"
  <1>1. SubKeys \in Seq(OpKeys) /\ DOMAIN SubKeys = 1..6 /\ Len(SubKeys) = 6
    BY DEF SubKeys, OpKeys, PredicateOps, ListKeys
  <1>2. /\ SubKeys[1] = "$filter" /\ SubKeys[2] = "$remove" /\ SubKeys[3] = "$transform"
        /\ SubKeys[4] = "$prepend" /\ SubKeys[5] = "$append" /\ SubKeys[6] = "$default"
    BY DEF SubKeys
  <1>3. \A n : n \in 1..6 <=> n \in {1, 2, 3, 4, 5, 6}
    OBVIOUS
  <1> QED
    BY <1>1, <1>2, <1>3 DEF IsInjective, OpKeys, PredicateOps, ListKeys

\* Where a composite group writes operations: one key for every place with a dollar.
LEMMA CompositeKeys ==
  ASSUME NEW g, IsGroup(g), ~GroupError(g), ~Exclusive(g)
  PROVE  LET keys == Chosen(SubKeys, {n \in DOMAIN SubKeys : Keyed(g, SubKeys[n]) # {}})
             places == {n \in DOMAIN g : g[n].dollar}
         IN  /\ keys \in Seq(OpKeys \ {"$override"}) /\ IsInjective(keys)
             /\ \A k \in DOMAIN keys : Keyed(g, keys[k]) # {}
             /\ \A n \in places : \E k \in DOMAIN keys : keys[k] = g[n].key
             /\ Len(keys) = Cardinality(places)
  <1> DEFINE listed == {n \in DOMAIN SubKeys : Keyed(g, SubKeys[n]) # {}}
             keys == Chosen(SubKeys, listed)
             places == {n \in DOMAIN g : g[n].dollar}
  <1>1. /\ keys \in Seq(OpKeys) /\ IsInjective(keys)
        /\ Range(keys) = {SubKeys[i] : i \in listed}
    <2>1. listed \in SUBSET DOMAIN SubKeys
      OBVIOUS
    <2> HIDE DEF listed
    <2> QED
      BY <2>1, SubKeysAre, ChosenProperties
  <1> HIDE DEF keys
  <1>2. \A k \in DOMAIN keys : keys[k] \in OpKeys \ {"$override"} /\ Keyed(g, keys[k]) # {}
    <2> SUFFICES ASSUME NEW k \in DOMAIN keys PROVE keys[k] \in OpKeys \ {"$override"} /\ Keyed(g, keys[k]) # {}
      OBVIOUS
    <2>1. keys[k] \in Range(keys)
      BY DEF Range
    <2>2. PICK i \in listed : keys[k] = SubKeys[i]
      BY <1>1, <2>1
    <2> QED
      BY <2>2, SubKeysAre
  <1>3. keys \in Seq(OpKeys \ {"$override"})
    <2>1. keys = [k \in 1..Len(keys) |-> keys[k]] /\ Len(keys) \in Nat /\ DOMAIN keys = 1..Len(keys)
      BY <1>1
    <2>2. keys \in [1..Len(keys) -> OpKeys \ {"$override"}]
      BY <1>2, <2>1
    <2> QED
      BY <2>1, <2>2
  <1>4. ASSUME NEW n \in places PROVE g[n].key \in OpKeys /\ \E k \in DOMAIN keys : keys[k] = g[n].key
    <2>1. n \in DOMAIN g /\ g[n].dollar /\ ~BadPair(g[n])
      BY DEF GroupError
    <2>2. g[n].key \in OpKeys
      BY <2>1 DEF BadPair
    <2>3. g[n].key # "$override"
      BY <2>1 DEF Exclusive, Keyed
    <2>4. PICK i \in DOMAIN SubKeys : SubKeys[i] = g[n].key
      BY <2>2, <2>3, SubKeysAre
    <2>5. Keyed(g, SubKeys[i]) # {}
      BY <2>1, <2>4 DEF Keyed
    <2>6. g[n].key \in Range(keys)
      BY <1>1, <2>4, <2>5
    <2> QED
      BY <2>2, <2>6 DEF Range
  <1>5. Len(keys) = Cardinality(places)
    <2> DEFINE L == Len(keys)
               b == [k \in 1..L |-> CHOOSE n \in Keyed(g, keys[k]) : TRUE]
    <2>1. L \in Nat /\ DOMAIN keys = 1..L
      BY <1>1
    <2>2. ASSUME NEW k \in 1..L PROVE b[k] \in places /\ g[b[k]].key = keys[k]
      <3>1. b[k] \in Keyed(g, keys[k])
        BY <1>2, <2>1
      <3>2. b[k] \in DOMAIN g /\ g[b[k]].key = keys[k] /\ keys[k] \in OpKeys
        BY <1>2, <2>1, <3>1 DEF Keyed
      <3>3. g[b[k]].dollar
        BY <3>2 DEF IsGroup
      <3> QED
        BY <3>2, <3>3
    <2>3. b \in [1..L -> places]
      BY <2>2
    <2>4. ASSUME NEW j \in 1..L, NEW k \in 1..L, b[j] = b[k] PROVE j = k
      <3>1. keys[j] = keys[k]
        BY <2>2, <2>4
      <3> QED
        BY <1>1, <2>1, <3>1 DEF IsInjective
    <2>5. ASSUME NEW n \in places PROVE \E k \in 1..L : b[k] = n
      <3>1. PICK k \in 1..L : keys[k] = g[n].key
        BY <1>4, <2>1
      <3>2. g[b[k]].key = g[n].key /\ b[k] \in DOMAIN g /\ n \in DOMAIN g
        BY <2>2, <3>1
      <3>3. g[n].key \in OpKeys
        BY <1>4
      <3>4. b[k] = n
        <4>1. \A i, j \in DOMAIN g : g[i].key = g[j].key /\ g[i].key \in OpKeys => i = j
          BY DEF IsGroup
        <4> HIDE DEF b
        <4> QED
          BY <3>2, <3>3, <4>1
      <3> QED
        BY <3>4
    <2> HIDE DEF b
    <2>6. b \in Bijection(1..L, places)
      BY <2>3, <2>4, <2>5 DEF Bijection, Injection, Surjection, IsInjective
    <2>7. ExistsBijection(1..L, places)
      BY <2>6 DEF ExistsBijection
    <2> QED
      BY <2>1, <2>7, FS_CountingElements
  <1> QED
    BY <1>1, <1>2, <1>3, <1>4, <1>5 DEF keys

\* What a group of operations may be.
MeansWritten(g, ops) ==
  /\ IsList(ops) /\ ops # <<>> /\ \A n \in DOMAIN ops : IsOperation(ops[n])
  /\ \A n, k \in DOMAIN ops : ops[n].op = ops[k].op => n = k
  /\ \A n \in DOMAIN ops : ops[n].op \in {"merge", "override"} => Len(ops) = 1
  /\ \A n \in DOMAIN g : g[n].dollar => \E o \in Range(ops) : o.op = OpName[g[n].key]
  /\ Len(ops) = Cardinality({k \in DOMAIN g : g[k].dollar}) + (IF \E n \in DOMAIN g : g[n].dollar THEN 0 ELSE 1)
  /\ \A n \in DOMAIN ops : ops[n].op = "override" => Len(g) = 1
  /\ \A n \in DOMAIN ops : ops[n].op \in {"prepend", "append"} /\ ops[n].val.kind = "array" =>
       \A x \in Range(ops[n].val.items) : x \in DOMAIN Guarding => Guarding[x].enabled # "false"

\* No expression of a group reads a runtime field by p.f or p['f'].
NoneRuntime(g) ==
  \A n \in DOMAIN g : g[n].key \in PredicateOps => \A m \in DOMAIN g[n].val.mentions :
    g[n].val.mentions[m].by \in {"dot", "bracket"} /\ g[n].val.mentions[m].where \in {"code", "template expression"} =>
      g[n].val.mentions[m].field \notin RuntimeFields

\* A list of one is a list of what is in it.
LEMMA OneIsList == ASSUME NEW o PROVE IsList(<<o>>) /\ DOMAIN <<o>> = {1} /\ Len(<<o>>) = 1 /\ <<o>>[1] = o /\ <<o>> # <<>>
  <1>1. DOMAIN <<o>> = {1} /\ Len(<<o>>) = 1 /\ <<o>>[1] = o
    OBVIOUS
  <1>2. Range(<<o>>) = {o}
    BY <1>1 DEF Range
  <1>3. <<o>> \in Seq({o})
    OBVIOUS
  <1> QED
    BY <1>1, <1>2, <1>3 DEF IsList

\* $override stands alone.
LEMMA OverrideMeans ==
  ASSUME NEW g, IsGroup(g), ~GroupError(g), Exclusive(g)
  PROVE  MeansWritten(g, GroupOps(g)) /\ \A n \in DOMAIN g : g[n].key \notin PredicateOps
  <1> DEFINE o == Picked(g, "$override")
  <1>1. g \in Seq(Range(g)) /\ g # <<>> /\ Len(g) <= 1 /\ Converts(g[1].val)
    BY DEF GroupError, IsGroup, IsList
  <1>2. Len(g) = 1 /\ DOMAIN g = {1}
    <2>1. Len(g) \in Nat /\ DOMAIN g = 1..Len(g) /\ Len(g) # 0
      BY <1>1
    <2> QED
      BY <1>1, <2>1
  <1>3. PICK n \in DOMAIN g : g[n].key = "$override" /\ o = [op |-> OpName[g[n].key], val |-> ValueOf(g[n])]
    BY PickedIs DEF Exclusive
  <1>4. n = 1
    BY <1>2, <1>3
  <1>5. g[1].key = "$override" /\ o = [op |-> OpName[g[1].key], val |-> ValueOf(g[1])]
    BY <1>3, <1>4
  <1>6. g[1].key \in OpKeys /\ g[1].key \notin PredicateOps /\ OpName[g[1].key] = "override"
    BY <1>5 DEF OpKeys, PredicateOps, OpName
  <1>7. ~BadPair(g[1])
    BY <1>1, <1>5, <1>6 DEF BadPair
  <1>8. IsOperation(o) /\ o.op = "override"
    <2>1. IsOperation([op |-> OpName[g[1].key], val |-> ValueOf(g[1])])
      BY <1>2, <1>6, <1>7, ValueIs
    <2> QED
      BY <1>5, <1>6, <2>1
  <1>9. g[1].dollar
    BY <1>2, <1>6 DEF IsGroup
  <1>10. GroupOps(g) = <<o>>
    BY DEF GroupOps
  <1>11. Cardinality({k \in DOMAIN g : g[k].dollar}) = 1
    <2>1. {k \in DOMAIN g : g[k].dollar} = {1}
      BY <1>2, <1>9
    <2> QED
      BY <2>1, FS_Singleton
  <1> HIDE DEF o
  <1>12. IsList(<<o>>) /\ DOMAIN <<o>> = {1} /\ Len(<<o>>) = 1 /\ <<o>>[1] = o /\ <<o>> # <<>>
    BY OneIsList
  <1>13. o \in Range(<<o>>)
    BY <1>12 DEF Range
  <1>14. MeansWritten(g, <<o>>)
    <2> DEFINE ops == <<o>>
    <2>0. ops[1] = o /\ IsList(ops) /\ DOMAIN ops = {1} /\ Len(ops) = 1 /\ o \in Range(ops) /\ ops # <<>>
      BY <1>12, <1>13
    <2> HIDE DEF ops
    <2>1. \A n_1 \in DOMAIN g : g[n_1].dollar => \E x \in Range(ops) : x.op = OpName[g[n_1].key]
      BY <1>2, <1>6, <1>8, <2>0
    <2>2. Len(ops) = Cardinality({k \in DOMAIN g : g[k].dollar}) + (IF \E m \in DOMAIN g : g[m].dollar THEN 0 ELSE 1)
      BY <1>2, <1>9, <1>11, <2>0
    <2>3. MeansWritten(g, ops)
      BY <1>2, <1>8, <2>0, <2>1, <2>2 DEF MeansWritten
    <2> QED
      BY <2>3 DEF ops
  <1> QED
    BY <1>2, <1>6, <1>10, <1>14

\* A group without an operation is merged.
LEMMA MergeMeans ==
  ASSUME NEW g, IsGroup(g), ~GroupError(g), ~Exclusive(g), \A n \in DOMAIN g : ~g[n].dollar
  PROVE  MeansWritten(g, GroupOps(g))
  <1> DEFINE at == CHOOSE n \in PlainKeys(g) : TRUE
             v == Json(g[at].val)
             o == [op |-> "merge", val |-> v]
             keys == Chosen(SubKeys, {n \in DOMAIN SubKeys : Keyed(g, SubKeys[n]) # {}})
  <1>1. g \in Seq(Range(g)) /\ g # <<>>
    BY DEF IsGroup, IsList
  <1>2. {k \in DOMAIN g : g[k].dollar} = {} /\ 1 \in DOMAIN g
    BY <1>1
  <1>3. Cardinality({k \in DOMAIN g : g[k].dollar}) = 0
    BY <1>2, FS_EmptySet
  <1>4. GroupOps(g) = <<o>>
    <2>1. keys \in Seq(OpKeys \ {"$override"}) /\ Len(keys) = 0
      BY <1>3, CompositeKeys
    <2>2. SubOps(g) = [n \in DOMAIN keys |-> Picked(g, keys[n])]
      BY DEF SubOps
    <2> HIDE DEF keys
    <2>3. DOMAIN keys = 1..0
      BY <2>1
    <2>4. SubOps(g) = <<>>
      BY <2>2, <2>3
    <2> QED
      BY <2>4 DEF GroupOps
  <1>5. at \in DOMAIN g /\ ~g[at].dollar
    <2>1. 1 \in PlainKeys(g)
      BY <1>2 DEF PlainKeys
    <2>2. at \in PlainKeys(g)
      BY <2>1
    <2> QED
      BY <2>2 DEF PlainKeys
  <1> HIDE DEF at
  <1>6. g[at].key \notin OpKeys
    BY <1>5 DEF IsGroup
  <1>7. ~BadPair(g[at])
    BY <1>5 DEF GroupError
  <1>8. g[at].val.is = "value"
    BY <1>6, <1>7 DEF BadPair, OpKeys, Converts
  <1>9. IsField(v) /\ v.kind # "absent"
    BY <1>5, <1>8 DEF IsGroup
  <1> HIDE DEF v
  <1>10. IsOperation(o) /\ o.op = "merge"
    <2>1. o.op = "merge" /\ o.val = v
      OBVIOUS
    <2> HIDE DEF o
    <2> QED
      BY <1>9, <2>1 DEF IsOperation, Ops
  <1> HIDE DEF o
  <1>11. IsList(<<o>>) /\ DOMAIN <<o>> = {1} /\ Len(<<o>>) = 1 /\ <<o>>[1] = o /\ <<o>> # <<>>
    BY OneIsList
  <1>12. MeansWritten(g, <<o>>)
    <2> DEFINE ops == <<o>>
    <2>0. ops[1] = o /\ IsList(ops) /\ DOMAIN ops = {1} /\ Len(ops) = 1 /\ ops # <<>>
      BY <1>11
    <2> HIDE DEF ops
    <2>2. Len(ops) = Cardinality({k \in DOMAIN g : g[k].dollar}) + (IF \E m \in DOMAIN g : g[m].dollar THEN 0 ELSE 1)
      BY <1>3, <2>0
    <2>3. MeansWritten(g, ops)
      BY <1>10, <2>0, <2>2 DEF MeansWritten
    <2> QED
      BY <2>3 DEF ops
  <1> QED
    BY <1>4, <1>12

\* A group with operations has those and no other.
LEMMA CompositeMeans ==
  ASSUME NEW g, IsGroup(g), ~GroupError(g), ~Exclusive(g), NEW at \in DOMAIN g, g[at].dollar
  PROVE  MeansWritten(g, GroupOps(g))
  <1> DEFINE keys == Chosen(SubKeys, {n \in DOMAIN SubKeys : Keyed(g, SubKeys[n]) # {}})
             places == {n \in DOMAIN g : g[n].dollar}
             ops == [k \in DOMAIN keys |-> Picked(g, keys[k])]
  <1>1. /\ keys \in Seq(OpKeys \ {"$override"}) /\ IsInjective(keys)
        /\ \A k \in DOMAIN keys : Keyed(g, keys[k]) # {}
        /\ \A n \in places : \E k \in DOMAIN keys : keys[k] = g[n].key
        /\ Len(keys) = Cardinality(places)
    BY CompositeKeys
  <1>2. SubOps(g) = ops
    BY DEF SubOps
  <1> HIDE DEF keys
  <1>3. DOMAIN keys = 1..Len(keys) /\ Len(keys) \in Nat
    BY <1>1
  <1>4. DOMAIN ops = 1..Len(keys) /\ ops \in Seq(Range(ops)) /\ Len(ops) = Len(keys)
    <2>1. ops = [k \in 1..Len(keys) |-> ops[k]] /\ DOMAIN ops = 1..Len(keys)
      BY <1>3
    <2> HIDE DEF ops
    <2>2. ops \in [1..Len(keys) -> Range(ops)]
      BY <2>1 DEF Range
    <2> QED
      BY <1>3, <2>1, <2>2
  <1>5. ASSUME NEW k \in DOMAIN ops
        PROVE  /\ IsOperation(ops[k]) /\ ops[k].op = OpName[keys[k]] /\ keys[k] \in OpKeys \ {"$override"}
               /\ ops[k].op \in {"prepend", "append"} /\ ops[k].val.kind = "array" =>
                    \A x \in Range(ops[k].val.items) : x \in DOMAIN Guarding => Guarding[x].enabled # "false"
    <2>1. k \in DOMAIN keys /\ Keyed(g, keys[k]) # {} /\ keys[k] \in OpKeys \ {"$override"}
      BY <1>1, <1>3, <1>4
    <2>2. PICK n \in DOMAIN g : g[n].key = keys[k] /\ Picked(g, keys[k]) = [op |-> OpName[g[n].key], val |-> ValueOf(g[n])]
      BY <2>1, PickedIs
    <2>3. ~BadPair(g[n]) /\ g[n].key \in OpKeys
      BY <2>1, <2>2 DEF GroupError
    <2> DEFINE o == [op |-> OpName[g[n].key], val |-> ValueOf(g[n])]
    <2>4. /\ IsOperation(o)
          /\ o.op \in {"prepend", "append"} /\ o.val.kind = "array" =>
               \A j \in DOMAIN o.val.items : o.val.items[j] \in DOMAIN Guarding => Guarding[o.val.items[j]].enabled # "false"
      BY <2>3, ValueIs
    <2>5. ops[k] = o /\ o.op = OpName[g[n].key]
      BY <2>1, <2>2
    <2> HIDE DEF o, ops
    <2>6. ops[k].op \in {"prepend", "append"} /\ ops[k].val.kind = "array" =>
            \A x \in Range(ops[k].val.items) : x \in DOMAIN Guarding => Guarding[x].enabled # "false"
      BY <2>4, <2>5 DEF Range
    <2> QED
      BY <2>1, <2>2, <2>4, <2>5, <2>6
  <1> HIDE DEF ops
  <1>6. Len(ops) >= 1 /\ ops # <<>>
    <2>1. PICK k \in DOMAIN keys : keys[k] = g[at].key
      BY <1>1
    <2> QED
      BY <1>3, <1>4, <2>1
  <1>7. GroupOps(g) = ops
    BY <1>2, <1>6 DEF GroupOps
  <1>8. \A j, k \in DOMAIN ops : ops[j].op = ops[k].op => j = k
    <2> SUFFICES ASSUME NEW j \in DOMAIN ops, NEW k \in DOMAIN ops, ops[j].op = ops[k].op PROVE j = k
      OBVIOUS
    <2>1. OpName[keys[j]] = OpName[keys[k]] /\ keys[j] \in OpKeys /\ keys[k] \in OpKeys
      BY <1>5
    <2>2. keys[j] = keys[k]
      BY <2>1, NamesDiffer
    <2> QED
      BY <1>1, <1>3, <1>4, <2>2 DEF IsInjective
  <1>9. \A k \in DOMAIN ops : ops[k].op \notin {"merge", "override"}
    <2> SUFFICES ASSUME NEW k \in DOMAIN ops PROVE ops[k].op \notin {"merge", "override"}
      OBVIOUS
    <2>1. keys[k] \in OpKeys \ {"$override"} /\ ops[k].op = OpName[keys[k]]
      BY <1>5
    <2> QED
      BY <2>1, NamesDiffer
  <1>10. \A n \in DOMAIN g : g[n].dollar => \E o \in Range(ops) : o.op = OpName[g[n].key]
    <2> SUFFICES ASSUME NEW n \in DOMAIN g, g[n].dollar PROVE \E o \in Range(ops) : o.op = OpName[g[n].key]
      OBVIOUS
    <2>1. PICK k \in DOMAIN keys : keys[k] = g[n].key
      BY <1>1
    <2>2. k \in DOMAIN ops /\ ops[k].op = OpName[g[n].key]
      BY <1>3, <1>4, <1>5, <2>1
    <2> QED
      BY <2>2 DEF Range
  <1>11. Len(ops) = Cardinality({k \in DOMAIN g : g[k].dollar}) + (IF \E n \in DOMAIN g : g[n].dollar THEN 0 ELSE 1)
    BY <1>1, <1>3, <1>4
  <1>12. MeansWritten(g, ops)
    BY <1>4, <1>5, <1>6, <1>8, <1>9, <1>10, <1>11 DEF MeansWritten, IsList
  <1> QED
    BY <1>7, <1>12

\* What a group that is not refused means.
LEMMA GroupMeans ==
  ASSUME NEW g, IsGroup(g), ~GroupError(g)
  PROVE  /\ MeansWritten(g, GroupOps(g))
         /\ NoneRuntime(g)
  <1>1. CASE Exclusive(g)
    BY <1>1, OverrideMeans DEF NoneRuntime
  <1>2. CASE ~Exclusive(g)
    <2>1. MeansWritten(g, GroupOps(g))
      BY <1>2, MergeMeans, CompositeMeans
    <2>2. ASSUME NEW n \in DOMAIN g, g[n].key \in PredicateOps, NEW m \in DOMAIN g[n].val.mentions,
                 g[n].val.mentions[m].by \in {"dot", "bracket"}, g[n].val.mentions[m].where \in {"code", "template expression"}
          PROVE  g[n].val.mentions[m].field \notin RuntimeFields
      <3>1. ~BadPair(g[n])
        BY <1>2 DEF GroupError
      <3>2. Extracted(g[n].val) \cap RuntimeFields = {}
        BY <2>2, <3>1 DEF BadPair, ValidPredicate
      <3>3. g[n].val.mentions[m].field \in Extracted(g[n].val)
        BY <2>2 DEF Extracted, SeenWhere
      <3> QED
        BY <3>2, <3>3
    <2> QED
      BY <2>1, <2>2 DEF NoneRuntime
  <1> QED
    BY <1>1, <1>2

\* The paths of a document that is a mapping: each with a group of its own.
LEMMA PathsWritten ==
  ASSUME NEW d \in Documents, d.is = "mapping"
  PROVE  LET W == WrittenPaths(d) IN
         W \in Seq(Paths) /\ \A n \in DOMAIN W : W[n] \in Paths /\ IsGroup(GroupOf(d, W[n]))
  <1> DEFINE places == {k \in DOMAIN PathOrder : Targets(d, PathOrder[k]) # {}}
             W == WrittenPaths(d)
  <1>1. PathOrder \in Seq(Paths)
    <2>1. PathOrder \in Seq(Range(PathOrder)) /\ Range(PathOrder) \subseteq Paths
      BY DocumentAssumption DEF IsList
    <2>2. PathOrder = [k \in 1..Len(PathOrder) |-> PathOrder[k]] /\ Len(PathOrder) \in Nat /\ DOMAIN PathOrder = 1..Len(PathOrder)
      BY <2>1
    <2>3. \A k \in 1..Len(PathOrder) : PathOrder[k] \in Paths
      BY <2>1, <2>2 DEF Range
    <2> QED
      BY <2>2, <2>3
  <1>2. W = Chosen(PathOrder, places)
    BY DEF WrittenPaths
  <1>3. places \in SUBSET DOMAIN PathOrder
    OBVIOUS
  <1>4. W \in Seq(Paths) /\ Range(W) = {PathOrder[i] : i \in places}
    <2> HIDE DEF places
    <2> QED
      BY <1>1, <1>2, <1>3, ChosenProperties
  <1> HIDE DEF W
  <1>5. ASSUME NEW n \in DOMAIN W PROVE W[n] \in Paths /\ IsGroup(GroupOf(d, W[n]))
    <2>1. W[n] \in Range(W)
      BY DEF Range
    <2>2. PICK i \in places : W[n] = PathOrder[i]
      BY <1>4, <2>1
    <2>3. W[n] \in Paths /\ Targets(d, W[n]) # {}
      BY <1>4, <2>2
    <2> QED
      BY <2>3, DocumentAssumption
  <1> QED
    BY <1>4, <1>5 DEF W

\* What an accepted document becomes.
LEMMA PatchIsWritten ==
  ASSUME NEW d \in Documents, NEW withVars \in BOOLEAN, ~Failed(d, withVars), NEW n \in DOMAIN WrittenPaths(d)
  PROVE  LET q == Patches(d)[n]  g == GroupOf(d, q.path) IN
         IsPatch(q) /\ q.path = WrittenPaths(d)[n] /\ MeansWritten(g, q.ops) /\ NoneRuntime(g)
  <1> DEFINE p == WrittenPaths(d)[n]
             g == GroupOf(d, p)
             q == CompilePathGroup(d, p)
  <1>1. d.is = "mapping" /\ ~MetaError(d, withVars) /\ ~GroupError(g)
    BY DEF Failed
  <1>2. p \in Paths /\ IsGroup(g)
    BY <1>1, PathsWritten
  <1>3. Patches(d)[n] = q
    BY DEF Patches
  <1>4. /\ q.path = p /\ q.ops = GroupOps(g) /\ q.condition = TRUE /\ q.filed = TRUE
        /\ q.matched = (d.when.is = "none" \/ d.when.holds)
    BY DEF CompilePathGroup
  <1>5. (d.when.is = "none" \/ d.when.holds) \in BOOLEAN
    OBVIOUS
  <1> HIDE DEF p, g, q
  <1>6. /\ MeansWritten(g, GroupOps(g))
        /\ NoneRuntime(g)
    BY <1>1, <1>2, GroupMeans
  <1>7. MeansWritten(g, q.ops)
    BY <1>4, <1>6
  <1>8. q.path \in Paths /\ q.matched \in BOOLEAN /\ q.condition \in BOOLEAN /\ q.filed \in BOOLEAN
    BY <1>2, <1>4, <1>5
  <1>9. IsPatch(q)
    BY <1>7, <1>8 DEF IsPatch, MeansWritten
  <1>10. g = GroupOf(d, q.path)
    BY <1>4 DEF g
  <1> QED
    BY <1>3, <1>4, <1>6, <1>7, <1>9, <1>10 DEF p

\* Patches are what an accepted document became.
DocumentInv ==
  /\ document \in Documents /\ parsed \in {"not yet", "refused", "accepted"}
  /\ parsed # "accepted" => program = <<>>
  /\ parsed = "accepted" => program = Patches(document) /\ \E withVars \in BOOLEAN : ~Failed(document, withVars)

\* Running the patches changes none of them.
LEMMA DocumentInvStep == ASSUME DocumentInv, [DslStep]_<<vars, dslVars>> PROVE DocumentInv'
  <1>1. CASE UNCHANGED <<vars, dslVars>>
    BY <1>1 DEF DocumentInv, vars, dslVars
  <1>2. ASSUME NEW withVars \in BOOLEAN, Parse(withVars) PROVE DocumentInv'
    BY <1>2 DEF Parse, DocumentInv
  <1>3. CASE Next /\ UNCHANGED dslVars
    <2>1. UNCHANGED program
      BY <1>3 DEF Next, TakePatch, RunOp, Finished, vars
    <2> QED
      BY <1>3, <2>1 DEF DocumentInv, dslVars
  <1> QED
    BY <1>1, <1>2, <1>3 DEF DslStep

\* The patches of an accepted document mean what is written in it.
LEMMA InvMeans == ASSUME DocumentInv PROVE DocumentMeaning
  <1>1. CASE parsed # "accepted"
    BY <1>1 DEF DocumentInv, DocumentMeaning
  <1>2. CASE parsed = "accepted"
    <2> DEFINE d == document
               W == WrittenPaths(d)
    <2>1. PICK withVars \in BOOLEAN : ~Failed(d, withVars)
      BY <1>2 DEF DocumentInv
    <2>2. d \in Documents /\ program = Patches(d)
      BY <1>2 DEF DocumentInv
    <2>3. d.is = "mapping"
      BY <2>1 DEF Failed
    <2>4. DOMAIN program = DOMAIN W
      BY <2>2 DEF Patches
    <2>5. W \in Seq(Paths)
      BY <2>2, <2>3, PathsWritten
    <2>6. ASSUME NEW n \in DOMAIN W
          PROVE  /\ IsPatch(program[n]) /\ program[n].path = W[n]
                 /\ MeansWritten(GroupOf(d, program[n].path), program[n].ops)
                 /\ NoneRuntime(GroupOf(d, program[n].path))
      <3>1. /\ IsPatch(Patches(d)[n]) /\ Patches(d)[n].path = W[n]
            /\ MeansWritten(GroupOf(d, Patches(d)[n].path), Patches(d)[n].ops)
            /\ NoneRuntime(GroupOf(d, Patches(d)[n].path))
        BY <2>1, <2>2, PatchIsWritten
      <3> QED
        BY <2>2, <3>1
    <2> HIDE DEF W
    <2>7. [n \in DOMAIN program |-> program[n].path] = W
      <3>1. [n \in DOMAIN program |-> program[n].path] = [n \in DOMAIN W |-> W[n]]
        BY <2>4, <2>6
      <3>2. W = [n \in DOMAIN W |-> W[n]]
        BY <2>5
      <3> QED
        BY <3>1, <3>2
    <2>8. ASSUME NEW n \in DOMAIN program
          PROVE  LET q == program[n]  g == GroupOf(d, q.path) IN
        /\ IsPatch(q)
        /\ \A e \in Range(g) : e.dollar => \E o \in Range(q.ops) : o.op = OpName[e.key]
        /\ Len(q.ops) = Cardinality({k \in DOMAIN g : g[k].dollar}) + (IF \E e \in Range(g) : e.dollar THEN 0 ELSE 1)
        /\ (\E o \in Range(q.ops) : o.op = "override") => Len(g) = 1
        /\ \A e \in Range(g) : e.key \in PredicateOps => \A m \in DOMAIN e.val.mentions :
             e.val.mentions[m].by \in {"dot", "bracket"} /\ e.val.mentions[m].where \in {"code", "template expression"} =>
               e.val.mentions[m].field \notin RuntimeFields
        /\ \A o \in Range(q.ops) : o.op \in {"prepend", "append"} /\ o.val.kind = "array" =>
             \A x \in Range(o.val.items) : x \in DOMAIN Guarding => Guarding[x].enabled # "false"
      <3> DEFINE q == program[n]
                 g == GroupOf(d, q.path)
      <3>1. IsPatch(q) /\ MeansWritten(g, q.ops) /\ NoneRuntime(g)
        BY <2>4, <2>6
      <3> HIDE DEF q, g, d
      <3>2. (\E e \in Range(g) : e.dollar) <=> (\E k \in DOMAIN g : g[k].dollar)
        BY DEF Range
      <3>3. ASSUME NEW e \in Range(g), e.dollar PROVE \E o \in Range(q.ops) : o.op = OpName[e.key]
        <4>1. PICK k \in DOMAIN g : e = g[k]
          BY DEF Range
        <4> QED
          BY <3>1, <3>3, <4>1 DEF MeansWritten
      <3>4. Len(q.ops) = Cardinality({k \in DOMAIN g : g[k].dollar}) + (IF \E e \in Range(g) : e.dollar THEN 0 ELSE 1)
        BY <3>1, <3>2 DEF MeansWritten
      <3>5. ASSUME NEW o \in Range(q.ops), o.op = "override" PROVE Len(g) = 1
        <4>1. PICK k \in DOMAIN q.ops : o = q.ops[k]
          BY DEF Range
        <4> QED
          BY <3>1, <3>5, <4>1 DEF MeansWritten
      <3>6. \A e \in Range(g) : e.key \in PredicateOps => \A m \in DOMAIN e.val.mentions :
             e.val.mentions[m].by \in {"dot", "bracket"} /\ e.val.mentions[m].where \in {"code", "template expression"} =>
               e.val.mentions[m].field \notin RuntimeFields
        BY <3>1 DEF NoneRuntime, Range
      <3>7. ASSUME NEW o \in Range(q.ops), o.op \in {"prepend", "append"}, o.val.kind = "array"
            PROVE  \A x \in Range(o.val.items) : x \in DOMAIN Guarding => Guarding[x].enabled # "false"
        <4>1. PICK k \in DOMAIN q.ops : o = q.ops[k]
          BY DEF Range
        <4> QED
          BY <3>1, <3>7, <4>1 DEF MeansWritten
      <3> QED
        BY <3>1, <3>3, <3>4, <3>5, <3>6, <3>7 DEF q, g
    <2>9. parsed # "refused"
      BY <1>2
    <2> QED
      BY <2>7, <2>8, <2>9 DEF DocumentMeaning, W
  <1> QED
    BY <1>1, <1>2

\* Whatever documents there are: an accepted one means what is written in it, while its patches run.
THEOREM DocumentsMean == DslSpec => []DocumentMeaning
  <1>1. DslStart => DocumentInv
    BY DEF DslStart, DslInit, DocumentInv
  <1>2. DocumentInv /\ [DslStep]_<<vars, dslVars>> => DocumentInv'
    BY DocumentInvStep
  <1>3. DocumentInv => DocumentMeaning
    BY InvMeans
  <1> QED
    BY <1>1, <1>2, <1>3, PTL DEF DslSpec

\* What a document became is a program: it can run.
LEMMA DocumentRuns == DocumentInv => IsProgram(program)
  <1> SUFFICES ASSUME DocumentInv PROVE IsProgram(program)
    OBVIOUS
  <1>1. CASE parsed # "accepted"
    <2>1. program = <<>>
      BY <1>1 DEF DocumentInv
    <2>2. IsList(<<>>) /\ \A n \in DOMAIN <<>> : FALSE
      BY DEF IsList
    <2> QED
      BY <2>1, <2>2 DEF IsProgram
  <1>2. CASE parsed = "accepted"
    <2> DEFINE W == WrittenPaths(document)
    <2>1. PICK withVars \in BOOLEAN : ~Failed(document, withVars)
      BY <1>2 DEF DocumentInv
    <2>2. document \in Documents /\ program = Patches(document) /\ document.is = "mapping"
      BY <1>2, <2>1 DEF DocumentInv, Failed
    <2>3. W \in Seq(Paths)
      BY <2>2, PathsWritten
    <2>4. program = [n \in DOMAIN W |-> program[n]] /\ DOMAIN program = DOMAIN W
      BY <2>2 DEF Patches
    <2>5. \A n \in DOMAIN W : IsPatch(program[n])
      BY <2>1, <2>2, PatchIsWritten
    <2> HIDE DEF W
    <2>6. Len(W) \in Nat /\ DOMAIN W = 1..Len(W)
      BY <2>3
    <2>7. program \in [1..Len(W) -> Range(program)]
      BY <2>4, <2>6 DEF Range
    <2>8. IsList(program)
      BY <2>6, <2>7 DEF IsList
    <2> QED
      BY <2>4, <2>5, <2>8 DEF IsProgram
  <1> QED
    BY <1>1, <1>2

\* Before a document is parsed nothing runs; what runs then is what it became.
DocumentRun == DocumentInv /\ OpsInv /\ Running /\ (parsed = "not yet" => Begins)

\* From a document to what its patches do.
LEMMA DocumentRunStep == DocumentRun /\ DocumentInv' /\ IsProgram(program)' /\ (Begins' => Running') /\ [DslStep]_<<vars, dslVars>>
                           => DocumentRun'
  <1> SUFFICES ASSUME DocumentRun, DocumentInv', IsProgram(program)', Begins' => Running', [DslStep]_<<vars, dslVars>>
               PROVE  DocumentRun'
    OBVIOUS
  <1>1. CASE UNCHANGED <<vars, dslVars>>
    <2>1. OpsInv' /\ Running'
      BY <1>1, OpsInvStep, RunningStep DEF DocumentRun
    <2>2. Begins => Begins'
      BY <1>1 DEF Begins, vars
    <2> QED
      BY <1>1, <2>1, <2>2 DEF DocumentRun, dslVars
  <1>2. ASSUME NEW withVars \in BOOLEAN, Parse(withVars) PROVE DocumentRun'
    <2>1. /\ parsed = "not yet" /\ parsed' # "not yet"
          /\ UNCHANGED <<document, base, config, place, todo, traces, snapshots, alike>>
      BY <1>2 DEF Parse
    <2>2. Begins'
      BY <2>1 DEF DocumentRun, Begins
    <2>3. OpsInv'
      BY <2>1 DEF DocumentRun, OpsInv, Rooted, GuardedKept
    <2> QED
      BY <2>2, <2>3 DEF DocumentRun
  <1>3. CASE parsed # "not yet" /\ Next /\ UNCHANGED dslVars
    <2>1. OpsInv' /\ Running'
      BY <1>3, OpsInvStep, RunningStep DEF DocumentRun
    <2> QED
      BY <1>3, <2>1 DEF DocumentRun, dslVars
  <1> QED
    BY <1>1, <1>2, <1>3 DEF DslStep

\* Whatever is written in a document: the patches it becomes do what the documentation of the executor
\* says of its order, its expressions, its traces and the replay.  (parser.rs, executor.rs, trace.rs)
THEOREM DocumentsRunSoundly == DslSpec => OpsSound
  <1>1. DslStart => DocumentRun
    <2> SUFFICES ASSUME DslStart PROVE DocumentRun
      OBVIOUS
    <2>1. DocumentInv
      BY DEF DslStart, DslInit, DocumentInv
    <2>2. Begins
      BY <2>1, DocumentRuns DEF DslStart, Begins
    <2>3. OpsInv
      BY BasesAreRoots DEF DslStart, OpsInv, Rooted, GuardedKept, IsConfig
    <2> QED
      BY <2>1, <2>2, <2>3, BeginsWell DEF DocumentRun
  <1>2. DslStart => DocumentInv
    BY <1>1 DEF DocumentRun
  <1>3. DocumentInv /\ [DslStep]_<<vars, dslVars>> => DocumentInv'
    BY DocumentInvStep
  <1>4. DslSpec => []DocumentRun
    BY <1>1, <1>2, <1>3, DocumentRuns, BeginsWell, DocumentRunStep, PTL DEF DslSpec
  <1>5. DocumentRun => Running /\ OpsInv /\ Going /\ Counted
    BY DEF DocumentRun, Running
  <1>6. OpsInv => GuardedKept
    BY DEF OpsInv
  <1>7. Going /\ Counted /\ [DslStep]_<<vars, dslVars>> => [ todo # <<>> /\ Current.matched /\ Head(todo).op \in ListOps => LET p == Current.path IN
        /\ Length(config', p) - Length(config, p) = Last(traces').added - Last(traces').removed
        /\ IsArray(config, p) /\ ~Guarded(p) =>
             Last(traces').affected = Last(traces').added + Last(traces').removed + Last(traces').modified
    ]_<<config, traces>>
    <2>1. [DslStep]_<<vars, dslVars>> => [Next]_vars \/ UNCHANGED <<config, traces>>
      BY DEF DslStep, Parse, vars
    <2> QED
      BY <2>1, SummaryStep
  <1>8. DslSpec => SummaryExact
    BY <1>4, <1>5, <1>7, PTL DEF DslSpec, SummaryExact
  <1> QED
    BY <1>4, <1>5, <1>6, <1>8, RunningMeans, PTL DEF OpsSound

-----------------------------------------------------------------------------
(* Conditions. *)

\* The answer that stands is the one for the condition and the machine that stand.
ScopeInv ==
  /\ machine \in Machines
  /\ applies \in {"yes", "no"} => ~WhenError(when) /\ (applies = "yes" <=> Applies(Scope(when), machine))

\* Counting from a time to another, over midnight or not.
LEMMA Minutes ==
  ASSUME NEW D \in Nat \ {0}, NEW from \in 0..D - 1, NEW to \in 0..D - 1
  PROVE  /\ (to - from) % D = IF from <= to THEN to - from ELSE to - from + D
         /\ \A k \in 0..D - 1 : (from + k) % D = IF from + k < D THEN from + k ELSE from + k - D
  OBVIOUS

\* InTimeRange compares minutes; that is to be on the way the clock goes from one end to the other.
LEMMA WalkExact ==
  ASSUME NEW from \in 0..DayMinutes - 1, NEW to \in 0..DayMinutes - 1, NEW m \in 0..DayMinutes - 1, from # to
  PROVE  m \in Walk(from, to) <=> InTimeRange([from |-> from, to |-> to], m)
  <1> DEFINE D == DayMinutes
             far == (to - from) % D
  <1>1. D \in Nat \ {0} /\ D \in Int
    BY ScopeAssumption
  <1>2. /\ far = IF from <= to THEN to - from ELSE to - from + D
        /\ \A k \in 0..D - 1 : (from + k) % D = IF from + k < D THEN from + k ELSE from + k - D
    BY <1>1, Minutes
  <1>3. m \in Walk(from, to) <=> \E k \in 0..far : m = (from + k) % D
    BY DEF Walk
  <1>4. InTimeRange([from |-> from, to |-> to], m) <=> IF from < to THEN m >= from /\ m <= to ELSE m >= from \/ m <= to
    BY DEF InTimeRange
  <1> HIDE DEF D, far
  <1>5. far \in 0..D - 1
    BY <1>1, <1>2 DEF D
  <1>6. (\E k \in 0..far : m = (from + k) % D) <=>
          \E k \in 0..far : m = IF from + k < D THEN from + k ELSE from + k - D
    <2>1. \A k \in 0..far : k \in 0..D - 1
      BY <1>1, <1>5
    <2> QED
      BY <1>2, <2>1
  <1>7. ASSUME NEW k \in 0..far, m = IF from + k < D THEN from + k ELSE from + k - D
        PROVE  IF from < to THEN m >= from /\ m <= to ELSE m >= from \/ m <= to
    BY <1>1, <1>2, <1>5, <1>7 DEF D
  <1>8. ASSUME IF from < to THEN m >= from /\ m <= to ELSE m >= from \/ m <= to
        PROVE  \E k \in 0..far : m = IF from + k < D THEN from + k ELSE from + k - D
    <2>1. CASE m >= from
      <3>1. m - from \in 0..far /\ from + (m - from) = m /\ m < D
        BY <1>1, <1>2, <1>8, <2>1 DEF D
      <3> QED
        BY <3>1
    <2>2. CASE ~(m >= from)
      <3>1. m - from + D \in 0..far /\ from + (m - from + D) = m + D /\ ~(m + D < D) /\ m + D - D = m
        BY <1>1, <1>2, <1>8, <2>2 DEF D
      <3> DEFINE k == m - from + D
      <3>2. m = IF from + k < D THEN from + k ELSE from + k - D
        <4>1. from + k = m + D /\ k \in Int
          BY <1>1, <3>1
        <4> HIDE DEF k
        <4> QED
          BY <1>1, <3>1, <4>1 DEF D
      <3> QED
        BY <3>1, <3>2
    <2> QED
      BY <2>1, <2>2
  <1> QED
    BY <1>3, <1>4, <1>6, <1>7, <1>8

\* What ScopeExact says of a condition that was understood and a machine.
LEMMA MeansApplies ==
  ASSUME NEW w, ~WhenError(w), NEW m \in Machines
  PROVE  Applies(Scope(w), m) <=>
           /\ w.enabled.is = "boolean" => w.enabled.says
           /\ w.time.is = "string" =>
                w.time.says.from = w.time.says.to \/ m.now \in Walk(w.time.says.from, w.time.says.to)
           /\ w.ssid.is = "string" => m.ssid = w.ssid.says
           /\ w.core.is = "string" /\ m.core # Unknown =>
                m.core = w.core.says \/ (m.core = "mihomo" /\ w.core.says \in {"clash", "meta"})
           /\ w.platform.is # "unsaid" /\ m.platform # Unknown =>
                \E a \in PlatformNames(w.platform) : m.platform \in {PlatformAlias[a], "all"}
           /\ w.profile.is # "unsaid" =>
                m.profile.known /\ \E p \in Range(AsList(w.profile)) : ProfileMatches(m.profile.name, p)
  <1> DEFINE s == Scope(w)
  <1>1. s.enabled <=> (w.enabled.is = "boolean" => w.enabled.says)
    BY DEF Scope
  <1>2. (s.time # NoOne => InTimeRange(s.time[1], m.now)) <=>
          (w.time.is = "string" =>
             w.time.says.from = w.time.says.to \/ m.now \in Walk(w.time.says.from, w.time.says.to))
    <2>1. CASE w.time.is # "string"
      BY <2>1 DEF Scope, NoOne
    <2>2. CASE w.time.is = "string"
      <3> DEFINE t == w.time.says
      <3>1. s.time # NoOne /\ s.time[1] = t
        BY <2>2 DEF Scope, NoOne, Said
      <3>2. t.from \in 0..DayMinutes - 1 /\ t.to \in 0..DayMinutes - 1 /\ m.now \in 0..DayMinutes - 1
        BY <2>2, ScopeAssumption DEF WhenError, TimeParses
      <3>3. CASE t.from = t.to
        BY <2>2, <3>1, <3>3 DEF InTimeRange
      <3>4. CASE t.from # t.to
        <4>1. m.now \in Walk(t.from, t.to) <=> InTimeRange([from |-> t.from, to |-> t.to], m.now)
          BY <3>2, <3>4, WalkExact
        <4>2. InTimeRange([from |-> t.from, to |-> t.to], m.now) <=> InTimeRange(t, m.now)
          BY DEF InTimeRange
        <4> HIDE DEF t, s
        <4> QED
          BY <2>2, <3>1, <3>4, <4>1, <4>2 DEF t
      <3> QED
        BY <3>3, <3>4
    <2> QED
      BY <2>1, <2>2
  <1>3. SsidHolds(s, m) <=> (w.ssid.is = "string" => m.ssid = w.ssid.says)
    BY DEF SsidHolds, Scope, NoOne, Said
  <1>4. CoreHolds(s, m) <=>
          (w.core.is = "string" /\ m.core # Unknown =>
             m.core = w.core.says \/ (m.core = "mihomo" /\ w.core.says \in {"clash", "meta"}))
    <2>1. m.core \notin {"clash", "meta"}
      BY ScopeAssumption
    <2>2. NormalizedCore(w.core.says) = IF w.core.says \in {"clash", "meta"} THEN "mihomo" ELSE w.core.says
      BY ScopeAssumption DEF NormalizedCore
    <2>3. s.core = IF w.core.is = "string" THEN <<NormalizedCore(w.core.says)>> ELSE <<>>
      BY DEF Scope, NoOne, Said
    <2> QED
      BY <2>1, <2>2, <2>3 DEF CoreHolds, NoOne, Said
  <1>5. PlatformHolds(s, m) <=>
          (w.platform.is # "unsaid" /\ m.platform # Unknown =>
             \E a \in PlatformNames(w.platform) : m.platform \in {PlatformAlias[a], "all"})
    <2> DEFINE ps == {PlatformAlias[a] : a \in PlatformNames(w.platform)}
    <2>1. s.platform = IF w.platform.is = "unsaid" THEN <<>> ELSE <<ps>>
      BY DEF Scope, NoOne, Said
    <2>2. PlatformHolds(s, m) <=> (w.platform.is # "unsaid" /\ m.platform # Unknown => ps # {} /\ m.platform \in ps \cup {"all"})
      <3> HIDE DEF ps
      <3> QED
        BY <2>1 DEF PlatformHolds, NoOne
    <2> QED
      BY <2>2
  <1>6. ProfileHolds(s, m) <=>
          (w.profile.is # "unsaid" =>
             m.profile.known /\ \E p \in Range(AsList(w.profile)) : ProfileMatches(m.profile.name, p))
    <2> DEFINE ps == AsList(w.profile)
    <2>1. s.profile = IF w.profile.is = "unsaid" THEN <<>> ELSE <<ps>>
      BY DEF Scope, NoOne, Said
    <2>2. ProfileHolds(s, m) <=>
            (w.profile.is # "unsaid" => m.profile.known /\ \E n \in DOMAIN ps : ProfileMatches(m.profile.name, ps[n]))
      <3> HIDE DEF ps
      <3> QED
        BY <2>1 DEF ProfileHolds, NoOne
    <2>3. (\E n \in DOMAIN ps : ProfileMatches(m.profile.name, ps[n])) <=> \E p \in Range(ps) : ProfileMatches(m.profile.name, p)
      BY DEF Range
    <2> QED
      BY <2>2, <2>3
  <1> HIDE DEF s
  <1>7. Applies(s, m) <=>
          /\ s.enabled /\ SsidHolds(s, m) /\ (s.time # NoOne => InTimeRange(s.time[1], m.now))
          /\ CoreHolds(s, m) /\ PlatformHolds(s, m) /\ ProfileHolds(s, m)
    BY DEF Applies
  <1> QED
    BY <1>1, <1>2, <1>3, <1>4, <1>5, <1>6, <1>7 DEF s

\* The answer kept by the invariant is the exact one.
LEMMA ScopeHolds == ScopeInv => ScopeExact
  BY MeansApplies DEF ScopeInv, ScopeExact

\* One step per action: a condition is compiled, a machine has changed and is asked again.
LEMMA ScopeKeeps == ScopeInv /\ [ScopeNext]_scopeVars => ScopeInv'
  <1> SUFFICES ASSUME ScopeInv, [ScopeNext]_scopeVars PROVE ScopeInv'
    OBVIOUS
  <1>1. ASSUME NEW w \in Conditions, Compile(w) PROVE ScopeInv'
    <2>1. when' = w /\ machine' = machine /\ machine \in Machines
      BY <1>1 DEF Compile, ScopeInv
    <2>2. applies' = IF WhenError(w) THEN "refused" ELSE IF Applies(Scope(w), machine) THEN "yes" ELSE "no"
      BY <1>1 DEF Compile
    <2> QED
      BY <2>1, <2>2 DEF ScopeInv
  <1>2. ASSUME NEW m \in Machines, Recheck(m) PROVE ScopeInv'
    <2>1. when' = when /\ machine' = m /\ ~WhenError(when)
      BY <1>2 DEF Recheck, ScopeInv
    <2>2. applies' = IF Applies(Scope(when), m) THEN "yes" ELSE "no"
      BY <1>2 DEF Recheck
    <2> QED
      BY <2>1, <2>2 DEF ScopeInv
  <1>3. CASE UNCHANGED scopeVars
    BY <1>3 DEF scopeVars, ScopeInv
  <1> QED
    BY <1>1, <1>2, <1>3 DEF ScopeNext

\* Whatever the conditions, the machines and the moments they are asked at: a patch applies exactly while
\* the conditions of it that were understood hold on the machine as it is now, over midnight too.  The
\* order of the comparisons in scope_matches and the spellings of cores and platforms do not show.
THEOREM ScopesAreExact == ScopeSpec => []ScopeExact
  <1>1. ScopeInit => ScopeInv
    BY DEF ScopeInit, ScopeInv
  <1> QED
    BY <1>1, ScopeKeeps, ScopeHolds, PTL DEF ScopeSpec

-----------------------------------------------------------------------------
(* The output. *)

Lines == [blank : BOOLEAN, indent : Nat, opens : BOOLEAN, end : {"colon-bar", "bar", "other"}]
\* Where a reader of block scalars stands, and what one more line does to it.
Reader == [inside : BOOLEAN, indent : Nat]
Read(line, before) ==
  IF line.blank THEN before
  ELSE IF line.end = "colon-bar" THEN [inside |-> TRUE, indent |-> line.indent]
  ELSE IF line.end = "bar" THEN before
  ELSE [inside |-> before.inside /\ line.indent > before.indent, indent |-> before.indent]
StartOfText == [inside |-> FALSE, indent |-> 0]
IsReading(g, lines, k) == g = [n \in 0..k |-> IF n = 0 THEN StartOfText ELSE Read(lines[n], g[n - 1])]

\* The table of a text exists: no first prefix of it is without one.
LEMMA ReadingExists ==
  ASSUME NEW lines \in Seq(Lines)
  PROVE  /\ IsReading(BlockScalar(lines), lines, Len(lines))
         /\ \A n \in 0..Len(lines) : BlockScalar(lines)[n] \in Reader
  <1> DEFINE N == Len(lines)
             Short(k) == \E g : IsReading(g, lines, k)
             f == BlockScalar(lines)
  <1>1. N \in Nat /\ \A n \in 1..N : lines[n] \in Lines
    OBVIOUS
  <1>2. f = CHOOSE g : IsReading(g, lines, N)
    BY DEF BlockScalar, IsReading, Read, StartOfText
  <1> HIDE DEF N, f
  <1>3. Short(0)
    <2>1. IsReading([n \in 0..0 |-> StartOfText], lines, 0)
      BY DEF IsReading
    <2> QED
      BY <2>1
  <1>4. ASSUME NEW k \in 1..N, Short(k - 1) PROVE Short(k)
    <2>1. PICK g : IsReading(g, lines, k - 1)
      BY <1>4
    <2> DEFINE h == [n \in 0..k |-> IF n = k THEN Read(lines[k], g[k - 1]) ELSE g[n]]
    <2>2. k \in Nat /\ k - 1 \in Nat /\ DOMAIN g = 0..(k - 1)
      BY <1>1, <2>1 DEF IsReading
    <2>3. ASSUME NEW n \in 0..k PROVE h[n] = IF n = 0 THEN StartOfText ELSE Read(lines[n], h[n - 1])
      <3>1. CASE n = k
        <4>1. h[n] = Read(lines[k], g[k - 1]) /\ h[n - 1] = g[k - 1] /\ n # 0
          BY <1>1, <3>1
        <4> QED
          BY <3>1, <4>1
      <3>2. CASE n # k
        <4>1. n \in 0..(k - 1) /\ h[n] = g[n]
          BY <1>1, <3>2
        <4>2. g[n] = IF n = 0 THEN StartOfText ELSE Read(lines[n], g[n - 1])
          BY <2>1, <4>1 DEF IsReading
        <4>3. n # 0 => h[n - 1] = g[n - 1]
          BY <1>1, <4>1
        <4> QED
          BY <4>1, <4>2, <4>3
      <3> QED
        BY <3>1, <3>2
    <2>4. IsReading(h, lines, k)
      <3>1. h = [n \in 0..k |-> h[n]]
        OBVIOUS
      <3> HIDE DEF h
      <3> QED
        BY <2>3, <3>1 DEF IsReading
    <2> QED
      BY <2>4
  <1>5. Short(N)
    <2> DEFINE bad == {k \in 0..N : ~Short(k)}
    <2>1. bad \in SUBSET Nat
      BY <1>1
    <2>2. CASE bad # {}
      <3>1. PICK k \in bad : \A j \in bad : k <= j
        <4> HIDE DEF bad
        <4> QED
          BY <2>1, <2>2, LeastNumber
      <3>2. k \in 0..N /\ ~Short(k)
        OBVIOUS
      <3>3. k # 0
        BY <1>3, <3>2
      <3>4. k \in 1..N /\ k - 1 \in 0..N /\ ~(k <= k - 1)
        BY <1>1, <3>2, <3>3
      <3>5. Short(k - 1)
        BY <3>1, <3>4
      <3> QED
        BY <1>4, <3>2, <3>4, <3>5
    <2>3. N \in 0..N
      BY <1>1
    <2> HIDE DEF Short
    <2> QED
      BY <2>2, <2>3
  <1>6. IsReading(f, lines, N)
    BY <1>2, <1>5, Zenon
  <1>7. f[0] = StartOfText /\ \A n \in 1..N : f[n] = Read(lines[n], f[n - 1])
    <2>1. 0 \in 0..N /\ \A n \in 1..N : n \in 0..N /\ n # 0
      BY <1>1
    <2>2. \A n \in 0..N : f[n] = IF n = 0 THEN StartOfText ELSE Read(lines[n], f[n - 1])
      BY <1>6 DEF IsReading
    <2> QED
      BY <2>1, <2>2
  <1>8. ASSUME NEW line \in Lines, NEW r \in Reader PROVE Read(line, r) \in Reader
    BY DEF Lines, Reader, Read
  <1>9. \A n \in 0..N : f[n] \in Reader
    <2> DEFINE bad == {k \in 0..N : f[k] \notin Reader}
    <2>1. bad \in SUBSET Nat
      BY <1>1
    <2>2. ASSUME bad # {} PROVE FALSE
      <3>1. PICK k \in bad : \A j \in bad : k <= j
        <4> HIDE DEF bad
        <4> QED
          BY <2>1, <2>2, LeastNumber
      <3>2. k \in 0..N /\ f[k] \notin Reader
        OBVIOUS
      <3>3. k # 0
        <4>1. StartOfText \in Reader
          BY DEF StartOfText, Reader
        <4> HIDE DEF bad
        <4> QED
          BY <1>7, <3>2, <4>1
      <3>4. k \in 1..N /\ k - 1 \in 0..N /\ ~(k <= k - 1)
        BY <1>1, <3>2, <3>3
      <3>5. f[k - 1] \in Reader
        BY <3>1, <3>4
      <3>6. f[k] = Read(lines[k], f[k - 1]) /\ lines[k] \in Lines
        BY <1>1, <1>7, <3>4
      <3> HIDE DEF bad
      <3> QED
        BY <1>8, <3>2, <3>5, <3>6
    <2> QED
      BY <2>2
  <1> QED
    BY <1>6, <1>9 DEF N, f

\* The header at h is still open after line n: what follows it is blank or deeper.
Opened(lines, h, n) ==
  /\ h \in 1..n /\ lines[h].opens
  /\ \A k \in h + 1..n : lines[k].blank \/ lines[k].indent > lines[h].indent
\* The reader is inside a scalar exactly when a header is open, and knows the indentation of the first.
ReadsWell(lines, n) ==
  LET r == BlockScalar(lines)[n] IN
  /\ r.inside => \E h \in 1..n : Opened(lines, h, n) /\ r.indent = lines[h].indent
  /\ \A h \in 1..n : Opened(lines, h, n) => r.inside /\ r.indent <= lines[h].indent

\* The header at h is still open a line later when it was and the line is blank or further in.
LEMMA OneMoreLine ==
  ASSUME NEW n \in Nat, NEW h \in 1..n, NEW lines
  PROVE  Opened(lines, h, n + 1) <=>
           Opened(lines, h, n) /\ (lines[n + 1].blank \/ lines[n + 1].indent > lines[h].indent)
  <1>1. h \in 1..n + 1
    OBVIOUS
  <1>2. h + 1..n + 1 = (h + 1..n) \cup {n + 1}
    OBVIOUS
  <1> QED
    BY <1>1, <1>2 DEF Opened

\* While the lines that end in a colon and a bar are the headers outside of the scalars.
LEMMA ReadsOn ==
  ASSUME NEW lines \in YamlTexts, Plainly(lines), NEW n \in 1..Len(lines), ReadsWell(lines, n - 1)
  PROVE  ReadsWell(lines, n)
  <1> DEFINE f == BlockScalar(lines)
             before == f[n - 1]
             after == f[n]
             line == lines[n]
             m == n - 1
  <1>1. lines \in Seq(Lines) /\ Len(lines) \in Nat /\ line \in Lines /\ DOMAIN lines = 1..Len(lines)
    <2>1. lines \in Seq(Lines)
      BY YamlAssumption DEF Lines
    <2> QED
      BY <2>1
  <1>2. m \in Nat /\ m + 1 = n /\ n - 1 = m /\ n \in 0..Len(lines) /\ m \in 0..Len(lines) /\ n # 0 /\ n \in Nat
    BY <1>1
  <1>3. after = Read(line, before) /\ before \in Reader
    <2>1. IsReading(f, lines, Len(lines)) /\ before \in Reader
      BY <1>1, <1>2, ReadingExists
    <2> HIDE DEF f, line
    <2>2. \A i \in 0..Len(lines) : f[i] = IF i = 0 THEN StartOfText ELSE Read(lines[i], f[i - 1])
      BY <2>1 DEF IsReading
    <2> QED
      BY <1>2, <2>1, <2>2 DEF line
  <1>4. \A h \in 1..m : Opened(lines, h, n) <=> Opened(lines, h, m) /\ (line.blank \/ line.indent > lines[h].indent)
    BY <1>2, OneMoreLine
  <1>5. \A h \in 1..n : h = n \/ h \in 1..m
    BY <1>2
  <1>6. /\ before.inside => \E h \in 1..m : Opened(lines, h, m) /\ before.indent = lines[h].indent
        /\ \A h \in 1..m : Opened(lines, h, m) => before.inside /\ before.indent <= lines[h].indent
    BY DEF ReadsWell
  <1>7. line.blank => line.end = "other" /\ ~line.opens
    BY <1>1, YamlAssumption
  <1>12. (InScalar(lines, n) => line.end # "colon-bar")
         /\ (~InScalar(lines, n) => line.end # "bar" /\ (line.opens <=> line.end = "colon-bar"))
    BY <1>1 DEF Plainly
  <1>13. before.inside \in BOOLEAN /\ before.indent \in Nat /\ line.indent \in Nat /\ \A h \in 1..n : lines[h].indent \in Nat
    <2>1. \A h \in 1..n : lines[h] \in Lines
      BY <1>1, <1>2
    <2> QED
      BY <1>1, <1>3, <2>1 DEF Reader, Lines
  <1>8. \A h \in 1..m : h \in 1..n
    BY <1>2
  <1>14. ~line.blank => (InScalar(lines, n) <=> \E h \in 1..m : Opened(lines, h, n))
    BY <1>2, <1>8 DEF InScalar, Opened
  <1> HIDE DEF m, f
  <1>9. CASE line.blank
    <2>1. after = before
      BY <1>3, <1>9 DEF Read
    <2>2. ~Opened(lines, n, n)
      BY <1>7, <1>9 DEF Opened
    <2>3. after.inside => \E h \in 1..n : Opened(lines, h, n) /\ after.indent = lines[h].indent
      BY <1>4, <1>6, <1>8, <1>9, <2>1
    <2>4. ASSUME NEW h \in 1..n, Opened(lines, h, n) PROVE after.inside /\ after.indent <= lines[h].indent
      BY <1>4, <1>5, <1>6, <2>1, <2>2, <2>4
    <2> QED
      BY <2>3, <2>4 DEF ReadsWell, f
  <1>10. CASE ~line.blank /\ line.end = "colon-bar"
    <2>1. after.inside /\ after.indent = line.indent
      BY <1>3, <1>10 DEF Read
    <2>2. Opened(lines, n, n)
      BY <1>2, <1>10, <1>12 DEF Opened
    <2>3. ASSUME NEW h \in 1..m, Opened(lines, h, n) PROVE FALSE
      BY <1>10, <1>12, <1>14, <2>3
    <2>4. ASSUME NEW h \in 1..n, Opened(lines, h, n) PROVE after.inside /\ after.indent <= lines[h].indent
      BY <1>5, <1>13, <2>1, <2>3, <2>4
    <2> QED
      BY <1>2, <2>1, <2>2, <2>4 DEF ReadsWell, f
  <1>15. ASSUME ~line.blank, NEW h \in 1..m, Opened(lines, h, n)
         PROVE  before.inside /\ before.indent <= lines[h].indent /\ line.indent > before.indent
    <2>1. Opened(lines, h, m) /\ line.indent > lines[h].indent /\ lines[h].indent \in Nat
      BY <1>4, <1>8, <1>13, <1>15
    <2> QED
      BY <1>6, <1>13, <2>1
  \* A line inside a scalar that would be a header elsewhere is text.
  <1>16. ASSUME ~line.blank, line.end # "colon-bar", NEW h \in 1..n, Opened(lines, h, n)
         PROVE  before.inside /\ before.indent <= lines[h].indent /\ line.indent > before.indent
    <2>1. CASE h \in 1..m
      BY <1>15, <1>16, <2>1
    <2>2. CASE h = n
      <3>1. line.opens
        BY <1>16, <2>2 DEF Opened
      <3>2. PICK g \in 1..m : Opened(lines, g, n)
        BY <1>12, <1>14, <1>16, <3>1
      <3>3. before.inside /\ line.indent > before.indent
        BY <1>15, <1>16, <3>2
      <3> QED
        BY <1>13, <2>2, <3>3
    <2> QED
      BY <1>5, <2>1, <2>2
  <1>11. CASE ~line.blank /\ line.end # "colon-bar"
    <2> DEFINE Goes == /\ after.indent = before.indent /\ (after.inside => before.inside)
                       /\ (before.inside /\ line.indent > before.indent => after.inside)
                       /\ (after.inside => line.indent > before.indent)
    <2>5. ASSUME line.end = "bar" PROVE Goes
      <3>1. after = before
        BY <1>3, <1>11, <2>5 DEF Read
      <3>2. PICK g \in 1..m : Opened(lines, g, n)
        BY <1>11, <1>12, <1>14, <2>5
      <3>3. line.indent > before.indent
        BY <1>11, <1>15, <3>2
      <3> QED
        BY <3>1, <3>3
    <2>6. ASSUME line.end # "bar" PROVE Goes
      <3> DEFINE in == before.inside /\ line.indent > before.indent
      <3>1. Read(line, before) = [inside |-> in, indent |-> before.indent]
        BY <1>11, <2>6 DEF Read
      <3> HIDE DEF in, after, before, line
      <3>2. after = [inside |-> in, indent |-> before.indent]
        BY <1>3, <3>1
      <3>3. after.inside = in /\ after.indent = before.indent
        BY <3>2
      <3> QED
        BY <3>3 DEF in
    <2> HIDE DEF Goes
    <2>7. Goes
      BY <2>5, <2>6
    <2>1. /\ after.indent = before.indent /\ (after.inside => before.inside)
          /\ before.inside /\ line.indent > before.indent => after.inside
      BY <2>7 DEF Goes
    <2>2. after.inside => line.indent > before.indent
      BY <2>7 DEF Goes
    <2>3. after.inside => \E h \in 1..n : Opened(lines, h, n) /\ after.indent = lines[h].indent
      BY <1>4, <1>6, <1>8, <2>1, <2>2
    <2>4. ASSUME NEW h \in 1..n, Opened(lines, h, n) PROVE after.inside /\ after.indent <= lines[h].indent
      BY <1>11, <1>16, <2>1, <2>4
    <2> QED
      BY <2>3, <2>4 DEF ReadsWell, f
  <1> QED
    BY <1>9, <1>10, <1>11

\* By induction over the lines: the two variables of compact_yaml say where a reader stands all along.
LEMMA ReadsThrough ==
  ASSUME NEW lines \in YamlTexts, Plainly(lines), NEW n \in 0..Len(lines)
  PROVE  ReadsWell(lines, n)
  <1> DEFINE bad == {k \in 0..Len(lines) : ~ReadsWell(lines, k)}
  <1>1. lines \in Seq(Lines) /\ Len(lines) \in Nat
    BY YamlAssumption DEF Lines
  <1>2. ReadsWell(lines, 0)
    <2>1. BlockScalar(lines)[0] = StartOfText
      BY <1>1, ReadingExists DEF IsReading
    <2> QED
      BY <2>1 DEF ReadsWell, StartOfText
  <1>3. bad \in SUBSET Nat
    BY <1>1
  <1>4. ASSUME bad # {} PROVE FALSE
    <2>1. PICK k \in bad : \A j \in bad : k <= j
      <3> HIDE DEF bad
      <3> QED
        BY <1>3, <1>4, LeastNumber
    <2>2. k \in 0..Len(lines) /\ ~ReadsWell(lines, k) /\ k # 0
      BY <1>2
    <2>3. k \in 1..Len(lines) /\ k - 1 \in 0..Len(lines) /\ ~(k <= k - 1)
      BY <1>1, <2>2
    <2>4. ReadsWell(lines, k - 1)
      BY <2>1, <2>3
    <2> QED
      BY <2>2, <2>3, <2>4, ReadsOn
  <1> QED
    BY <1>4

\* The lines that stay are those compact_yaml is to keep.
LEMMA CompactExact ==
  ASSUME NEW lines \in YamlTexts, Plainly(lines)
  PROVE  CompactYaml(lines) =
           Chosen(lines, {n \in DOMAIN lines :
             ~lines[n].blank \/ (InScalar(lines, n) /\ \E k \in n..Len(lines) : ~lines[k].blank)})
  <1> DEFINE pushed == Pushed(lines)
             stay == {n \in DOMAIN lines :
                        ~lines[n].blank \/ (InScalar(lines, n) /\ \E k \in n..Len(lines) : ~lines[k].blank)}
  <1>1. lines \in Seq(Lines) /\ Len(lines) \in Nat /\ DOMAIN lines = 1..Len(lines)
    BY YamlAssumption DEF Lines
  <1>2. ASSUME NEW n \in 1..Len(lines), lines[n].blank PROVE BlockScalar(lines)[n - 1].inside <=> InScalar(lines, n)
    <2>1. n - 1 \in 0..Len(lines) /\ n \in Nat /\ n - 1 \in Nat /\ (n - 1) + 1 = n
      BY <1>1
    <2>2. BlockScalar(lines)[n - 1].inside <=> \E h \in 1..n - 1 : Opened(lines, h, n - 1)
      BY <2>1, ReadsThrough DEF ReadsWell
    <2>3. \A h \in 1..n - 1 : Opened(lines, h, n) <=> Opened(lines, h, n - 1)
      BY <1>2, <2>1, OneMoreLine
    <2>4. InScalar(lines, n) <=> \E h \in 1..n - 1 : Opened(lines, h, n)
      BY <2>1 DEF InScalar, Opened
    <2> QED
      BY <2>2, <2>3, <2>4
  <1>3. pushed = {n \in 1..Len(lines) : lines[n].blank => InScalar(lines, n)}
    BY <1>1, <1>2 DEF Pushed
  <1> HIDE DEF pushed
  <1>4. \A n, k \in 1..Len(lines) : k >= n <=> k \in n..Len(lines)
    BY <1>1
  <1>5. \A n \in 1..Len(lines) : n >= n
    BY <1>1
  <1>6. \A n \in 1..Len(lines) : \A k \in n..Len(lines) : k \in 1..Len(lines)
    BY <1>1
  <1>7. TrimEnd(lines, pushed) = stay
    BY <1>1, <1>3, <1>4, <1>5, <1>6 DEF TrimEnd
  <1> QED
    BY <1>7 DEF CompactYaml, pushed

\* No line but a blank one is left out.
LEMMA CompactLosesBlanks ==
  ASSUME NEW lines \in YamlTexts
  PROVE  \E kept \in SUBSET DOMAIN lines :
           /\ \A n \in DOMAIN lines \ kept : lines[n].blank
           /\ CompactYaml(lines) = Chosen(lines, kept)
  <1> DEFINE kept == TrimEnd(lines, Pushed(lines))
  <1>1. \A n \in DOMAIN lines : n >= n
    BY YamlAssumption
  <1>2. \A n \in DOMAIN lines : ~lines[n].blank => n \in Pushed(lines)
    BY DEF Pushed
  <1>3. kept \in SUBSET DOMAIN lines
    BY DEF TrimEnd, Pushed
  <1>4. \A n \in DOMAIN lines \ kept : lines[n].blank
    BY <1>1, <1>2 DEF TrimEnd
  <1>5. CompactYaml(lines) = Chosen(lines, kept)
    BY DEF CompactYaml
  <1> HIDE DEF kept
  <1> QED
    BY <1>3, <1>4, <1>5

AdaptBy(c, n, target) == IF FieldMappings[n].target # target THEN c ELSE AdaptField(c, FieldMappings[n])

\* The table has six entries; to adapt is to go through them in their order.
LEMMA AdaptSteps ==
  ASSUME NEW c, NEW target
  PROVE  AdaptForTarget(c, target) =
           AdaptBy(AdaptBy(AdaptBy(AdaptBy(AdaptBy(AdaptBy(c, 1, target), 2, target), 3, target), 4, target), 5, target), 6, target)
  <1> DEFINE c1 == AdaptBy(c, 1, target)
             c2 == AdaptBy(c1, 2, target)
             c3 == AdaptBy(c2, 3, target)
             c4 == AdaptBy(c3, 4, target)
             c5 == AdaptBy(c4, 5, target)
             c6 == AdaptBy(c5, 6, target)
             g == [n \in 0..6 |-> IF n = 0 THEN c ELSE IF n = 1 THEN c1 ELSE IF n = 2 THEN c2 ELSE IF n = 3 THEN c3
                                  ELSE IF n = 4 THEN c4 ELSE IF n = 5 THEN c5 ELSE c6]
             Table(h) == h = [n \in 0..6 |-> IF n = 0 THEN c ELSE AdaptBy(h[n - 1], n, target)]
             f == CHOOSE h : Table(h)
  <1>1. AdaptForTarget(c, target) = f[6]
    <2>1. Len(FieldMappings) = 6
      BY DEF FieldMappings
    <2> QED
      BY <2>1, Zenon DEF AdaptForTarget, AdaptBy
  <1>2. Table(g)
    <2>1. \A n \in 0..6 : n = 0 \/ n = 1 \/ n = 2 \/ n = 3 \/ n = 4 \/ n = 5 \/ n = 6
      OBVIOUS
    <2> HIDE DEF c1, c2, c3, c4, c5, c6
    <2>2. g[0] = c /\ g[1] = c1 /\ g[2] = c2 /\ g[3] = c3 /\ g[4] = c4 /\ g[5] = c5 /\ g[6] = c6
      OBVIOUS
    <2>3. ASSUME NEW n \in 0..6 PROVE g[n] = IF n = 0 THEN c ELSE AdaptBy(g[n - 1], n, target)
      <3> HIDE DEF g
      <3> QED
        BY <2>1, <2>2 DEF c1, c2, c3, c4, c5, c6
    <2>4. g = [n \in 0..6 |-> g[n]]
      OBVIOUS
    <2> HIDE DEF g
    <2> QED
      BY <2>3, <2>4
  <1>3. Table(f)
    BY <1>2, Zenon
  <1> HIDE DEF f
  <1>4. f[0] = c /\ \A n \in 1..6 : f[n] = AdaptBy(f[n - 1], n, target)
    BY <1>3
  <1>5. /\ f[1] = AdaptBy(f[0], 1, target) /\ f[2] = AdaptBy(f[1], 2, target) /\ f[3] = AdaptBy(f[2], 3, target)
        /\ f[4] = AdaptBy(f[3], 4, target) /\ f[5] = AdaptBy(f[4], 5, target) /\ f[6] = AdaptBy(f[5], 6, target)
    BY <1>4
  <1> QED
    BY <1>1, <1>4, <1>5

\* What is written.
Adapted(d, c, target) ==
  /\ DOMAIN d = DOMAIN c
  /\ \A path \in DOMAIN c :
       \/ Untouched(c, target, path) /\ d[path] = c[path]
       \/ \E n \in DOMAIN FieldMappings : LET f == FieldMappings[n] IN
            /\ f.target = target
            /\ \/ path = f.path /\ d[path] = "absent"
               \/ path = f.to /\ d[path] = IF c[f.path] = "absent" THEN c[path] ELSE c[f.path]

\* An adapted configuration is what the table asks: no entry spoils what another did.
LEMMA AdaptExact ==
  ASSUME NEW c \in Settings, NEW target
  PROVE  Adapted(AdaptForTarget(c, target), c, target)
  <1> DEFINE d == AdaptForTarget(c, target)
  <1>1. DOMAIN FieldMappings = {1, 2, 3, 4, 5, 6}
    BY DEF FieldMappings
  <1>2. /\ FieldMappings[1].target = "clash-rs" /\ FieldMappings[1].path = "tun.device" /\ FieldMappings[1].to = ""
        /\ FieldMappings[2].target = "clash-rs" /\ FieldMappings[2].path = "tun.stack" /\ FieldMappings[2].to = "tun.interface-name"
        /\ FieldMappings[3].target = "clash-rs" /\ FieldMappings[3].path = "experimental.ignore-certificate-errors" /\ FieldMappings[3].to = ""
        /\ FieldMappings[4].target = "clash-rs" /\ FieldMappings[4].path = "external-controller-tls" /\ FieldMappings[4].to = ""
        /\ FieldMappings[5].target = "clash-rs" /\ FieldMappings[5].path = "secret" /\ FieldMappings[5].to = ""
        /\ FieldMappings[6].target = "mihomo" /\ FieldMappings[6].path = "log.level" /\ FieldMappings[6].to = "log-level"
    BY DEF FieldMappings, For, NoField
  <1>3. \A n \in 1..6 : FieldMappings[n].path \in DOMAIN c \cup {""} /\ FieldMappings[n].to \in DOMAIN c \cup {""}
    <2>1. 1..6 = {1, 2, 3, 4, 5, 6}
      OBVIOUS
    <2> QED
      BY <1>1, <2>1, SettingsAssumption DEF NoField
  <1> DEFINE places == {"tun.device", "tun.stack", "tun.interface-name", "experimental.ignore-certificate-errors", "external-controller-tls",
                        "secret", "log.level", "log-level"}
  <1>7. places \subseteq DOMAIN c
    <2>1. 1 \in 1..6 /\ 2 \in 1..6 /\ 3 \in 1..6 /\ 4 \in 1..6 /\ 5 \in 1..6 /\ 6 \in 1..6
      OBVIOUS
    <2>2. /\ "tun.device" \in DOMAIN c /\ "tun.stack" \in DOMAIN c /\ "tun.interface-name" \in DOMAIN c
          /\ "experimental.ignore-certificate-errors" \in DOMAIN c /\ "external-controller-tls" \in DOMAIN c
          /\ "secret" \in DOMAIN c /\ "log.level" \in DOMAIN c /\ "log-level" \in DOMAIN c
      BY <1>2, <1>3, <2>1
    <2> QED
      BY <2>2
  <1> HIDE DEF d, places
  <1> DEFINE Right(path) ==
        \/ Untouched(c, target, path) /\ d[path] = c[path]
        \/ \E n \in DOMAIN FieldMappings :
             /\ FieldMappings[n].target = target
             /\ \/ path = FieldMappings[n].path /\ d[path] = "absent"
                \/ path = FieldMappings[n].to /\ d[path] = IF c[FieldMappings[n].path] = "absent" THEN c[path] ELSE c[FieldMappings[n].path]
  <1>8. ASSUME DOMAIN d = DOMAIN c, \A path \in DOMAIN c : Right(path)
        PROVE  Adapted(AdaptForTarget(c, target), c, target)
    BY <1>8 DEF Adapted, d
  <1>9. ASSUME NEW path, NEW n \in {1, 2, 3, 4, 5, 6}, FieldMappings[n].target = target, path = FieldMappings[n].path, d[path] = "absent"
        PROVE  Right(path)
    BY <1>1, <1>9
  <1>10. ASSUME NEW path, NEW n \in {1, 2, 3, 4, 5, 6}, FieldMappings[n].target = target, path = FieldMappings[n].to,
                d[path] = IF c[FieldMappings[n].path] = "absent" THEN c[path] ELSE c[FieldMappings[n].path]
        PROVE  Right(path)
    BY <1>1, <1>10
  <1>11. ASSUME NEW path, d[path] = c[path],
                \A n \in {1, 2, 3, 4, 5, 6} : FieldMappings[n].target = target => path # FieldMappings[n].path /\ path # FieldMappings[n].to
        PROVE  Right(path)
    BY <1>1, <1>11 DEF Untouched
  <1> HIDE DEF Right
  <1>4. CASE target = "clash-rs"
    <2> DEFINE c1 == RemoveField(c, "tun.device")
               c2 == RenameField(c1, "tun.stack", "tun.interface-name")
               c3 == RemoveField(c2, "experimental.ignore-certificate-errors")
               c4 == RemoveField(c3, "external-controller-tls")
    <2>1. d = RemoveField(c4, "secret")
      <3>1. /\ AdaptBy(c, 1, target) = c1 /\ AdaptBy(c1, 2, target) = c2 /\ AdaptBy(c2, 3, target) = c3
            /\ AdaptBy(c3, 4, target) = c4 /\ AdaptBy(c4, 5, target) = RemoveField(c4, "secret")
        <4> HIDE DEF c1, c2, c3, c4
        <4> QED
          BY <1>2, <1>4 DEF AdaptBy, AdaptField, NoField, c1, c2, c3, c4
      <3>2. \A x : AdaptBy(x, 6, target) = x
        BY <1>2, <1>4 DEF AdaptBy
      <3> HIDE DEF c1, c2, c3, c4
      <3> QED
        BY <3>1, <3>2, AdaptSteps DEF d
    <2>2. DOMAIN d = DOMAIN c /\ \A path \in DOMAIN c : d[path] =
            IF path \in {"tun.device", "experimental.ignore-certificate-errors", "external-controller-tls", "secret"} THEN "absent"
            ELSE IF path = "tun.stack" THEN "absent"
            ELSE IF path = "tun.interface-name" THEN (IF c["tun.stack"] = "absent" THEN c[path] ELSE c["tun.stack"])
            ELSE c[path]
      BY <1>7, <2>1 DEF places, RemoveField, RenameField
    <2>3. ASSUME NEW path \in DOMAIN c PROVE Right(path)
      <3>1. CASE path = "tun.device"
        BY <1>2, <1>4, <1>9, <2>2, <3>1
      <3>2. CASE path = "experimental.ignore-certificate-errors"
        BY <1>2, <1>4, <1>9, <2>2, <3>2
      <3>3. CASE path = "external-controller-tls"
        BY <1>2, <1>4, <1>9, <2>2, <3>3
      <3>4. CASE path = "secret"
        BY <1>2, <1>4, <1>9, <2>2, <3>4
      <3>5. CASE path = "tun.stack"
        BY <1>2, <1>4, <1>9, <2>2, <3>5
      <3>6. CASE path = "tun.interface-name"
        BY <1>2, <1>4, <1>10, <2>2, <3>6
      <3>7. CASE path \notin {"tun.device", "experimental.ignore-certificate-errors", "external-controller-tls", "secret",
                              "tun.stack", "tun.interface-name"}
        <4>1. d[path] = c[path]
          BY <2>2, <3>7
        <4>2. path # ""
          BY SettingsAssumption DEF NoField
        <4> QED
          BY <1>2, <1>4, <1>11, <3>7, <4>1, <4>2
      <3> QED
        BY <3>1, <3>2, <3>3, <3>4, <3>5, <3>6, <3>7
    <2> QED
      BY <1>8, <2>2, <2>3
  <1>5. CASE target = "mihomo"
    <2>1. d = RenameField(c, "log.level", "log-level")
      BY <1>2, <1>5, AdaptSteps DEF AdaptBy, AdaptField, NoField, d
    <2>2. DOMAIN d = DOMAIN c /\ \A path \in DOMAIN c : d[path] =
            IF path = "log.level" THEN "absent"
            ELSE IF path = "log-level" THEN (IF c["log.level"] = "absent" THEN c[path] ELSE c["log.level"])
            ELSE c[path]
      BY <1>7, <2>1 DEF places, RenameField
    <2>3. ASSUME NEW path \in DOMAIN c PROVE Right(path)
      <3>1. CASE path = "log.level"
        BY <1>2, <1>5, <1>9, <2>2, <3>1
      <3>2. CASE path = "log-level"
        BY <1>2, <1>5, <1>10, <2>2, <3>2
      <3>3. CASE path \notin {"log.level", "log-level"}
        BY <1>2, <1>5, <1>11, <2>2, <3>3
      <3> QED
        BY <3>1, <3>2, <3>3
    <2> QED
      BY <1>8, <2>2, <2>3
  <1>6. CASE target # "clash-rs" /\ target # "mihomo"
    <2>1. d = c
      BY <1>2, <1>6, AdaptSteps DEF AdaptBy, d
    <2>2. ASSUME NEW path \in DOMAIN c PROVE Right(path)
      BY <1>2, <1>6, <1>11, <2>1
    <2> QED
      BY <1>8, <2>1, <2>2
  <1> QED
    BY <1>4, <1>5, <1>6

\* The call goes write, tell; who was told was told of what was written.
ReloadInv ==
  /\ disk = Old \/ (wanted.settings \in Settings /\ disk = AdaptForTarget(wanted.settings, wanted.target))
  /\ phase = "idle" /\ answer = "none" => disk = Old /\ told = {}
  /\ phase = "write" => wanted.settings \in Settings /\ disk = Old /\ told = {} /\ answer = "none"
  /\ phase = "tell" => disk = AdaptForTarget(wanted.settings, wanted.target) /\ told = {} /\ answer = "none"
  /\ phase \in {"idle", "write", "tell"}
  /\ told # {} => disk = AdaptForTarget(wanted.settings, wanted.target)
  /\ running # Old => "kernel" \in told /\ running = disk
  /\ answer = "success" /\ wanted.how.by # "none" => told # {}
  /\ answer = "success" /\ "kernel" \in told => running = disk
  /\ answer \in {"none", "unsupported"} => told = {}
  /\ answer = "error" /\ wanted.how.by = "signal" => told = {}
  /\ told # {} /\ wanted.how.by = "signal" => wanted.how.pid \in Pids /\ ~Refused(wanted.how.pid)
  /\ phase \in {"write", "tell"} /\ wanted.how.by = "signal" => wanted.how.pid \in Pids
PrintedInv == printed = NoText \/ \E lines \in YamlTexts : printed = [of |-> lines, compact |-> CompactYaml(lines)]

\* One step per action.  Of the three ways to tell, those that succeed tell somebody or nobody was to be
\* told, and after an error over HTTP somebody may have been told.
LEMMA ReloadKeeps == ReloadInv /\ [ReloadNext]_reloadVars => ReloadInv'
  <1> SUFFICES ASSUME ReloadInv, [ReloadNext]_reloadVars PROVE ReloadInv'
    OBVIOUS
  <1>1. CallOrder[1] = "write" /\ Following("write") = "tell" /\ Following("tell") = "idle"
    BY DEF CallOrder, Following
  <1>2. ASSUME NEW c \in Settings, NEW target, NEW how \in Strategies, CallReload(c, target, how) PROVE ReloadInv'
    <2>1. how.by = "signal" => how.pid \in Pids
      BY DEF Strategies
    <2> QED
      BY <1>1, <1>2, <2>1 DEF CallReload, ReloadInv
  <1>3. ASSUME NEW lines, Compact(lines) PROVE ReloadInv'
    BY <1>3 DEF Compact, ReloadInv
  <1>4. CASE Write
    <2> DEFINE new == AdaptForTarget(wanted.settings, wanted.target)
    <2>1. /\ disk' = new /\ phase' = "tell" /\ told' = told /\ running' = running /\ answer' = answer /\ wanted' = wanted
          /\ phase = "write"
      BY <1>1, <1>4 DEF Write
    <2>2. wanted.settings \in Settings /\ told = {} /\ answer = "none" /\ running = Old
      BY <2>1 DEF ReloadInv
    <2>3. disk' = AdaptForTarget(wanted'.settings, wanted'.target)
      BY <2>1
    <2> HIDE DEF new
    <2> QED
      BY <2>1, <2>2, <2>3 DEF ReloadInv
  <1>5. CASE WriteFails
    BY <1>5 DEF WriteFails, ReloadInv
  <1>6. ASSUME phase = "tell", wanted' = wanted, disk' = disk, NotifyHotReload,
               \/ answer' \in {"error", "unsupported"} /\ told' = told /\ running' = running
               \/ /\ answer' = "error" /\ wanted.how.by # "signal"
                  /\ \E who : told' = told \cup {who} /\ running' \in {running, IF who = "kernel" THEN disk ELSE running}
               \/ answer' = "success" /\ wanted.how.by = "none" /\ told' = told /\ running' = running
               \/ /\ answer' = "success" /\ \E who : told' = told \cup {who} /\ running' = IF who = "kernel" THEN disk ELSE running
                  /\ wanted.how.by = "signal" => ~Refused(wanted.how.pid)
        PROVE  ReloadInv'
    <2>1. told = {} /\ running = Old /\ disk = AdaptForTarget(wanted.settings, wanted.target) /\ (disk = Old \/ wanted.settings \in Settings)
         /\ (wanted.how.by = "signal" => wanted.how.pid \in Pids)
      BY <1>6 DEF ReloadInv
    <2>2. phase' = "idle"
      BY <1>1, <1>6 DEF NotifyHotReload, ReloadBySignal, ReloadByHttp, TellNoOne, NotTold, Answered
    <2>3. /\ disk' = AdaptForTarget(wanted'.settings, wanted'.target)
          /\ disk' = Old \/ wanted'.settings \in Settings
      BY <1>6, <2>1
    <2>4. Refused(wanted'.how.pid) <=> Refused(wanted.how.pid)
      BY <1>6
    <2>5. /\ answer' # "none" /\ (answer' = "unsupported" => told' = {})
          /\ (answer' = "error" /\ wanted'.how.by = "signal" => told' = {})
          /\ (running' # Old => "kernel" \in told' /\ running' = disk')
          /\ (answer' = "success" /\ "kernel" \in told' => running' = disk')
          /\ (answer' = "success" /\ wanted'.how.by # "none" => told' # {})
          /\ (told' # {} /\ wanted'.how.by = "signal" => wanted'.how.pid \in Pids /\ ~Refused(wanted.how.pid))
      BY <1>6, <2>1
    <2> QED
      BY <2>2, <2>3, <2>4, <2>5 DEF ReloadInv
  <1>7. CASE ReloadBySignal
    BY <1>6, <1>7 DEF ReloadBySignal, NotTold, Answered, Tell, NotifyHotReload
  <1>8. CASE ReloadByHttp
    BY <1>6, <1>8 DEF ReloadByHttp, NotTold, Answered, Tell, NotifyHotReload
  <1>9. CASE TellNoOne
    BY <1>6, <1>9 DEF TellNoOne, Answered, NotifyHotReload
  <1>10. ASSUME NEW pid, Process(pid) PROVE ReloadInv'
    BY <1>10 DEF Process, ReloadInv
  <1>11. CASE UNCHANGED reloadVars
    BY <1>11 DEF reloadVars, ReloadInv
  <1> QED
    BY <1>2, <1>3, <1>4, <1>5, <1>7, <1>8, <1>9, <1>10, <1>11 DEF ReloadNext, NotifyHotReload

\* What is printed comes out of CompactYaml, whatever else happens.
LEMMA PrintedKeeps == PrintedInv /\ [ReloadNext]_reloadVars => PrintedInv'
  <1> SUFFICES ASSUME PrintedInv, [ReloadNext]_reloadVars PROVE PrintedInv'
    OBVIOUS
  <1>1. printed' = printed \/ \E lines \in YamlTexts : printed' = [of |-> lines, compact |-> CompactYaml(lines)]
    BY DEF ReloadNext, reloadVars, CallReload, Compact, Write, WriteFails, NotifyHotReload, ReloadBySignal, ReloadByHttp, TellNoOne, Process
  <1> QED
    BY <1>1 DEF PrintedInv, NoText

\* Of no lines, none is printed.
LEMMA NothingPrinted == ASSUME NEW S, S \subseteq {} PROVE Chosen(<<>>, S) = <<>>
  <1>1. S = {} /\ Cardinality(S) = 0
    BY FS_EmptySet
  <1>2. DOMAIN Chosen(<<>>, S) = 1..0
    BY <1>1 DEF Chosen
  <1>3. \A k \in 1..0 : FALSE
    OBVIOUS
  <1>4. Chosen(<<>>, S) = [k \in 1..0 |-> Chosen(<<>>, S)[k]]
    BY <1>2 DEF Chosen
  <1> QED
    BY <1>3, <1>4

\* With what the algorithms compute, the invariants say what is promised of the output.
LEMMA OutputHolds == ReloadInv /\ PrintedInv => OutputReaches
  <1> SUFFICES ASSUME ReloadInv, PrintedInv PROVE OutputReaches
    OBVIOUS
  <1>1. ReloadTold
    <2>1. told # {} /\ wanted.how.by = "signal" => wanted.how.pid \notin {0, 1} /\ wanted.how.pid <= MaxPid
      <3>1. ASSUME NEW pid \in Pids, ~Refused(pid) PROVE pid \notin {0, 1} /\ pid <= MaxPid
        BY <3>1, PidAssumption DEF Refused
      <3>2. told # {} /\ wanted.how.by = "signal" => wanted.how.pid \in Pids /\ ~Refused(wanted.how.pid)
        BY DEF ReloadInv
      <3> QED
        BY <3>1, <3>2
    <2> QED
      BY <2>1 DEF ReloadInv, ReloadTold
  <1>2. disk # Old => Adapted(disk, wanted.settings, wanted.target)
    BY AdaptExact DEF ReloadInv
  <1>3. ASSUME Plainly(printed.of)
        PROVE  printed.compact = Chosen(printed.of, {n \in DOMAIN printed.of :
                 ~printed.of[n].blank \/ (InScalar(printed.of, n) /\ \E k \in n..Len(printed.of) : ~printed.of[k].blank)})
    <2>1. CASE printed = NoText
      <3>1. printed.of = <<>> /\ printed.compact = <<>>
        BY <2>1 DEF NoText
      <3> QED
        BY <3>1, NothingPrinted
    <2>2. ASSUME NEW lines \in YamlTexts, printed = [of |-> lines, compact |-> CompactYaml(lines)]
          PROVE  printed.compact = Chosen(printed.of, {n \in DOMAIN printed.of :
                 ~printed.of[n].blank \/ (InScalar(printed.of, n) /\ \E k \in n..Len(printed.of) : ~printed.of[k].blank)})
      <3>1. printed.of = lines /\ printed.compact = CompactYaml(lines)
        BY <2>2
      <3>2. Plainly(lines)
        BY <1>3, <3>1
      <3>3. CompactYaml(lines) = Chosen(lines, {n \in DOMAIN lines :
              ~lines[n].blank \/ (InScalar(lines, n) /\ \E k \in n..Len(lines) : ~lines[k].blank)})
        BY <3>2, CompactExact
      <3> QED
        BY <3>1, <3>3
    <2> QED
      BY <2>1, <2>2 DEF PrintedInv
  <1>4. \E kept \in SUBSET DOMAIN printed.of :
          /\ \A n \in DOMAIN printed.of \ kept : printed.of[n].blank
          /\ printed.compact = Chosen(printed.of, kept)
    <2>1. CASE printed = NoText
      <3>1. printed.of = <<>> /\ printed.compact = <<>> /\ DOMAIN printed.of = {}
        BY <2>1 DEF NoText
      <3>2. Chosen(<<>>, {}) = <<>>
        BY NothingPrinted
      <3> QED
        BY <3>1, <3>2
    <2>2. ASSUME NEW lines \in YamlTexts, printed = [of |-> lines, compact |-> CompactYaml(lines)]
          PROVE  \E kept \in SUBSET DOMAIN printed.of :
                   /\ \A n \in DOMAIN printed.of \ kept : printed.of[n].blank
                   /\ printed.compact = Chosen(printed.of, kept)
      <3>1. printed.of = lines /\ printed.compact = CompactYaml(lines)
        BY <2>2
      <3> QED
        BY <3>1, CompactLosesBlanks
    <2> QED
      BY <2>1, <2>2 DEF PrintedInv
  <1> QED
    BY <1>1, <1>2, <1>3, <1>4 DEF OutputReaches, OutputMeaning, Adapted

\* Whatever the configuration, the processes and what becomes of them: what is on the disk is what the
\* target understands, the compact text has lost none but blank lines (and, in texts without the known
\* exceptions, exactly those outside of block scalars), nobody is told before the file is written, and a
\* success means that somebody was told.
THEOREM OutputsReach == ReloadSpec => []OutputReaches
  <1> DEFINE Inv == ReloadInv /\ PrintedInv
  <1>1. ReloadInit => Inv
    BY DEF ReloadInit, ReloadInv, PrintedInv, Old
  <1>2. Inv /\ [ReloadNext]_reloadVars => Inv'
    BY ReloadKeeps, PrintedKeeps
  <1>3. Inv => OutputReaches
    BY OutputHolds
  <1> QED
    BY <1>1, <1>2, <1>3, PTL DEF ReloadSpec

-----------------------------------------------------------------------------
(* The validator. *)

\* What is on the stack: groups that are not done, each the neighbour its predecessor went on with, and
\* whose earlier neighbours are done but for the one the search is in.
Frames == [node : GroupNames, next : Nat \ {0}]
OnTrail == {trail[k].node : k \in DOMAIN trail}
Went(k) == Neighbors(trail[k].node)[trail[k].next - 1]
Passed(k) == {Neighbors(trail[k].node)[i] : i \in 1..trail[k].next - 1}
TrailInv ==
  /\ trail \in Seq(Frames)
  /\ \A k \in DOMAIN trail : trail[k].node \notin visited /\ trail[k].next <= Len(Neighbors(trail[k].node)) + 1
  /\ \A j, k \in DOMAIN trail : trail[j].node = trail[k].node => j = k
  /\ \A k \in DOMAIN trail : k + 1 \in DOMAIN trail => trail[k].next > 1 /\ trail[k + 1].node = Went(k)
  /\ \A k \in DOMAIN trail : Passed(k) \subseteq visited \cup {trail[j].node : j \in {j \in DOMAIN trail : j = k + 1}}

\* No group that is done leads back to itself.
Grounded == \A S \in (SUBSET visited) \ {{}} : \E g \in S : Range(Neighbors(g)) \cap S = {}
VisitedInv ==
  /\ visited \subseteq GroupNames
  /\ \A g \in visited : Range(Neighbors(g)) \subseteq visited
  /\ Grounded
CyclesInv ==
  /\ \A c \in cycles : c \in Seq(GroupNames) \ {<<>>} /\ Genuine(c)
  /\ cycles = {} => GroupNames \subseteq turn \cup visited \cup OnTrail
ValidInv == final \in FinalConfigs /\ TrailInv /\ VisitedInv /\ CyclesInv

\* The graph of a configuration maps each group to groups.
LEMMA GraphType ==
  ASSUME final \in FinalConfigs
  PROVE  Graph \in [GroupNames -> Seq(GroupNames)]
  <1> SUFFICES ASSUME NEW name \in GroupNames PROVE Graph[name] \in Seq(GroupNames)
    BY DEF Graph
  <1> DEFINE i == CHOOSE i \in Entries(name) : \A j \in Entries(name) : j <= i
             g == final.groups[i]
  <1>1. final.groups \in Seq([name : STRING, proxies : Seq(STRING), use : Seq(STRING)])
    BY FinalAssumption
  <1>2. Len(final.groups) \in Nat /\ DOMAIN final.groups = 1..Len(final.groups)
    BY <1>1
  <1>3. Entries(name) \in SUBSET (1..Len(final.groups)) /\ Entries(name) # {}
    BY <1>2 DEF Entries, GroupNames, NamesOf, Range
  <1>4. i \in Entries(name)
    <2>1. \E k \in Entries(name) : \A j \in Entries(name) : j <= k
      BY <1>2, <1>3, GreatestNumber
    <2> QED
      BY <2>1
  <1> HIDE DEF i
  <1>5. g \in [name : STRING, proxies : Seq(STRING), use : Seq(STRING)]
    <2>1. ASSUME NEW R, NEW s \in Seq(R), NEW k \in 1..Len(s) PROVE s[k] \in R
      OBVIOUS
    <2>2. i \in 1..Len(final.groups)
      BY <1>3, <1>4
    <2> QED
      BY <1>1, <2>1, <2>2
  <1>6. g.proxies \in Seq(STRING) /\ g.use \in Seq(STRING)
    BY <1>5
  <1> DEFINE groups == {r \in GroupNames \ SPECIAL_PROXY_NAMES : ~IsFilterSelector(r)}
             ps == Retained(g.proxies, Range(g.proxies) \ groups)
             us == Retained(g.use, Range(g.use) \ GroupNames)
  <1>7. Graph[name] = ps \o us
    BY DEF Graph, Refs, i
  <1> HIDE DEF g
  <1>8. ps \in Seq(STRING) /\ Range(ps) = Range(g.proxies) \ (Range(g.proxies) \ groups)
    BY <1>6, RetainedProperties
  <1>9. us \in Seq(STRING) /\ Range(us) = Range(g.use) \ (Range(g.use) \ GroupNames)
    BY <1>6, RetainedProperties
  <1>10. Range(ps) \subseteq GroupNames /\ Range(us) \subseteq GroupNames
    BY <1>8, <1>9
  <1> HIDE DEF ps, us
  <1>11. ps \in Seq(GroupNames) /\ us \in Seq(GroupNames)
    BY <1>8, <1>9, <1>10 DEF Range
  <1> QED
    BY <1>7, <1>11

\* The search reads the configuration and does not write it.
LEMMA SameGraph ==
  ASSUME final' = final
  PROVE  GroupNames' = GroupNames /\ Graph' = Graph
  BY DEF GroupNames, Graph, Refs, Entries

\* What a step does to the stack, read off the code.
LEMMA NearestOpen ==
  ASSUME final \in FinalConfigs, TrailInv, trail # <<>>, Open # {}
  PROVE  /\ Nearest \in Open
         /\ \A i \in Open : Nearest <= i
         /\ Nearest \in Nat \ {0} /\ Nearest <= Len(Neighbors(Top.node))
  <1>1. Top \in Frames /\ Neighbors(Top.node) \in Seq(GroupNames)
    <2>1. trail \in Seq(Frames) /\ Len(trail) \in DOMAIN trail
      BY DEF TrailInv
    <2>2. Top \in Frames
      BY <2>1 DEF Top, Last
    <2> QED
      BY <2>2, GraphType DEF Frames, Neighbors
  <1>2. Top.next \in Nat \ {0} /\ Len(Neighbors(Top.node)) \in Nat
    BY <1>1 DEF Frames
  <1>3. Open \in SUBSET Nat /\ \A i \in Open : i # 0 /\ i <= Len(Neighbors(Top.node))
    BY <1>2 DEF Open
  <1>4. \E i \in Open : \A j \in Open : i <= j
    BY <1>3, LeastNumber
  <1>5. Nearest \in Open /\ \A i \in Open : Nearest <= i
    BY <1>4 DEF Nearest
  <1> QED
    BY <1>3, <1>5

\* Before the first start nothing is visited and nothing on the trail.
LEMMA ValidStarts == ValidInit => ValidInv
  BY DEF ValidInit, ValidInv, TrailInv, VisitedInv, Grounded, CyclesInv

\* A search from a group: skipped when it was visited, otherwise a trail of one.
LEMMA StartKeeps ==
  ASSUME ValidInv, NEW name \in turn, name \in GroupNames, StartDfs(name)
  PROVE  ValidInv'
  <1>1. final' = final /\ visited' = visited /\ cycles' = cycles /\ turn' = turn \ {name}
    BY DEF StartDfs
  <1>2. GroupNames' = GroupNames /\ Graph' = Graph
    BY <1>1, SameGraph
  <1>3. VisitedInv' /\ final' \in FinalConfigs
    BY <1>1, <1>2 DEF ValidInv, VisitedInv, Grounded, Neighbors
  <1>4. trail = <<>> /\ trail' = IF name \in visited THEN <<>> ELSE <<[node |-> name, next |-> 1]>>
    BY DEF StartDfs
  <1>5. CASE name \in visited
    <2>1. TrailInv'
      BY <1>4, <1>5 DEF TrailInv
    <2>2. CyclesInv'
      BY <1>1, <1>2, <1>4, <1>5 DEF ValidInv, CyclesInv, Genuine, Neighbors, OnTrail
    <2> QED
      BY <1>3, <2>1, <2>2 DEF ValidInv
  <1>6. CASE name \notin visited
    <2> DEFINE top == [node |-> name, next |-> 1]
    <2>1. trail' = <<top>> /\ top \in Frames' /\ top.node = name /\ top.next = 1
      BY <1>2, <1>4, <1>6 DEF Frames
    <2> HIDE DEF top
    <2>2. trail' \in Seq(Frames)' /\ DOMAIN trail' = {1} /\ trail'[1] = top
      BY <2>1
    <2>3. Len(Neighbors(name)) \in Nat
      BY GraphType DEF ValidInv, Neighbors
    <2>4. TrailInv'
      BY <1>1, <1>2, <1>6, <2>1, <2>2, <2>3 DEF TrailInv, Passed, Neighbors
    <2>5. OnTrail' = {name} /\ OnTrail = {}
      BY <1>4, <2>1, <2>2 DEF OnTrail
    <2>6. CyclesInv'
      BY <1>1, <1>2, <2>5 DEF ValidInv, CyclesInv, Genuine, Neighbors
    <2> QED
      BY <1>3, <2>4, <2>6 DEF ValidInv
  <1> QED
    BY <1>5, <1>6

\* The part of the stack from the group the search came back to is a cycle.
LEMMA FoundKeeps ==
  ASSUME ValidInv, FoundCycle
  PROVE  ValidInv'
  <1> DEFINE n == Len(trail)
             again == Neighbors(Top.node)[Nearest]
             from == {k \in DOMAIN trail : trail[k].node = again}
             first == CHOOSE k \in from : TRUE
             since == SubSeq(trail, first, n)
             c == [k \in DOMAIN since |-> since[k].node]
  <1>1. /\ final' = final /\ visited' = visited /\ turn' = turn
        /\ trail # <<>> /\ Open # {} /\ OnPath(again) /\ trail' = <<>>
    BY DEF FoundCycle
  <1>2. GroupNames' = GroupNames /\ Graph' = Graph
    BY <1>1, SameGraph
  <1>3. final \in FinalConfigs /\ TrailInv /\ trail \in Seq(Frames)
    BY DEF ValidInv, TrailInv
  <1>4. n \in Nat /\ n # 0 /\ DOMAIN trail = 1..n /\ Top = trail[n] /\ Top \in Frames
    BY <1>1, <1>3 DEF Top, Last
  <1>5. Nearest \in Open /\ Nearest \in Nat \ {0} /\ Nearest <= Len(Neighbors(Top.node))
    BY <1>1, <1>3, NearestOpen
  <1>6. Neighbors(Top.node) \in Seq(GroupNames)
    BY <1>3, <1>4, GraphType DEF Neighbors, Frames
  <1>7. again \in Range(Neighbors(Top.node))
    BY <1>5, <1>6 DEF Range
  <1>8. from # {} /\ first \in from
    BY <1>1 DEF OnPath
  <1>9. first \in 1..n /\ trail[first].node = again
    BY <1>4, <1>8
  <1>10. cycles' = cycles \cup {c}
    BY <1>8 DEF FoundCycle
  <1> HIDE DEF first, from, n
  <1>11. /\ DOMAIN since = 1..(n - first + 1) /\ since \in Seq(Frames)
         /\ \A k \in 1..(n - first + 1) : since[k] = trail[first + k - 1] /\ since[k] \in Frames
    <2>1. \A k \in first..n : trail[k] \in Frames
      BY <1>3, <1>4, <1>9
    <2>2. /\ since \in Seq(Frames) /\ Len(since) = n - first + 1
          /\ \A k \in 1..(n - first + 1) : since[k] = trail[first + k - 1]
      BY <1>3, <1>4, <1>9, <2>1, SubSeqProperties
    <2>3. \A k \in 1..(n - first + 1) : first + k - 1 \in first..n
      BY <1>4, <1>9
    <2> QED
      BY <2>1, <2>2, <2>3
  <1> HIDE DEF since
  <1>12. c \in Seq(GroupNames) /\ Len(c) = n - first + 1 /\ Len(c) # 0 /\ c # <<>>
    <2>1. \A k \in 1..(n - first + 1) : since[k].node \in GroupNames
      <3>1. ASSUME NEW k \in 1..(n - first + 1) PROVE since[k] \in Frames
        BY <1>11
      <3> QED
        BY <3>1 DEF Frames
    <2>2. n - first + 1 \in Nat /\ n - first + 1 # 0
      BY <1>4, <1>9
    <2>3. c \in [1..(n - first + 1) -> GroupNames]
      BY <1>11, <2>1
    <2> HIDE DEF c
    <2> QED
      BY <2>2, <2>3
  <1>13. Genuine(c)
    <2> SUFFICES ASSUME NEW k \in 1..(n - first + 1)
                 PROVE  c[IF k = n - first + 1 THEN 1 ELSE k + 1] \in Range(Neighbors(c[k]))
      BY <1>12 DEF Genuine
    <2>1. c[k] = trail[first + k - 1].node /\ c[1] = trail[first].node
      BY <1>4, <1>9, <1>11
    <2>2. CASE k = n - first + 1
      BY <1>4, <1>7, <1>9, <2>1, <2>2
    <2>3. CASE k # n - first + 1
      <3> DEFINE j == first + k - 1
      <3>1. j \in DOMAIN trail /\ j + 1 \in DOMAIN trail /\ k + 1 \in 1..(n - first + 1) /\ first + (k + 1) - 1 = j + 1
        BY <1>4, <1>9, <2>3, SMTT(30)
      <3>2. c[k + 1] = trail[j + 1].node
        BY <1>11, <3>1
      <3> HIDE DEF j
      <3>3. /\ trail[j].next > 1 /\ trail[j + 1].node = Went(j) /\ trail[j] \in Frames
            /\ trail[j].next <= Len(Neighbors(trail[j].node)) + 1
        BY <1>3, <3>1 DEF TrailInv
      <3>4. Neighbors(trail[j].node) \in Seq(GroupNames) /\ trail[j].next \in Nat
        BY <1>3, <3>3, GraphType DEF Neighbors, Frames
      <3>5. trail[j].next - 1 \in 1..Len(Neighbors(trail[j].node))
        BY <3>3, <3>4
      <3>6. Went(j) \in Range(Neighbors(trail[j].node))
        BY <3>4, <3>5 DEF Went, Range
      <3> QED
        BY <2>1, <2>3, <3>2, <3>3, <3>6 DEF j
    <2> QED
      BY <2>2, <2>3
  <1> HIDE DEF c
  <1>14. CyclesInv'
    BY <1>2, <1>10, <1>12, <1>13 DEF ValidInv, CyclesInv, Genuine, Neighbors
  <1>15. VisitedInv'
    BY <1>1, <1>2 DEF ValidInv, VisitedInv, Grounded, Neighbors
  <1>16. TrailInv'
    BY <1>1 DEF TrailInv
  <1> QED
    BY <1>1, <1>3, <1>14, <1>15, <1>16 DEF ValidInv

\* A group all of whose references were followed: they are visited, so it may be.
LEMMA BacktrackKeeps ==
  ASSUME ValidInv, Backtrack
  PROVE  ValidInv'
  <1> DEFINE n == Len(trail)
             top == Top.node
  <1>1. /\ final' = final /\ cycles' = cycles /\ turn' = turn /\ visited' = visited \cup {top}
        /\ trail # <<>> /\ Open = {} /\ trail' = Front(trail)
    BY DEF Backtrack
  <1>2. GroupNames' = GroupNames /\ Graph' = Graph /\ Frames' = Frames
    BY <1>1, SameGraph DEF Frames
  <1>3. final \in FinalConfigs /\ TrailInv /\ trail \in Seq(Frames) /\ VisitedInv /\ CyclesInv
    BY DEF ValidInv, TrailInv
  <1>4. n \in Nat /\ n # 0 /\ n \in 1..n /\ DOMAIN trail = 1..n /\ Top = trail[n] /\ trail[n] \in Frames /\ top \in GroupNames
    <2>1. n \in Nat /\ n # 0 /\ n \in 1..n /\ DOMAIN trail = 1..n /\ Top = trail[n]
      BY <1>1, <1>3 DEF Top, Last
    <2>2. trail[n] \in Frames
      BY <1>3, <2>1
    <2> QED
      BY <2>1, <2>2 DEF Frames
  <1>5. Neighbors(top) \in Seq(GroupNames) /\ DOMAIN Neighbors(top) = 1..Len(Neighbors(top)) /\ Len(Neighbors(top)) \in Nat
    BY <1>3, <1>4, GraphType DEF Neighbors
  <1>6. trail' \in Seq(Frames) /\ DOMAIN trail' = 1..n - 1 /\ \A k \in 1..n - 1 : trail'[k] = trail[k]
    <2>1. trail' = [k \in 1..n - 1 |-> trail[k]] /\ n - 1 \in Nat
      BY <1>1, <1>3, <1>4 DEF Front
    <2>2. \A k \in 1..n - 1 : trail[k] \in Frames
      BY <1>3, <1>4
    <2> HIDE DEF n
    <2> QED
      BY <2>1, <2>2
  <1> HIDE DEF n, top
  <1>7. top \notin visited /\ trail[n].next \in Nat \ {0} /\ Passed(n) \subseteq visited
    <2>1. top \notin visited /\ Passed(n) \subseteq visited \cup {trail[j].node : j \in {j \in DOMAIN trail : j = n + 1}}
      BY <1>3, <1>4 DEF TrailInv, top
    <2>2. {j \in DOMAIN trail : j = n + 1} = {}
      BY <1>4
    <2> QED
      BY <1>4, <2>1, <2>2 DEF Frames
  <1>8. Range(Neighbors(top)) \subseteq visited
    <2> SUFFICES ASSUME NEW i \in 1..Len(Neighbors(top)) PROVE Neighbors(top)[i] \in visited
      BY <1>5 DEF Range
    <2>1. CASE i >= trail[n].next
      BY <1>1, <1>4, <1>5, <1>7, <2>1 DEF Open, top
    <2>2. CASE ~(i >= trail[n].next)
      <3>1. i \in 1..trail[n].next - 1
        BY <1>5, <1>7, <2>2
      <3>2. Neighbors(top)[i] \in Passed(n)
        BY <1>4, <3>1 DEF Passed, top
      <3> QED
        BY <1>7, <3>2
    <2> QED
      BY <2>1, <2>2
  <1>9. VisitedInv'
    <2>1. visited' \subseteq GroupNames /\ \A g \in visited' : Range(Neighbors(g)) \subseteq visited
      BY <1>1, <1>3, <1>4, <1>8 DEF VisitedInv
    <2>2. ASSUME NEW S \in (SUBSET visited') \ {{}} PROVE \E g \in S : Range(Neighbors(g)) \cap S = {}
      <3>1. CASE S \ {top} = {}
        BY <1>1, <1>7, <1>8, <2>1, <3>1
      <3>2. CASE S \ {top} # {}
        <4>1. S \ {top} \in (SUBSET visited) \ {{}}
          BY <1>1, <3>2
        <4>2. PICK g \in S \ {top} : Range(Neighbors(g)) \cap (S \ {top}) = {}
          BY <1>3, <4>1 DEF VisitedInv, Grounded
        <4>3. top \notin Range(Neighbors(g))
          BY <1>7, <2>1
        <4> QED
          BY <4>2, <4>3
      <3> QED
        BY <3>1, <3>2
    <2> QED
      BY <1>1, <1>2, <2>1, <2>2 DEF VisitedInv, Grounded, Neighbors
  <1>10. OnTrail \subseteq OnTrail' \cup {top}
    <2> SUFFICES ASSUME NEW k \in 1..n PROVE trail[k].node \in OnTrail' \cup {top}
      BY <1>4 DEF OnTrail
    <2>1. CASE k = n
      BY <1>4, <2>1 DEF top
    <2>2. CASE k # n
      BY <1>4, <1>6, <2>2 DEF OnTrail
    <2> QED
      BY <2>1, <2>2
  <1>11. CyclesInv'
    BY <1>1, <1>2, <1>3, <1>10 DEF CyclesInv, Genuine, Neighbors
  <1>12. TrailInv'
    <2>1. \A k \in 1..n - 1 : k \in 1..n /\ k # n
      BY <1>4
    <2>2. ASSUME NEW k \in 1..n - 1
          PROVE  trail'[k].node \notin visited' /\ trail'[k].next <= Len(Neighbors(trail'[k].node)) + 1
      BY <1>1, <1>3, <1>4, <1>6, <2>1 DEF TrailInv, top
    <2>3. \A j, k \in 1..n - 1 : trail'[j].node = trail'[k].node => j = k
      BY <1>3, <1>4, <1>6, <2>1 DEF TrailInv
    <2>4. ASSUME NEW k \in 1..n - 1, k + 1 \in 1..n - 1
          PROVE  trail'[k].next > 1 /\ trail'[k + 1].node = Neighbors(trail'[k].node)[trail'[k].next - 1]
      BY <1>3, <1>4, <1>6, <2>1, <2>4 DEF TrailInv, Went
    <2>5. ASSUME NEW k \in 1..n - 1, NEW i \in 1..trail'[k].next - 1
          PROVE  Neighbors(trail'[k].node)[i] \in visited' \cup {trail'[j].node : j \in {j \in 1..n - 1 : j = k + 1}}
      <3>1. trail'[k] = trail[k] /\ k \in 1..n
        BY <1>6, <2>1
      <3>2. Neighbors(trail[k].node)[i] \in visited \cup {trail[j].node : j \in {j \in 1..n : j = k + 1}}
        BY <1>3, <1>4, <3>1, SMTT(30) DEF TrailInv, Passed
      <3>3. CASE k + 1 = n
        BY <1>1, <1>4, <3>1, <3>2, <3>3 DEF top
      <3>4. CASE k + 1 # n
        <4>1. ASSUME NEW j \in 1..n, j = k + 1 PROVE j \in 1..n - 1 /\ trail'[j] = trail[j]
          BY <1>4, <1>6, <3>4, <4>1
        <4> QED
          BY <1>1, <3>1, <3>2, <4>1
      <3> QED
        BY <3>3, <3>4
    <2>6. /\ \A k \in DOMAIN trail' : trail'[k].node \notin visited' /\ trail'[k].next <= Len(Neighbors(trail'[k].node)) + 1
          /\ \A k \in DOMAIN trail' : k + 1 \in DOMAIN trail' =>
               trail'[k].next > 1 /\ trail'[k + 1].node = Neighbors(trail'[k].node)[trail'[k].next - 1]
          /\ \A k \in DOMAIN trail' : \A i \in 1..trail'[k].next - 1 :
               Neighbors(trail'[k].node)[i] \in visited' \cup {trail'[j].node : j \in {j \in DOMAIN trail' : j = k + 1}}
      BY <1>6, <2>2, <2>4, <2>5
    <2> QED
      BY <1>2, <1>6, <2>3, <2>6 DEF TrailInv, Passed, Went, Neighbors
  <1> QED
    BY <1>1, <1>3, <1>9, <1>11, <1>12 DEF ValidInv

\* Into a reference that was neither visited nor is on the trail.
LEMMA DescendKeeps ==
  ASSUME ValidInv, Descend
  PROVE  ValidInv'
  <1> DEFINE n == Len(trail)
             top == Top.node
             child == Neighbors(top)[Nearest]
             last == [node |-> top, next |-> Nearest + 1]
             new == [node |-> child, next |-> 1]
  <1>1. /\ final' = final /\ cycles' = cycles /\ turn' = turn /\ visited' = visited
        /\ trail # <<>> /\ Open # {} /\ ~OnPath(child) /\ trail' = Append([trail EXCEPT ![n] = last], new)
    BY DEF Descend
  <1>2. GroupNames' = GroupNames /\ Graph' = Graph /\ Frames' = Frames
    BY <1>1, SameGraph DEF Frames
  <1>3. final \in FinalConfigs /\ TrailInv /\ trail \in Seq(Frames) /\ VisitedInv /\ CyclesInv
    BY DEF ValidInv, TrailInv
  <1>4. n \in Nat /\ n # 0 /\ n \in 1..n /\ DOMAIN trail = 1..n /\ Top = trail[n] /\ trail[n] \in Frames /\ top \in GroupNames
    <2>1. n \in Nat /\ n # 0 /\ n \in 1..n /\ DOMAIN trail = 1..n /\ Top = trail[n]
      BY <1>1, <1>3 DEF Top, Last
    <2>2. trail[n] \in Frames
      BY <1>3, <2>1
    <2> QED
      BY <2>1, <2>2 DEF Frames
  <1>5. Neighbors(top) \in Seq(GroupNames) /\ DOMAIN Neighbors(top) = 1..Len(Neighbors(top)) /\ Len(Neighbors(top)) \in Nat
    BY <1>3, <1>4, GraphType DEF Neighbors
  <1>6. /\ Nearest \in Open /\ Nearest \in Nat \ {0} /\ Nearest <= Len(Neighbors(top))
        /\ \A i \in Open : Nearest <= i
    BY <1>1, <1>3, NearestOpen DEF top
  <1>7. child \in GroupNames /\ child \notin visited /\ \A k \in 1..n : trail[k].node # child
    <2>1. child \in GroupNames
      BY <1>5, <1>6
    <2>2. \A k \in 1..n : trail[k].node # child
      BY <1>1, <1>4 DEF OnPath
    <2>3. child \notin visited
      BY <1>1, <1>6 DEF Open, top
    <2> QED
      BY <2>1, <2>2, <2>3
  <1>8. last \in Frames /\ last.node = top /\ last.next = Nearest + 1 /\ new \in Frames /\ new.node = child /\ new.next = 1
    BY <1>4, <1>6, <1>7 DEF Frames
  <1> HIDE DEF n, top, child, last, new
  <1>9. /\ trail' \in Seq(Frames) /\ DOMAIN trail' = 1..n + 1
        /\ \A k \in 1..n + 1 : trail'[k] = IF k = n + 1 THEN new ELSE IF k = n THEN last ELSE trail[k]
    <2> DEFINE t == [trail EXCEPT ![n] = last]
    <2>1. t \in Seq(Frames) /\ Len(t) = n /\ \A k \in 1..n : t[k] = IF k = n THEN last ELSE trail[k]
      BY <1>3, <1>4, <1>8 DEF n
    <2>2. trail' = Append(t, new)
      BY <1>1
    <2> HIDE DEF t
    <2> QED
      BY <1>4, <1>8, <2>1, <2>2
  <1>10. trail[n].node = top /\ trail[n].next \in Nat \ {0} /\ top \notin visited /\ Passed(n) \subseteq visited
    <2>1. top \notin visited /\ Passed(n) \subseteq visited \cup {trail[j].node : j \in {j \in DOMAIN trail : j = n + 1}}
      BY <1>3, <1>4 DEF TrailInv, top
    <2>2. {j \in DOMAIN trail : j = n + 1} = {}
      BY <1>4
    <2> QED
      BY <1>4, <2>1, <2>2 DEF Frames, top
  <1>11. \A k \in 1..n + 1 : trail'[k].node = IF k = n + 1 THEN child ELSE trail[k].node
    BY <1>8, <1>9, <1>10
  <1>12. VisitedInv'
    BY <1>1, <1>2, <1>3 DEF VisitedInv, Grounded, Neighbors
  <1>13. OnTrail \subseteq OnTrail'
    BY <1>4, <1>9, <1>11 DEF OnTrail
  <1>14. CyclesInv'
    BY <1>1, <1>2, <1>3, <1>13 DEF CyclesInv, Genuine, Neighbors
  <1>15. TrailInv'
    <2>1. ASSUME NEW k \in 1..n + 1, k # n, k # n + 1 PROVE k \in 1..n /\ k + 1 \in 1..n /\ trail'[k] = trail[k]
      BY <1>4, <1>9, <2>1
    <2>2. ASSUME NEW k \in 1..n + 1
          PROVE  trail'[k].node \notin visited' /\ trail'[k].next <= Len(Neighbors(trail'[k].node)) + 1
      <3>1. CASE k = n + 1
        <4>1. Len(Neighbors(child)) \in Nat
          BY <1>3, <1>7, GraphType DEF Neighbors
        <4> QED
          BY <1>1, <1>7, <1>8, <1>9, <3>1, <4>1
      <3>2. CASE k = n
        BY <1>1, <1>4, <1>5, <1>6, <1>8, <1>9, <1>10, <3>2
      <3>3. CASE k # n /\ k # n + 1
        BY <1>1, <1>3, <1>4, <2>1, <3>3 DEF TrailInv
      <3> QED
        BY <3>1, <3>2, <3>3
    <2>3. ASSUME NEW j \in 1..n + 1, NEW k \in 1..n + 1, trail'[j].node = trail'[k].node PROVE j = k
      <3>1. \A i \in 1..n + 1 : i # n + 1 => i \in 1..n
        BY <1>4
      <3>2. \A i, l \in 1..n : trail[i].node = trail[l].node => i = l
        BY <1>3, <1>4 DEF TrailInv
      <3> QED
        BY <1>7, <1>11, <2>3, <3>1, <3>2
    <2>4. ASSUME NEW k \in 1..n + 1, k + 1 \in 1..n + 1
          PROVE  trail'[k].next > 1 /\ trail'[k + 1].node = Neighbors(trail'[k].node)[trail'[k].next - 1]
      <3>1. k # n + 1
        BY <1>4, <2>4
      <3>2. CASE k = n
        <4>1. trail'[k] = last /\ trail'[k + 1] = new /\ Nearest + 1 > 1 /\ Nearest + 1 - 1 = Nearest
          BY <1>4, <1>6, <1>9, <3>2
        <4>2. trail'[k].next = Nearest + 1 /\ trail'[k].node = top
          BY <1>8, <4>1
        <4>3. trail'[k + 1].node = child
          BY <1>8, <4>1
        <4>4. trail'[k].next > 1 /\ trail'[k].next - 1 = Nearest
          BY <1>6, <4>1, <4>2
        <4> QED
          BY <4>2, <4>3, <4>4 DEF child
      <3>3. CASE k # n
        <4>1. k \in 1..n /\ k + 1 \in 1..n /\ trail'[k] = trail[k] /\ trail'[k + 1].node = trail[k + 1].node
          BY <1>4, <1>11, <2>1, <3>1, <3>3
        <4> QED
          BY <1>3, <1>4, <4>1 DEF TrailInv, Went
      <3> QED
        BY <3>2, <3>3
    <2>5. ASSUME NEW k \in 1..n + 1, NEW i \in 1..trail'[k].next - 1
          PROVE  Neighbors(trail'[k].node)[i] \in visited' \cup {trail'[j].node : j \in {j \in 1..n + 1 : j = k + 1}}
      <3>1. CASE k = n + 1
        BY <1>8, <1>9, <3>1
      <3>2. CASE k = n
        <4>1. trail'[k].node = top /\ trail'[k].next = Nearest + 1 /\ i \in 1..Nearest /\ n + 1 \in 1..n + 1 /\ trail'[n + 1].node = child
          BY <1>4, <1>6, <1>8, <1>9, <3>2
        <4>2. CASE i = Nearest
          BY <3>2, <4>1, <4>2 DEF child
        <4>3. CASE i # Nearest /\ i < trail[n].next
          <5>1. i \in 1..trail[n].next - 1
            BY <1>6, <1>10, <4>1, <4>3
          <5>2. Neighbors(top)[i] \in Passed(n)
            BY <1>10, <5>1 DEF Passed
          <5> QED
            BY <1>1, <1>10, <4>1, <5>2
        <4>4. CASE i # Nearest /\ ~(i < trail[n].next)
          <5>1. i \in trail[n].next..Len(Neighbors(top)) /\ ~(Nearest <= i)
            BY <1>5, <1>6, <1>10, <4>1, <4>4
          <5>2. i \notin Open
            BY <1>6, <5>1
          <5>3. Neighbors(top)[i] \in visited
            BY <1>4, <5>1, <5>2 DEF Open, top
          <5> QED
            BY <1>1, <4>1, <5>3
        <4> QED
          BY <4>2, <4>3, <4>4
      <3>3. CASE k # n /\ k # n + 1
        <4>1. k \in 1..n /\ k + 1 \in 1..n /\ trail'[k] = trail[k] /\ k + 1 \in 1..n + 1 /\ trail'[k + 1].node = trail[k + 1].node
          BY <1>4, <1>11, <2>1, <3>3
        <4>2. Neighbors(trail[k].node)[i] \in visited \cup {trail[j].node : j \in {j \in 1..n : j = k + 1}}
          BY <1>3, <1>4, <4>1, SMTT(30) DEF TrailInv, Passed
        <4> QED
          BY <1>1, <4>1, <4>2
      <3> QED
        BY <3>1, <3>2, <3>3
    <2>6. /\ \A k \in DOMAIN trail' : trail'[k].node \notin visited' /\ trail'[k].next <= Len(Neighbors(trail'[k].node)) + 1
          /\ \A k \in DOMAIN trail' : k + 1 \in DOMAIN trail' =>
               trail'[k].next > 1 /\ trail'[k + 1].node = Neighbors(trail'[k].node)[trail'[k].next - 1]
          /\ \A k \in DOMAIN trail' : \A i \in 1..trail'[k].next - 1 :
               Neighbors(trail'[k].node)[i] \in visited' \cup {trail'[j].node : j \in {j \in DOMAIN trail' : j = k + 1}}
      BY <1>9, <2>2, <2>4, <2>5
    <2>7. \A j, k \in DOMAIN trail' : trail'[j].node = trail'[k].node => j = k
      BY <1>9, <2>3
    <2> QED
      BY <1>2, <1>9, <2>6, <2>7 DEF TrailInv, Passed, Went, Neighbors
  <1> QED
    BY <1>1, <1>3, <1>12, <1>14, <1>15 DEF ValidInv

\* One step per action.
LEMMA ValidKeeps == ValidInv /\ turn \subseteq GroupNames /\ [ValidStep]_validVars => ValidInv' /\ (turn \subseteq GroupNames)'
  <1> SUFFICES ASSUME ValidInv, turn \subseteq GroupNames, [ValidStep]_validVars
               PROVE  ValidInv' /\ (turn \subseteq GroupNames)'
    OBVIOUS
  <1>1. ASSUME NEW name \in turn, StartDfs(name) PROVE ValidInv' /\ turn' \subseteq turn /\ final' = final
    BY <1>1, StartKeeps DEF StartDfs
  <1>2. CASE FoundCycle
    BY <1>2, FoundKeeps, SameGraph DEF FoundCycle
  <1>3. CASE Descend
    BY <1>3, DescendKeeps, SameGraph DEF Descend
  <1>4. CASE Backtrack
    BY <1>4, BacktrackKeeps, SameGraph DEF Backtrack
  <1>5. CASE UNCHANGED validVars
    <2>1. GroupNames' = GroupNames /\ Graph' = Graph /\ Frames' = Frames
      BY <1>5, SameGraph DEF validVars, Frames
    <2>2. final' = final /\ turn' = turn /\ trail' = trail /\ visited' = visited /\ cycles' = cycles
      BY <1>5 DEF validVars
    <2>3. TrailInv'
      BY <2>1, <2>2 DEF ValidInv, TrailInv, Went, Passed, Neighbors
    <2>4. VisitedInv'
      BY <2>1, <2>2 DEF ValidInv, VisitedInv, Grounded, Neighbors
    <2>5. CyclesInv'
      BY <2>1, <2>2 DEF ValidInv, CyclesInv, Genuine, Neighbors, OnTrail
    <2> QED
      BY <2>1, <2>2, <2>3, <2>4, <2>5 DEF ValidInv
  <1> QED
    BY <1>1, <1>2, <1>3, <1>4, <1>5, SameGraph DEF ValidStep

\* The verdict is that of the checks: their errors are those of the names, the references and the fields.
LEMMA Verdict ==
  Validate.is_valid <=>
    /\ Repeated(final.proxies) = {} /\ Repeated(final.groups) = {}
    /\ cycles = {} /\ \A g \in Range(final.groups) : g.name \notin {Missing, NotText} /\ UnknownRefs(g) = {}
    /\ \A g \in Range(final.groups) : \A r \in Range(g.use) \ (GroupNames \cup {NotText}) : IsFilterSelector(r)
    /\ \A p \in Range(final.proxies) : p.name \notin {Missing, NotText} /\ p.type # Missing /\ p.server # Missing
  <1>1. ASSUME NEW e, NEW w PROVE Result(e, w).is_valid <=> e = {}
    BY DEF Result
  <1>2. ASSUME NEW r, NEW s PROVE Merge(r, s).is_valid <=> r.is_valid /\ s.is_valid
    BY DEF Merge
  <1>3. ASSUME NEW path, NEW names PROVE ErrorsAt(path, names) = {} <=> names = {}
    BY DEF ErrorsAt
  <1>4. CheckProxyNamesUnique.is_valid <=> Repeated(final.proxies) = {}
    BY <1>1, <1>3 DEF CheckProxyNamesUnique
  <1>5. CheckProxyGroupNamesUnique.is_valid <=> Repeated(final.groups) = {}
    BY <1>1, <1>3 DEF CheckProxyGroupNamesUnique
  <1>6. CheckProxyGroupReferences.is_valid <=>
          cycles = {} /\ \A g \in Range(final.groups) : g.name \notin {Missing, NotText} /\ UnknownRefs(g) = {}
    <2> DEFINE wrong(g) == IF g.name \in {Missing, NotText} THEN {<<"proxy-groups", Missing>>} ELSE ErrorsAt(g.name, UnknownRefs(g))
               E == {<<"cycle", c>> : c \in cycles} \cup UNION {wrong(g) : g \in Range(final.groups)}
    <2>1. CheckProxyGroupReferences.is_valid <=> E = {}
      BY <1>1 DEF CheckProxyGroupReferences
    <2>2. \A g \in Range(final.groups) : wrong(g) = {} <=> g.name \notin {Missing, NotText} /\ UnknownRefs(g) = {}
      BY <1>3
    <2> HIDE DEF wrong
    <2>3. E = {} <=> cycles = {} /\ \A g \in Range(final.groups) : wrong(g) = {}
      OBVIOUS
    <2> QED
      BY <2>1, <2>2, <2>3
  <1>7. CheckProxyGroupUseReferences.is_valid <=>
          \A g \in Range(final.groups) : \A r \in Range(g.use) \ (GroupNames \cup {NotText}) : IsFilterSelector(r)
    <2> DEFINE unknown(g) == {r \in Range(g.use) \ (GroupNames \cup {NotText}) : ~IsFilterSelector(r)}
               E == UNION {ErrorsAt("use", unknown(g)) : g \in Range(final.groups)}
    <2>1. CheckProxyGroupUseReferences.is_valid <=> E = {}
      BY <1>1 DEF CheckProxyGroupUseReferences
    <2>2. E = {} <=> \A g \in Range(final.groups) : ErrorsAt("use", unknown(g)) = {}
      <3> HIDE DEF unknown
      <3> QED
        OBVIOUS
    <2>3. \A g \in Range(final.groups) : ErrorsAt("use", unknown(g)) = {} <=> unknown(g) = {}
      BY <1>3
    <2> HIDE DEF E
    <2> QED
      BY <2>1, <2>2, <2>3
  <1>8. CheckProxyRequiredFields.is_valid <=>
          \A p \in Range(final.proxies) : p.name \notin {Missing, NotText} /\ p.type # Missing /\ p.server # Missing
    <2> DEFINE lacks(p) == {<<"proxies", f>> : f \in {f \in {"name", "type", "server"} : p[f] = Missing}}
                             \cup (IF p.name = NotText THEN {<<"proxies.name", NotText>>} ELSE {})
               E == UNION {lacks(p) : p \in Range(final.proxies)}
    <2>1. CheckProxyRequiredFields.is_valid <=> E = {}
      BY <1>1 DEF CheckProxyRequiredFields
    <2>2. \A p \in Range(final.proxies) :
            lacks(p) = {} <=> p.name \notin {Missing, NotText} /\ p.type # Missing /\ p.server # Missing
      OBVIOUS
    <2> HIDE DEF lacks
    <2>3. E = {} <=> \A p \in Range(final.proxies) : lacks(p) = {}
      OBVIOUS
    <2> QED
      BY <2>1, <2>2, <2>3
  <1>9. CheckDnsConfig.is_valid /\ CheckSmartSuggestions.is_valid
    BY <1>1 DEF CheckDnsConfig, CheckSmartSuggestions
  <1> QED
    BY <1>2, <1>4, <1>5, <1>6, <1>7, <1>8, <1>9 DEF Validate

\* A cycle that was reported is one of the graph; without one, every group is done and leads to none.
LEMMA CyclesExact ==
  ASSUME ValidInv, turn = {}, trail = <<>>
  PROVE  cycles # {} <=> HasCycle
  <1>1. CyclesInv /\ VisitedInv /\ Graph \in [GroupNames -> Seq(GroupNames)]
    BY GraphType DEF ValidInv
  <1>2. ASSUME NEW c \in cycles PROVE HasCycle
    <2>1. c \in Seq(GroupNames) /\ c # <<>> /\ Genuine(c)
      BY <1>1 DEF CyclesInv
    <2>2. Len(c) \in Nat /\ Len(c) # 0 /\ DOMAIN c = 1..Len(c)
      BY <2>1
    <2>3. Range(c) \in (SUBSET GroupNames) \ {{}}
      <3>1. \A k \in 1..Len(c) : c[k] \in GroupNames
        BY <2>1
      <3>2. 1 \in 1..Len(c)
        BY <2>2
      <3> QED
        BY <2>2, <3>1, <3>2 DEF Range
    <2>4. ASSUME NEW g \in Range(c) PROVE Range(Neighbors(g)) \cap Range(c) # {}
      <3>1. PICK k \in 1..Len(c) : g = c[k]
        BY <2>2 DEF Range
      <3> DEFINE j == IF k = Len(c) THEN 1 ELSE k + 1
      <3>2. j \in 1..Len(c)
        <4>1. CASE k = Len(c)
          BY <2>2, <4>1
        <4>2. CASE k # Len(c)
          BY <2>2, <4>2, NextIndex
        <4> QED
          BY <4>1, <4>2
      <3>3. c[j] \in Range(Neighbors(g))
        BY <2>1, <2>2, <3>1 DEF Genuine
      <3>4. c[j] \in Range(c)
        BY <2>2, <3>2 DEF Range
      <3> QED
        BY <3>3, <3>4
    <2> QED
      BY <2>3, <2>4 DEF HasCycle
  <1>3. ASSUME cycles = {} PROVE ~HasCycle
    <2>1. OnTrail = {}
      BY DEF OnTrail
    <2>2. visited = GroupNames
      BY <1>1, <1>3, <2>1 DEF CyclesInv, VisitedInv
    <2> QED
      BY <1>1, <2>2 DEF VisitedInv, Grounded, HasCycle
  <1> QED
    BY <1>2, <1>3

\* When all groups are visited no cycle can be missing: the visited ones refer down to nothing else.
LEMMA VerdictHolds == ValidInv => VerdictExact
  <1> SUFFICES ASSUME ValidInv PROVE VerdictExact
    OBVIOUS
  <1>1. \A c \in cycles : Genuine(c)
    BY DEF ValidInv, CyclesInv
  <1>2. \A g \in visited : Range(Neighbors(g)) \subseteq visited
    BY DEF ValidInv, VisitedInv
  <1>3. ASSUME turn = {}, trail = <<>> PROVE (cycles # {} <=> HasCycle) /\ (Validate.is_valid <=> Loadable)
    <2>1. cycles # {} <=> HasCycle
      BY <1>3, CyclesExact
    <2> DEFINE Refers(g) == UnknownRefs(g) = {} /\ \A r \in Range(g.use) \ (GroupNames \cup {NotText}) : IsFilterSelector(r)
    <2>2. ASSUME NEW g PROVE Refers(g) <=> \A r \in Range(g.proxies) \cup Range(g.use) : Resolves(r, g)
      BY DEF UnknownRefs, Resolves
    <2> HIDE DEF Refers
    <2>3. Loadable <=>
            /\ Repeated(final.proxies) = {} /\ Repeated(final.groups) = {}
            /\ \A p \in Range(final.proxies) : p.name \notin {Missing, NotText} /\ p.type # Missing /\ p.server # Missing
            /\ \A g \in Range(final.groups) : g.name \notin {Missing, NotText} /\ Refers(g)
            /\ ~HasCycle
      BY <2>2 DEF Loadable
    <2> QED
      BY <2>1, <2>3, Verdict DEF Refers
  <1> QED
    BY <1>1, <1>2, <1>3 DEF VerdictExact

\* Whatever the configuration and whatever the order in which the hash map gives the groups: every cycle
\* reported is one, and at the end the verdict is the one that the references themselves imply.  The
\* visited set is shared by all searches; that no cycle gets lost by it is the heart of the proof.
THEOREM VerdictsAreExact == ValidSpec => []VerdictExact
  <1> DEFINE Inv == ValidInv /\ turn \subseteq GroupNames
  <1>1. ValidInit => Inv
    BY ValidStarts DEF ValidInit
  <1>2. Inv /\ [ValidStep]_validVars => Inv'
    BY ValidKeeps
  <1>3. Inv => VerdictExact
    BY VerdictHolds
  <1> QED
    BY <1>1, <1>2, <1>3, PTL DEF ValidSpec
-----------------------------------------------------------------------------
(* Cron fields. *)

\* What a part and a token are made of.
LEMMA PartKinds ==
  ASSUME NEW p \in Parts
  PROVE  \/ p = Star /\ p.is = "star"
         \/ p = Blank /\ p.is = "blank"
         \/ p.is = "every" /\ p.step \in StepTokens
         \/ p.is = "span" /\ p.from \in Tokens /\ p.to \in Tokens /\ p.step \in StepTokens
         \/ p.is = "one" /\ p.at \in Tokens
  BY DEF Parts, Star, Blank

\* A name becomes a number or junk; a number and junk stay.
LEMMA TokenType ==
  ASSUME NEW field, NEW t \in Tokens
  PROVE  /\ Token(field, t) \in Tokens
         /\ t.is \notin {"month", "day"} => Token(field, t) = t
  BY DEF Token, Tokens, Number, Junk

\* Reading names leaves the shape of a part as it is.
LEMMA NormalizedType ==
  ASSUME NEW field, NEW p \in Parts, p # Blank
  PROVE  /\ Normalized(field, p) \in Parts /\ Normalized(field, p) # Blank
         /\ ~Named(p) => Normalized(field, p) = p
  <1>1. CASE p.is = "span"
    <2>1. p = [is |-> "span", from |-> p.from, to |-> p.to, step |-> p.step] /\ p.from \in Tokens /\ p.to \in Tokens /\ p.step \in StepTokens
      BY <1>1 DEF Parts, Star, Blank
    <2>2. Normalized(field, p) = [is |-> "span", from |-> Token(field, p.from), to |-> Token(field, p.to), step |-> p.step]
      BY <1>1 DEF Normalized, Span
    <2>3. Normalized(field, p) \in Parts
      BY <2>1, <2>2, TokenType DEF Parts
    <2>4. Normalized(field, p) # Blank
      BY <2>2 DEF Blank
    <2>5. ~Named(p) => Token(field, p.from) = p.from /\ Token(field, p.to) = p.to
      BY <1>1, <2>1, TokenType DEF Named
    <2> QED
      BY <2>1, <2>2, <2>3, <2>4, <2>5
  <1>2. CASE p.is = "one"
    <2>1. p = [is |-> "one", at |-> p.at] /\ p.at \in Tokens
      BY <1>2 DEF Parts, Star, Blank
    <2>2. Normalized(field, p) = [is |-> "one", at |-> Token(field, p.at)]
      BY <1>2 DEF Normalized, One
    <2>3. Normalized(field, p) \in Parts /\ Normalized(field, p) # Blank
      BY <2>1, <2>2, TokenType DEF Parts, Blank
    <2>4. ~Named(p) => Token(field, p.at) = p.at
      BY <1>2, <2>1, TokenType DEF Named
    <2> QED
      BY <2>1, <2>2, <2>3, <2>4
  <1>3. CASE p.is \notin {"span", "one"}
    BY <1>3 DEF Normalized
  <1> QED
    BY <1>1, <1>2, <1>3

\* The parts of a text that are read.
LEMMA WrittenParts ==
  ASSUME NEW field, NEW text \in Texts
  PROVE  /\ \A p \in Written(field, text) : p \in Parts /\ p # Blank
         /\ \A j \in DOMAIN text : text[j] \in Parts
         /\ (\A j \in DOMAIN text : text[j] = Blank \/ ~Named(text[j]))
              => Written(field, text) = {text[i] : i \in {j \in DOMAIN text : text[j] # Blank}}
  <1>1. \A j \in DOMAIN text : text[j] \in Parts
    BY DEF Texts
  <1>2. ASSUME NEW p \in Written(field, text) PROVE p \in Parts /\ p # Blank
    <2>1. PICK i \in {j \in DOMAIN text : text[j] # Blank} : p = Normalized(field, text[i])
      BY DEF Written
    <2> QED
      BY <1>1, <2>1, NormalizedType
  <1>3. ASSUME \A j \in DOMAIN text : text[j] = Blank \/ ~Named(text[j])
        PROVE  Written(field, text) = {text[i] : i \in {j \in DOMAIN text : text[j] # Blank}}
    <2>1. \A i \in {j \in DOMAIN text : text[j] # Blank} : Normalized(field, text[i]) = text[i]
      BY <1>1, <1>3, NormalizedType
    <2> QED
      BY <2>1 DEF Written
  <1> QED
    BY <1>1, <1>2, <1>3

\* Where the parser takes a part the hooks match the values it lists.
LEMMA PartsAgree ==
  ASSUME NEW field \in FieldNames, NEW p \in Parts, p # Blank, PartValues(field, p) # {}
  PROVE  PartValues(field, p) = {v \in Values(field) : PartMatches(field, p, v)}
  <1> DEFINE lo == Ranges[field][1]
             hi == Ranges[field][2]
  <1>1. lo \in Nat /\ hi \in Nat /\ Values(field) = lo..hi
    BY RangesAssumption DEF Values
  <1>2. SUFFICES ASSUME NEW v \in Values(field) PROVE v \in PartValues(field, p) <=> PartMatches(field, p, v)
    BY DEF PartValues
  <1>3. v \in Int /\ lo <= v /\ v <= hi
    BY <1>1
  <1>4. CASE p.is = "star"
    BY <1>4 DEF PartValues, PartMatches
  <1>5. CASE p.is = "every"
    <2>1. v \in Steps(lo, v, p.step.n) <=> v \in Steps(lo, hi, p.step.n)
      BY <1>1, <1>3 DEF Steps
    <2> QED
      BY <1>5, <2>1 DEF PartValues, PartMatches
  <1>6. CASE p.is = "span"
    <2>1. p.from \in Tokens /\ p.to \in Tokens /\ p.step \in StepTokens
      BY <1>6, PartKinds DEF Star, Blank
    <2>2. SpanValues(field, p) # {}
      BY <1>6 DEF PartValues
    <2>3. ~BadStep(p) /\ NumericSpan(p) /\ SpanValues(field, p) = Steps(p.from.n, p.to.n, p.step.n)
      BY <2>2 DEF SpanValues
    <2>4. p.from.n \in Int /\ p.to.n \in Int
      BY <2>1 DEF Tokens
    <2>5. v \in Steps(p.from.n, p.to.n, p.step.n) <=> v \in p.from.n..p.to.n /\ v \in Steps(p.from.n, v, p.step.n)
      BY <1>3, <2>4 DEF Steps
    <2>6. v \in PartValues(field, p) <=> v \in Steps(p.from.n, p.to.n, p.step.n)
      BY <1>6, <2>3 DEF PartValues
    <2>7. PartMatches(field, p, v) <=> v \in p.from.n..p.to.n /\ v \in Steps(p.from.n, v, p.step.n)
      BY <1>6, <2>3 DEF PartMatches, BadStep
    <2> QED
      BY <2>5, <2>6, <2>7
  <1>7. CASE p.is = "one"
    BY <1>7 DEF PartValues, PartMatches
  <1> QED
    BY <1>4, <1>5, <1>6, <1>7, PartKinds DEF Star, Blank

\* The parser and the loader refuse the same parts, but for names and steps that are too long.
LEMMA PartsRefused ==
  ASSUME NEW field \in FieldNames, NEW p \in Parts, p # Blank, ~TooLong(p)
  PROVE  PartValues(field, p) # {} <=> PartValid(field, p)
  <1> DEFINE lo == Ranges[field][1]
             hi == Ranges[field][2]
  <1>1. lo \in Nat /\ hi \in Nat /\ lo <= hi /\ Values(field) = lo..hi /\ lo \in Values(field)
    BY RangesAssumption DEF Values
  <1>2. \A n \in Nat : n # 0 => 0 % n = 0
    BY SMT
  <1>3. CASE p.is = "star"
    BY <1>1, <1>3 DEF PartValues, PartValid
  <1>4. CASE p.is = "every"
    <2>1. p.step \in StepTokens
      BY <1>4, PartKinds DEF Star, Blank
    <2>2. ~BadStep(p) => p.step.n \in Nat /\ p.step.n # 0
      BY <2>1 DEF BadStep, StepTokens
    <2>3. ~BadStep(p) => lo \in Steps(lo, hi, p.step.n)
      BY <1>1, <1>2, <2>2 DEF Steps
    <2>4. ~BadStep(p) => lo \in PartValues(field, p)
      BY <1>1, <1>4, <2>3 DEF PartValues
    <2>5. PartValues(field, p) # {} => ~BadStep(p)
      BY <1>4 DEF PartValues
    <2>6. PartValid(field, p) <=> ~BadStep(p)
      BY <1>4 DEF PartValid
    <2> QED
      BY <2>4, <2>5, <2>6
  <1>5. CASE p.is = "span"
    <2>1. p.from \in Tokens /\ p.to \in Tokens /\ p.step \in StepTokens
      BY <1>5, PartKinds DEF Star, Blank
    <2> DEFINE a == p.from.n
               b == p.to.n
    <2>2. a \in Int /\ b \in Int /\ p.step.n \in Nat
      BY <2>1 DEF Tokens, StepTokens
    <2>3. PartValues(field, p) # {} <=> SpanValues(field, p) # {}
      <3>1. SpanValues(field, p) \subseteq Values(field)
        BY <1>1, <2>2 DEF SpanValues, Steps
      <3> QED
        BY <1>5, <3>1 DEF PartValues
    <2>4. ASSUME PartValid(field, p) PROVE SpanValues(field, p) # {}
      <3>1. NumericSpan(p) /\ ~BadStep(p) /\ lo <= a /\ b <= hi /\ a <= b
        BY <1>5, <2>4 DEF PartValid
      <3>2. p.step.n # 0
        BY <3>1 DEF BadStep
      <3>3. p.step.n <= b - a + 1
        BY <1>5, <2>2, <3>1 DEF TooLong
      <3>4. SpanValues(field, p) = Steps(a, b, p.step.n)
        BY <1>1, <2>2, <3>1, <3>3 DEF SpanValues
      <3>5. a - a = 0
        BY <2>2
      <3>6. a \in Steps(a, b, p.step.n)
        BY <1>2, <2>2, <3>1, <3>2, <3>5 DEF Steps
      <3> QED
        BY <3>4, <3>6
    <2>5. ASSUME SpanValues(field, p) # {} PROVE PartValid(field, p)
      <3>1. /\ NumericSpan(p) /\ ~BadStep(p) /\ ~(a < lo) /\ ~(b > hi)
            /\ SpanValues(field, p) = Steps(a, b, p.step.n)
        BY <2>5 DEF SpanValues
      <3>2. a <= b
        BY <2>2, <2>5, <3>1 DEF Steps
      <3> QED
        BY <1>1, <1>5, <2>2, <3>1, <3>2 DEF PartValid
    <2> QED
      BY <2>3, <2>4, <2>5
  <1>6. CASE p.is = "one"
    <2>1. p.at \in Tokens
      BY <1>6, PartKinds DEF Star, Blank
    <2>2. \A v : p.at = Number(v) <=> p.at.is = "number" /\ p.at.n = v
      BY <2>1 DEF Tokens, Number
    <2>3. PartValues(field, p) = {v \in Values(field) : p.at.is = "number" /\ p.at.n = v}
      BY <1>6, <2>2 DEF PartValues
    <2> QED
      BY <1>6, <2>3 DEF PartValid
  <1> QED
    BY <1>3, <1>4, <1>5, <1>6, PartKinds DEF Star, Blank

\* The three readers of a text agree as they should.
LEMMA ReadersAgree ==
  ASSUME NEW field \in FieldNames, NEW text \in Texts
  PROVE  FieldsAgree(field, text)
  <1>1. ASSUME Parses(field, text) PROVE Allowed(field, text) = Matching(field, text)
    <2>1. \A p \in Written(field, text) : PartValues(field, p) = {v \in Values(field) : PartMatches(field, p, v)}
      BY <1>1, WrittenParts, PartsAgree DEF Parses
    <2> QED
      BY <2>1 DEF Allowed, Matching
  <1>2. ASSUME \A i \in DOMAIN text : text[i] = Blank \/ ~(Named(text[i]) \/ TooLong(text[i])), Written(field, text) # {}
        PROVE  Parses(field, text) <=> Validates(field, text)
    <2>1. Written(field, text) = {text[i] : i \in {j \in DOMAIN text : text[j] # Blank}}
      BY <1>2, WrittenParts
    <2>2. \A i \in DOMAIN text : text[i] # Blank => (PartValues(field, text[i]) # {} <=> PartValid(field, text[i]))
      BY <1>2, WrittenParts, PartsRefused
    <2> QED
      BY <1>2, <2>1, <2>2 DEF Parses, Validates
  <1> QED
    BY <1>1, <1>2 DEF FieldsAgree

-----------------------------------------------------------------------------
(* The clock and the calendar. *)

\* A whole multiple of k more than another is at least k more.
LEMMA Multiples ==
  ASSUME NEW a \in Nat, NEW b \in Nat, NEW k \in Nat, a < b
  PROVE  a * k \in Nat /\ b * k \in Nat /\ a * k + k <= b * k
  <1>1. PICK c \in Nat : b = a + 1 + c
    <2>1. b - a - 1 \in Nat /\ b = a + 1 + (b - a - 1)
      OBVIOUS
    <2> QED
      BY <2>1
  <1>2. b * k = a * k + k + c * k
    BY <1>1
  <1>3. a * k \in Nat /\ b * k \in Nat /\ c * k \in Nat
    OBVIOUS
  <1> QED
    BY <1>2, <1>3

\* Quotient and remainder.
LEMMA Quotient ==
  ASSUME NEW t \in Nat, NEW k \in Nat \ {0}
  PROVE  t \div k \in Nat /\ t % k \in 0..k - 1 /\ t = (t \div k) * k + (t % k)
  OBVIOUS

\* The units of the clock are whole numbers.
LEMMA Units ==
  /\ HoursPerDay \in Nat \ {0} /\ MinutesPerHour \in Nat \ {0} /\ DaysPerWeek \in Nat \ {0}
  /\ LongJump \in Nat /\ SearchDays \in Nat /\ DayLength \in Nat \ {0}
  /\ DayLength = HoursPerDay * MinutesPerHour
  <1>1. HoursPerDay \in Nat \ {0} /\ MinutesPerHour \in Nat \ {0} /\ DaysPerWeek \in Nat \ {0} /\ LongJump \in Nat /\ SearchDays \in Nat
    BY CalendarAssumption
  <1>2. DayLength = HoursPerDay * MinutesPerHour
    BY DEF DayLength
  <1>3. DayLength \in Nat \ {0}
    BY <1>1, <1>2
  <1> QED
    BY <1>1, <1>2, <1>3

\* The number of the day of a time, the minute h : mi of a day, and what hours and minutes are.
DayOf(t) == t \div DayLength
TimeOf(d, h, mi) == d * DayLength + h * MinutesPerHour + mi
IsHour(h) == h \in 0..HoursPerDay - 1
IsMinute(mi) == mi \in 0..MinutesPerHour - 1

\* An hour and a minute are less than a day.
LEMMA WithinDay ==
  ASSUME NEW h, NEW mi, IsHour(h), IsMinute(mi)
  PROVE  h * MinutesPerHour + mi \in 0..DayLength - 1
  <1>1. h \in Nat /\ mi \in Nat /\ h < HoursPerDay /\ mi < MinutesPerHour
    BY Units DEF IsHour, IsMinute
  <1>2. h * MinutesPerHour \in Nat /\ h * MinutesPerHour + MinutesPerHour <= HoursPerDay * MinutesPerHour
    BY <1>1, Units, Multiples
  <1>3. MinutesPerHour \in Nat /\ HoursPerDay * MinutesPerHour \in Nat /\ DayLength = HoursPerDay * MinutesPerHour
    BY Units
  <1> DEFINE x == h * MinutesPerHour
             y == HoursPerDay * MinutesPerHour
  <1>4. x \in Nat /\ x + MinutesPerHour <= y /\ y \in Nat /\ DayLength = y
    BY <1>2, <1>3
  <1> HIDE DEF x, y
  <1>5. x + mi \in 0..DayLength - 1
    BY <1>1, <1>3, <1>4
  <1> QED
    BY <1>5 DEF x

\* Later days, hours and minutes are later times.
LEMMA TimesInOrder ==
  ASSUME NEW d1 \in Nat, NEW h1, NEW m1, IsHour(h1), IsMinute(m1),
         NEW d2 \in Nat, NEW h2, NEW m2, IsHour(h2), IsMinute(m2)
  PROVE  /\ TimeOf(d1, h1, m1) \in Nat
         /\ d1 < d2 => TimeOf(d1, h1, m1) < TimeOf(d2, h2, m2)
         /\ d1 = d2 /\ h1 < h2 => TimeOf(d1, h1, m1) < TimeOf(d2, h2, m2)
         /\ d1 = d2 /\ h1 = h2 /\ m1 < m2 => TimeOf(d1, h1, m1) < TimeOf(d2, h2, m2)
  <1> DEFINE x1 == h1 * MinutesPerHour
             x2 == h2 * MinutesPerHour
             y1 == d1 * DayLength
             y2 == d2 * DayLength
  <1>1. h1 \in Nat /\ m1 \in Nat /\ h2 \in Nat /\ m2 \in Nat /\ m1 < MinutesPerHour /\ MinutesPerHour \in Nat
    BY Units DEF IsHour, IsMinute
  <1>2. x1 + m1 \in 0..DayLength - 1 /\ x2 + m2 \in 0..DayLength - 1 /\ DayLength \in Nat
    BY WithinDay, Units
  <1>3. x1 \in Nat /\ x2 \in Nat /\ y1 \in Nat /\ y2 \in Nat
    BY <1>1, <1>2
  <1>4. TimeOf(d1, h1, m1) = y1 + x1 + m1 /\ TimeOf(d2, h2, m2) = y2 + x2 + m2
    BY DEF TimeOf
  <1>5. d1 < d2 => y1 + DayLength <= y2
    BY <1>2, Multiples
  <1>6. h1 < h2 => x1 + MinutesPerHour <= x2
    BY <1>1, Multiples
  <1>7. (d1 = d2 => y1 = y2) /\ (h1 = h2 => x1 = x2)
    OBVIOUS
  <1> HIDE DEF x1, x2, y1, y2
  <1> QED
    BY <1>1, <1>2, <1>3, <1>4, <1>5, <1>6, <1>7

\* Every time is a minute of an hour of a day, and of one only.
LEMMA ClockParts ==
  ASSUME NEW t \in Nat
  PROVE  /\ DayOf(t) \in Nat /\ IsHour(Hour(t)) /\ IsMinute(Minute(t))
         /\ t = TimeOf(DayOf(t), Hour(t), Minute(t)) /\ Midnight(t) = TimeOf(DayOf(t), 0, 0)
  <1> DEFINE q == t \div MinutesPerHour
             d == q \div HoursPerDay
  <1>1. q \in Nat /\ Minute(t) \in 0..MinutesPerHour - 1 /\ t = q * MinutesPerHour + Minute(t)
    BY Units, Quotient DEF Minute
  <1>2. d \in Nat /\ Hour(t) \in 0..HoursPerDay - 1 /\ q = d * HoursPerDay + Hour(t)
    BY <1>1, Units, Quotient DEF Hour
  <1>3. IsHour(Hour(t)) /\ IsMinute(Minute(t))
    BY <1>1, <1>2 DEF IsHour, IsMinute
  <1>4. Hour(t) \in Nat /\ Minute(t) \in Nat
    BY <1>1, <1>2, Units
  <1>5. t = TimeOf(d, Hour(t), Minute(t))
    <2> DEFINE h == Hour(t)
    <2>1. h \in Nat /\ d \in Nat
      BY <1>2, <1>4
    <2>2. q * MinutesPerHour = (d * HoursPerDay + h) * MinutesPerHour
      BY <1>2
    <2> HIDE DEF h, d, q
    <2>3. (d * HoursPerDay + h) * MinutesPerHour = d * (HoursPerDay * MinutesPerHour) + h * MinutesPerHour
      BY <2>1, Units
    <2>4. q * MinutesPerHour = d * DayLength + h * MinutesPerHour
      BY <2>2, <2>3, Units
    <2> QED
      BY <1>1, <2>4 DEF TimeOf, h
  <1>6. DayOf(t) \in Nat /\ t % DayLength \in 0..DayLength - 1 /\ t = DayOf(t) * DayLength + (t % DayLength)
    BY Units, Quotient DEF DayOf
  <1>7. d = DayOf(t) /\ t % DayLength = Hour(t) * MinutesPerHour + Minute(t)
    <2> DEFINE a == d
               b == DayOf(t)
               r == Hour(t) * MinutesPerHour + Minute(t)
               s == t % DayLength
    <2>1. a \in Nat /\ b \in Nat /\ s \in 0..DayLength - 1 /\ t = b * DayLength + s
      BY <1>2, <1>6
    <2>2. r \in 0..DayLength - 1
      BY <1>3, WithinDay
    <2>3. t = a * DayLength + r
      <3>1. Hour(t) * MinutesPerHour \in Nat /\ d * DayLength \in Nat
        BY <1>2, <1>4, Units
      <3> DEFINE x == Hour(t) * MinutesPerHour
                 y == d * DayLength
      <3>2. t = y + x + Minute(t) /\ x \in Nat /\ y \in Nat
        BY <1>5, <3>1 DEF TimeOf
      <3> HIDE DEF x, y, d
      <3>3. t = y + (x + Minute(t))
        BY <1>4, <3>2
      <3> QED
        BY <3>3 DEF x, y
    <2> HIDE DEF a, b, r, s
    <2>4. a < b => a * DayLength + DayLength <= b * DayLength
      BY <2>1, Units, Multiples
    <2>5. b < a => b * DayLength + DayLength <= a * DayLength
      BY <2>1, Units, Multiples
    <2>6. a * DayLength \in Nat /\ b * DayLength \in Nat /\ DayLength \in Nat
      BY <2>1, Units
    <2>7. a = b
      <3> DEFINE x == a * DayLength
                 y == b * DayLength
      <3>1. x \in Nat /\ y \in Nat /\ (a < b => x + DayLength <= y) /\ (b < a => y + DayLength <= x) /\ t = x + r /\ t = y + s
        BY <2>1, <2>3, <2>4, <2>5, <2>6
      <3> HIDE DEF x, y
      <3> QED
        BY <2>1, <2>2, <2>6, <3>1
    <2>8. r = s
      <3> DEFINE x == a * DayLength
      <3>1. x \in Nat /\ t = x + r /\ t = x + s
        BY <2>1, <2>3, <2>6, <2>7
      <3> HIDE DEF x
      <3> QED
        BY <2>1, <2>2, <3>1, Units
    <2> QED
      BY <2>7, <2>8 DEF a, b, r, s
  <1>8. Midnight(t) = TimeOf(DayOf(t), 0, 0)
    <2>1. 0 * MinutesPerHour = 0
      BY Units
    <2>2. DayOf(t) * DayLength \in Nat
      BY <1>6, Units
    <2>3. TimeOf(DayOf(t), 0, 0) = DayOf(t) * DayLength
      BY <2>1, <2>2 DEF TimeOf
    <2>4. t - (t % DayLength) = DayOf(t) * DayLength
      BY <1>6, <2>2, Units
    <2> QED
      BY <2>3, <2>4 DEF Midnight
  <1> HIDE DEF d
  <1> QED
    BY <1>3, <1>5, <1>6, <1>7, <1>8

\* A time up to another is not on a later day, nor at a later hour of the day, nor at a later minute of the hour.
LEMMA ClockOrder ==
  ASSUME NEW t \in Nat, NEW u \in Nat, t <= u
  PROVE  /\ DayOf(t) <= DayOf(u)
         /\ DayOf(t) = DayOf(u) => Hour(t) <= Hour(u)
         /\ DayOf(t) = DayOf(u) /\ Hour(t) = Hour(u) => Minute(t) <= Minute(u)
  <1>1. DayOf(t) \in Nat /\ IsHour(Hour(t)) /\ IsMinute(Minute(t)) /\ t = TimeOf(DayOf(t), Hour(t), Minute(t))
    BY ClockParts
  <1>2. DayOf(u) \in Nat /\ IsHour(Hour(u)) /\ IsMinute(Minute(u)) /\ u = TimeOf(DayOf(u), Hour(u), Minute(u))
    BY ClockParts
  <1>3. /\ DayOf(u) < DayOf(t) => u < t
        /\ DayOf(u) = DayOf(t) /\ Hour(u) < Hour(t) => u < t
        /\ DayOf(u) = DayOf(t) /\ Hour(u) = Hour(t) /\ Minute(u) < Minute(t) => u < t
    BY <1>1, <1>2, TimesInOrder
  <1>4. Hour(t) \in Int /\ Hour(u) \in Int /\ Minute(t) \in Int /\ Minute(u) \in Int
    BY <1>1, <1>2 DEF IsHour, IsMinute
  <1> QED
    BY <1>1, <1>2, <1>3, <1>4

\* Before the minute h : mi of day d it is an earlier day, hour or minute.
LEMMA BeforeTime ==
  ASSUME NEW u \in Nat, NEW d \in Nat, NEW h, NEW mi, IsHour(h), IsMinute(mi), u < TimeOf(d, h, mi)
  PROVE  /\ DayOf(u) <= d
         /\ DayOf(u) = d => Hour(u) <= h
         /\ DayOf(u) = d /\ Hour(u) = h => Minute(u) < mi
  <1>1. DayOf(u) \in Nat /\ IsHour(Hour(u)) /\ IsMinute(Minute(u)) /\ u = TimeOf(DayOf(u), Hour(u), Minute(u))
    BY ClockParts
  <1>2. /\ d < DayOf(u) => TimeOf(d, h, mi) < u
        /\ d = DayOf(u) /\ h < Hour(u) => TimeOf(d, h, mi) < u
        /\ d = DayOf(u) /\ h = Hour(u) /\ mi < Minute(u) => TimeOf(d, h, mi) < u
    BY <1>1, TimesInOrder
  <1>3. Hour(u) \in Int /\ h \in Int /\ Minute(u) \in Int /\ mi \in Int /\ TimeOf(d, h, mi) \in Nat
    BY <1>1, TimesInOrder DEF IsHour, IsMinute
  <1>4. d = DayOf(u) /\ h = Hour(u) /\ mi = Minute(u) => u = TimeOf(d, h, mi)
    BY <1>1
  <1> QED
    BY <1>1, <1>2, <1>3, <1>4

\* The calendar holds the day of a time.
InCalendar(t) == t \in Nat /\ DayOf(t) + 1 \in DOMAIN Days
\* a is not a later date than b.
NotLater(a, b) == a = b \/ Sooner(a, b)

\* The least of some numbers.
LEMMA LeastOf ==
  ASSUME NEW S \in SUBSET Nat, S # {}
  PROVE  Min(S) \in S /\ \A x \in S : Min(S) <= x
  <1>1. \E t \in S : \A n \in S : t <= n
    BY LeastNumber
  <1> QED
    BY <1>1, Zenon DEF Min

\* A time is of the day it was made of.
LEMMA DayOfTime ==
  ASSUME NEW d \in Nat, NEW h, NEW mi, IsHour(h), IsMinute(mi)
  PROVE  TimeOf(d, h, mi) \in Nat /\ DayOf(TimeOf(d, h, mi)) = d
  <1> DEFINE t == TimeOf(d, h, mi)
  <1>1. t \in Nat
    BY TimesInOrder
  <1> HIDE DEF t
  <1>2. DayOf(t) \in Nat /\ IsHour(Hour(t)) /\ IsMinute(Minute(t)) /\ t = TimeOf(DayOf(t), Hour(t), Minute(t))
    BY <1>1, ClockParts
  <1>3. (d < DayOf(t) => TimeOf(d, h, mi) < t) /\ (DayOf(t) < d => t < TimeOf(d, h, mi))
    BY <1>2, TimesInOrder
  <1>4. t = TimeOf(d, h, mi)
    BY DEF t
  <1> QED
    BY <1>1, <1>2, <1>3, <1>4

\* Midnight is the first minute of a day.
LEMMA FirstMinute == IsHour(0) /\ IsMinute(0)
  BY Units DEF IsHour, IsMinute

\* The days of the calendar, and the values of its fields.
LEMMA DayTypes ==
  /\ DOMAIN Days = 1..Len(Days) /\ Len(Days) \in Nat
  /\ \A i \in DOMAIN Days : /\ Days[i].year \in Nat /\ Days[i].month \in Nat /\ Days[i].day \in Nat \ {0}
                            /\ Days[i].day \in Values("days")
                            /\ Days[i] = [year |-> Days[i].year, month |-> Days[i].month, day |-> Days[i].day]
  /\ \A f \in FieldNames : Values(f) \in SUBSET Nat /\ IsFiniteSet(Values(f))
  <1>1. Days \in Seq([year : Nat, month : Nat, day : Values("days") \ {0}])
    BY CalendarAssumption
  <1>2. \A f \in FieldNames : Values(f) \in SUBSET Nat
    BY RangesAssumption DEF Values
  <1>3. \A f \in FieldNames : IsFiniteSet(Values(f))
    BY RangesAssumption, FS_Interval DEF Values
  <1>4. \A i \in DOMAIN Days : Days[i] \in [year : Nat, month : Nat, day : Values("days") \ {0}]
    <2> DEFINE D == [year : Nat, month : Nat, day : Values("days") \ {0}]
    <2> HIDE DEF D
    <2>1. Days \in Seq(D) => \A i \in DOMAIN Days : Days[i] \in D
      OBVIOUS
    <2> QED
      BY <1>1, <2>1 DEF D
  <1>5. "days" \in FieldNames
    BY DEF FieldNames
  <1> QED
    BY <1>1, <1>2, <1>3, <1>4, <1>5

\* Days of the calendar that are not later in it are not later dates.
LEMMA DaysInOrder ==
  ASSUME NEW i \in DOMAIN Days, NEW j \in DOMAIN Days, i <= j
  PROVE  NotLater(Days[i], Days[j]) /\ (i < j => Sooner(Days[i], Days[j]))
  <1>1. \A k, l \in DOMAIN Days : k < l => Sooner(Days[k], Days[l])
    BY CalendarAssumption, Zenon
  <1>2. i < j \/ i = j
    BY DayTypes
  <1> QED
    BY <1>1, <1>2 DEF NotLater

\* Between a time of the calendar and the first minute of one of its days.
LEMMA UntilDay ==
  ASSUME NEW t, InCalendar(t), NEW u \in Nat, t <= u, NEW i \in DOMAIN Days, u < TimeOf(i - 1, 0, 0)
  PROVE  InCalendar(u) /\ NotLater(Date(t), Date(u)) /\ Sooner(Date(u), Days[i])
  <1>1. t \in Nat /\ DayOf(t) + 1 \in DOMAIN Days /\ i \in 1..Len(Days) /\ Len(Days) \in Nat
    BY DayTypes DEF InCalendar
  <1>2. DayOf(t) \in Nat /\ DayOf(u) \in Nat /\ IsHour(Hour(u)) /\ IsMinute(Minute(u)) /\ DayOf(t) <= DayOf(u)
    BY <1>1, ClockParts, ClockOrder
  <1>3. i - 1 \in Nat
    BY <1>1
  <1>4. /\ DayOf(u) <= i - 1
        /\ DayOf(u) = i - 1 => Hour(u) <= 0
        /\ DayOf(u) = i - 1 /\ Hour(u) = 0 => Minute(u) < 0
    BY <1>3, FirstMinute, BeforeTime
  <1>5. Hour(u) \in Nat /\ Minute(u) \in Nat
    BY <1>2, Units DEF IsHour, IsMinute
  <1>6. DayOf(u) + 1 < i
    BY <1>1, <1>2, <1>4, <1>5
  <1>7. DayOf(u) + 1 \in DOMAIN Days
    BY <1>1, <1>2, <1>6, DayTypes
  <1>8. Date(u) = Days[DayOf(u) + 1] /\ Date(t) = Days[DayOf(t) + 1]
    BY DEF Date, DayOf
  <1>9. DayOf(t) + 1 <= DayOf(u) + 1
    BY <1>2
  <1> QED
    BY <1>1, <1>6, <1>7, <1>8, <1>9, DaysInOrder DEF InCalendar

\* The date of a time of the calendar.
LEMMA DateType ==
  ASSUME NEW t, InCalendar(t)
  PROVE  /\ Date(t) = Days[DayOf(t) + 1] /\ DayOf(t) + 1 \in DOMAIN Days
         /\ Date(t).year \in Nat /\ Date(t).month \in Nat /\ Date(t).day \in Nat \ {0} /\ Date(t).day \in Values("days")
  <1>1. Date(t) = Days[DayOf(t) + 1] /\ DayOf(t) + 1 \in DOMAIN Days
    BY DEF Date, DayOf, InCalendar
  <1> QED
    BY <1>1, DayTypes

\* A date is the first minute of its day, where the calendar has it.
LEMMA OnDateIs ==
  ASSUME NEW y, NEW m, NEW d, NEW otherwise
  PROVE  \/ OnDate(y, m, d, otherwise) = otherwise
         \/ \E i \in DOMAIN Days : /\ OnDate(y, m, d, otherwise) = TimeOf(i - 1, 0, 0)
                                   /\ Days[i] = [year |-> y, month |-> m, day |-> d]
  <1>1. CASE Dated(y, m, d) = {}
    BY <1>1 DEF OnDate
  <1>2. CASE Dated(y, m, d) # {}
    <2> DEFINE i == CHOOSE j \in Dated(y, m, d) : TRUE
    <2>1. i \in Dated(y, m, d)
      BY <1>2
    <2>2. OnDate(y, m, d, otherwise) = At(i, 0, 0)
      BY <1>2 DEF OnDate
    <2> HIDE DEF i
    <2>3. OnDate(y, m, d, otherwise) = TimeOf(i - 1, 0, 0)
      BY <2>2 DEF At, TimeOf
    <2> QED
      BY <2>1, <2>3 DEF Dated
  <1> QED
    BY <1>1, <1>2

\* The first of January of a year of the calendar, and where the long jump from it leads.
LEMMA JumpFrom ==
  ASSUME NEW t, InCalendar(t), NEW otherwise
  PROVE  LET start == OnDate(Date(t).year, 1, 1, otherwise) + LongJump * DayLength IN
         /\ InCalendar(start) /\ Date(start).year = Date(t).year
         /\ \E k \in DOMAIN Days : start = TimeOf(k - 1, 0, 0) /\ Days[k].year = Date(t).year
  <1> DEFINE y == Date(t).year
             j == CHOOSE i \in Dated(y, 1, 1) : TRUE
             k == j + LongJump
             start == OnDate(y, 1, 1, otherwise) + LongJump * DayLength
  <1>1. Dated(y, 1, 1) # {}
    BY DateType, CalendarAssumption
  <1>2. j \in Dated(y, 1, 1) /\ OnDate(y, 1, 1, otherwise) = At(j, 0, 0)
    BY <1>1 DEF OnDate
  <1> HIDE DEF j
  <1>3. j \in DOMAIN Days /\ Days[j] = [year |-> y, month |-> 1, day |-> 1]
    BY <1>2 DEF Dated
  <1>4. k \in DOMAIN Days /\ Days[k].year = y
    <2>1. \A i \in DOMAIN Days : Days[i].month = 1 /\ Days[i].day = 1 =>
             i + LongJump \in DOMAIN Days /\ Days[i + LongJump].year = Days[i].year
      BY CalendarAssumption, Zenon
    <2>2. Days[j].month = 1 /\ Days[j].day = 1 /\ Days[j].year = y
      BY <1>3
    <2> QED
      BY <1>3, <2>1, <2>2, Zenon
  <1>5. j \in Nat /\ j >= 1 /\ LongJump \in Nat /\ DayLength \in Nat /\ MinutesPerHour \in Nat /\ k \in Nat
    BY <1>3, DayTypes, Units
  <1>6. start = TimeOf(k - 1, 0, 0)
    <2>1. At(j, 0, 0) = (j - 1) * DayLength
      BY <1>5 DEF At
    <2>2. TimeOf(k - 1, 0, 0) = (k - 1) * DayLength
      BY <1>5 DEF TimeOf
    <2>3. (k - 1) * DayLength = (j - 1) * DayLength + LongJump * DayLength
      <3>1. k - 1 = (j - 1) + LongJump
        BY <1>5
      <3> QED
        BY <1>5, <3>1
    <2> QED
      BY <1>2, <2>1, <2>2, <2>3
  <1>7. k - 1 \in Nat /\ (k - 1) + 1 = k
    BY <1>5
  <1> HIDE DEF k, start
  <1>8. start \in Nat /\ DayOf(start) = k - 1
    BY <1>6, <1>7, DayOfTime, FirstMinute
  <1>9. InCalendar(start) /\ Date(start) = Days[k]
    BY <1>4, <1>7, <1>8 DEF InCalendar, Date, DayOf
  <1> QED
    BY <1>4, <1>6, <1>9 DEF start

\* The fields of an expression are texts.
Readable(e) == \A f \in FieldNames : e[f] \in Texts
\* The month, the day and the weekday of a time are right.
FieldsOfTime(e, t) == /\ Date(t).month \in Allowed("months", e["months"]) /\ DayMatches("scheduler", e, t)
                      /\ Hour(t) \in Allowed("hours", e["hours"]) /\ Minute(t) \in Allowed("minutes", e["minutes"])

\* Both searches ask the same values of a legal expression.
LEMMA AdmitsSame ==
  ASSUME NEW by, NEW e, NEW f \in FieldNames
  PROVE  /\ Admits(by, e, f) \in SUBSET Values(f) /\ Admits(by, e, f) \in SUBSET Nat
         /\ Allowed(f, e[f]) \in SUBSET Values(f)
         /\ Readable(e) /\ Legal(e) => Admits(by, e, f) = Allowed(f, e[f]) /\ Admits(by, e, f) # {}
  <1>1. Allowed(f, e[f]) \in SUBSET Values(f)
    BY DEF Allowed, PartValues
  <1>2. Matching(f, e[f]) \in SUBSET Values(f)
    BY DEF Matching
  <1>3. ASSUME Readable(e), Legal(e) PROVE Allowed(f, e[f]) = Matching(f, e[f]) /\ Allowed(f, e[f]) # {}
    <2>1. Parses(f, e[f]) /\ e[f] \in Texts
      BY <1>3 DEF Legal, Readable
    <2>2. Allowed(f, e[f]) = Matching(f, e[f])
      BY <2>1, ReadersAgree DEF FieldsAgree
    <2> QED
      BY <2>1, <2>2 DEF Parses, Allowed
  <1> QED
    BY <1>1, <1>2, <1>3, DayTypes DEF Admits

\* A time matches an expression in all its fields.
LEMMA MatchesFields ==
  ASSUME NEW e, NEW t
  PROVE  Matches(e, t) <=> FieldsOfTime(e, t)
  BY DEF Matches, FieldsOfTime

\* A day on which the hooks wait is one on which the scheduler waits.
LEMMA DayAgrees ==
  ASSUME NEW by, NEW e, Readable(e), Legal(e), NEW t, InCalendar(t), ~DayMatches(by, e, t)
  PROVE  ~DayMatches("scheduler", e, t)
  <1>1. CASE by # "hooks"
    <2>1. DayMatches(by, e, t) <=> DayMatches("scheduler", e, t)
      BY <1>1, AdmitsSame DEF DayMatches, FieldNames
    <2> QED
      BY <2>1
  <1>2. CASE by = "hooks"
    <2> DEFINE days == Admits("scheduler", e, "days")
               weekdays == Admits("scheduler", e, "weekdays")
    <2>1. days = Admits(by, e, "days") /\ weekdays = Admits(by, e, "weekdays") /\ days \in SUBSET Values("days")
      BY AdmitsSame DEF FieldNames
    <2>2. Date(t).day \notin days /\ Weekday(t) \notin weekdays
      BY <1>2, <2>1 DEF DayMatches
    <2>3. ~Unconstrained("days", days)
      <3>1. IsFiniteSet(Values("days")) /\ Date(t).day \in Values("days")
        BY DayTypes, DateType DEF FieldNames
      <3>2. days # Values("days")
        BY <2>2, <3>1
      <3> QED
        BY <2>1, <3>1, <3>2, FS_Subset DEF Unconstrained
    <2>4. days = Allowed("days", e["days"]) /\ weekdays = Allowed("weekdays", e["weekdays"])
      BY DEF Admits
    <2> HIDE DEF days, weekdays
    <2>5. DayMatches("scheduler", e, t) =>
            \/ Date(t).day \in days \/ Weekday(t) \in weekdays
            \/ Unconstrained("days", days)
      BY DEF DayMatches, days, weekdays
    <2> QED
      BY <2>2, <2>3, <2>5
  <1> QED
    BY <1>1, <1>2

\* All minutes of a day have its date.
LEMMA SameDay ==
  ASSUME NEW t, InCalendar(t), NEW u \in Nat, DayOf(u) = DayOf(t)
  PROVE  /\ InCalendar(u) /\ Date(u) = Date(t) /\ Weekday(u) = Weekday(t)
         /\ \A e : DayMatches("scheduler", e, u) <=> DayMatches("scheduler", e, t)
  <1>1. Date(u) = Date(t) /\ Weekday(u) = Weekday(t)
    BY DEF Date, Weekday, DayOf
  <1>2. \A e : DayMatches("scheduler", e, u) <=> DayMatches("scheduler", e, t)
    BY <1>1 DEF DayMatches
  <1> QED
    BY <1>1, <1>2 DEF InCalendar

\* Tomorrow is the next midnight.
LEMMA TomorrowIs ==
  ASSUME NEW t \in Nat
  PROVE  /\ Tomorrow(t) = TimeOf(DayOf(t) + 1, 0, 0) /\ Tomorrow(t) \in Nat /\ t < Tomorrow(t)
         /\ \A u \in Nat : t <= u /\ u < Tomorrow(t) => DayOf(u) = DayOf(t)
  <1>1. DayOf(t) \in Nat /\ IsHour(Hour(t)) /\ IsMinute(Minute(t)) /\ t = TimeOf(DayOf(t), Hour(t), Minute(t)) /\ Midnight(t) = TimeOf(DayOf(t), 0, 0)
    BY ClockParts
  <1>2. Tomorrow(t) = TimeOf(DayOf(t) + 1, 0, 0)
    <2> DEFINE d == DayOf(t)
    <2>1. d \in Nat
      BY <1>1
    <2> HIDE DEF d
    <2>2. TimeOf(d, 0, 0) = d * DayLength /\ TimeOf(d + 1, 0, 0) = (d + 1) * DayLength
      BY <2>1, Units DEF TimeOf
    <2>3. (d + 1) * DayLength = d * DayLength + DayLength
      BY <2>1, Units
    <2> QED
      BY <1>1, <2>2, <2>3 DEF Tomorrow, d
  <1>3. DayOf(t) + 1 \in Nat /\ DayOf(t) < DayOf(t) + 1
    BY <1>1
  <1>4. TimeOf(DayOf(t) + 1, 0, 0) \in Nat /\ t < TimeOf(DayOf(t) + 1, 0, 0)
    BY <1>1, <1>3, TimesInOrder, FirstMinute
  <1>5. ASSUME NEW u \in Nat, t <= u, u < TimeOf(DayOf(t) + 1, 0, 0) PROVE DayOf(u) = DayOf(t)
    <2>1. /\ DayOf(u) <= DayOf(t) + 1
          /\ DayOf(u) = DayOf(t) + 1 => Hour(u) <= 0
          /\ DayOf(u) = DayOf(t) + 1 /\ Hour(u) = 0 => Minute(u) < 0
      BY <1>3, <1>5, FirstMinute, BeforeTime
    <2>2. DayOf(t) <= DayOf(u) /\ DayOf(u) \in Nat /\ IsHour(Hour(u)) /\ IsMinute(Minute(u))
      BY <1>5, ClockOrder, ClockParts
    <2>3. Hour(u) \in Nat /\ Minute(u) \in Nat
      BY <2>2, Units DEF IsHour, IsMinute
    <2> QED
      BY <1>1, <2>1, <2>2, <2>3
  <1> QED
    BY <1>2, <1>4, <1>5

\* No minute of a day that does not match is lost by the skip to the next.
LEMMA DaySkips ==
  ASSUME NEW by, NEW e, Readable(e), Legal(e), NEW t, InCalendar(t), ~DayMatches(by, e, t),
         NEW u \in Nat, t <= u, u < Tomorrow(t)
  PROVE  ~Matches(e, u)
  <1>1. t \in Nat
    BY DEF InCalendar
  <1>2. DayOf(u) = DayOf(t)
    BY <1>1, TomorrowIs
  <1>3. ~DayMatches("scheduler", e, t)
    BY DayAgrees
  <1> QED
    BY <1>2, <1>3, SameDay DEF Matches

\* The next of some numbers.
LEMMA LaterOf ==
  ASSUME NEW S \in SUBSET Nat, NEW v \in Nat, Later(S, v) # {}
  PROVE  LET w == Min(Later(S, v)) IN
         w \in S /\ w \in Nat /\ v < w /\ \A x \in S : x <= v \/ w <= x
  <1>1. Later(S, v) \in SUBSET Nat
    BY DEF Later
  <1>2. Min(Later(S, v)) \in Later(S, v) /\ \A x \in Later(S, v) : Min(Later(S, v)) <= x
    BY <1>1, LeastOf
  <1>3. \A x \in S : x > v => x \in Later(S, v)
    BY DEF Later
  <1>4. \A x \in S : x \in Nat
    OBVIOUS
  <1> HIDE DEF Later
  <1>5. \A x \in S : x <= v \/ Min(Later(S, v)) <= x
    BY <1>2, <1>3, <1>4
  <1>6. Min(Later(S, v)) \in S /\ v < Min(Later(S, v))
    BY <1>2 DEF Later
  <1> QED
    BY <1>4, <1>5, <1>6

\* The skip to the next hour, where the rest of this one does not match.
LEMMA HourSkips ==
  ASSUME NEW by, NEW e, Readable(e), Legal(e), NEW t, InCalendar(t),
         NEW minute, IsMinute(minute), \A x \in Allowed("minutes", e["minutes"]) : minute <= x,
         \A u \in Nat : t <= u /\ DayOf(u) = DayOf(t) /\ Hour(u) = Hour(t) => ~Matches(e, u),
         NEW u \in Nat, t <= u, u < HourSkip(by, e, t, minute)
  PROVE  ~Matches(e, u)
  <1> DEFINE H == Allowed("hours", e["hours"])
             h == Hour(t)
             nh == Min(Later(H, h))
  <1>1. t \in Nat /\ DayOf(t) \in Nat /\ IsHour(h) /\ Midnight(t) = TimeOf(DayOf(t), 0, 0)
    BY ClockParts DEF InCalendar
  <1>2. H = Admits(by, e, "hours") /\ H \in SUBSET Nat /\ \A x \in H : IsHour(x)
    <2>1. H = Admits(by, e, "hours") /\ H \in SUBSET Values("hours") /\ H \in SUBSET Nat
      BY AdmitsSame DEF FieldNames
    <2>2. Values("hours") = 0..HoursPerDay - 1
      BY CalendarAssumption
    <2> QED
      BY <2>1, <2>2 DEF IsHour
  <1>3. h \in Nat /\ Hour(u) \in Nat /\ Minute(u) \in Nat /\ minute \in Nat
    BY <1>1, ClockParts, Units DEF IsHour, IsMinute
  <1>4. SUFFICES ASSUME Matches(e, u) PROVE FALSE
    OBVIOUS
  <1>5. Hour(u) \in H /\ Minute(u) \in Allowed("minutes", e["minutes"])
    BY <1>4 DEF Matches
  <1>6. DayOf(u) = DayOf(t) => h < Hour(u)
    <2>1. DayOf(u) = DayOf(t) => h <= Hour(u)
      BY <1>1, ClockOrder
    <2>2. DayOf(u) = DayOf(t) => Hour(u) # h
      BY <1>4
    <2> QED
      BY <1>3, <2>1, <2>2
  <1>7. CASE Later(H, h) = {}
    <2>1. HourSkip(by, e, t, minute) = Tomorrow(t)
      BY <1>2, <1>7 DEF HourSkip
    <2>2. DayOf(u) = DayOf(t)
      BY <1>1, <2>1, TomorrowIs
    <2> QED
      BY <1>3, <1>5, <1>6, <1>7, <2>2 DEF Later
  <1>8. CASE Later(H, h) # {}
    <2>1. nh \in H /\ nh \in Nat /\ h < nh /\ \A x \in H : x <= h \/ nh <= x
      BY <1>2, <1>3, <1>8, LaterOf
    <2>2. HourSkip(by, e, t, minute) = Midnight(t) + nh * MinutesPerHour + minute
      BY <1>2, <1>8 DEF HourSkip
    <2>3. IsHour(nh)
      BY <1>2, <2>1
    <2> HIDE DEF nh
    <2>4. HourSkip(by, e, t, minute) = TimeOf(DayOf(t), nh, minute)
      <3>1. TimeOf(DayOf(t), 0, 0) = DayOf(t) * DayLength
        BY <1>1, Units DEF TimeOf
      <3> QED
        BY <1>1, <2>2, <3>1 DEF TimeOf
    <2>5. /\ DayOf(u) <= DayOf(t)
          /\ DayOf(u) = DayOf(t) => Hour(u) <= nh
          /\ DayOf(u) = DayOf(t) /\ Hour(u) = nh => Minute(u) < minute
      BY <1>1, <2>3, <2>4, BeforeTime
    <2>6. DayOf(u) = DayOf(t)
      BY <1>1, <2>5, ClockOrder, ClockParts
    <2>7. h < Hour(u) /\ Hour(u) <= nh
      BY <1>6, <2>5, <2>6
    <2>8. Hour(u) = nh
      BY <1>3, <1>5, <2>1, <2>7
    <2>9. Minute(u) < minute /\ minute <= Minute(u)
      BY <1>5, <2>5, <2>6, <2>8
    <2> QED
      BY <1>3, <2>9
  <1> QED
    BY <1>7, <1>8

\* An hour that does not match.
LEMMA WrongHour ==
  ASSUME NEW by, NEW e, Readable(e), Legal(e), NEW t, InCalendar(t), Hour(t) \notin Admits(by, e, "hours"),
         NEW u \in Nat, t <= u, u < HourSkip(by, e, t, 0)
  PROVE  ~Matches(e, u)
  <1>1. Hour(t) \notin Allowed("hours", e["hours"])
    BY AdmitsSame DEF FieldNames
  <1>2. \A v \in Nat : t <= v /\ DayOf(v) = DayOf(t) /\ Hour(v) = Hour(t) => ~Matches(e, v)
    BY <1>1 DEF Matches
  <1>3. \A x \in Allowed("minutes", e["minutes"]) : 0 <= x
    <2>1. Allowed("minutes", e["minutes"]) \in SUBSET Nat
      BY AdmitsSame, DayTypes DEF FieldNames
    <2> QED
      BY <2>1
  <1> QED
    BY <1>2, <1>3, FirstMinute, HourSkips

\* A minute that does not match.
LEMMA WrongMinute ==
  ASSUME NEW by, NEW e, Readable(e), Legal(e), NEW t, InCalendar(t), Minute(t) \notin Admits(by, e, "minutes"),
         NEW u \in Nat, t <= u, u < MinuteSkip(by, e, t)
  PROVE  ~Matches(e, u)
  <1> DEFINE S == Allowed("minutes", e["minutes"])
             m == Minute(t)
             nm == Min(Later(S, m))
  <1>1. t \in Nat /\ DayOf(t) \in Nat /\ IsHour(Hour(t)) /\ IsMinute(m) /\ t = TimeOf(DayOf(t), Hour(t), m)
    BY ClockParts DEF InCalendar
  <1>2. S = Admits(by, e, "minutes") /\ S \in SUBSET Nat /\ S # {} /\ \A x \in S : IsMinute(x)
    <2>1. S = Admits(by, e, "minutes") /\ S \in SUBSET Values("minutes") /\ S \in SUBSET Nat /\ S # {}
      BY AdmitsSame DEF FieldNames
    <2>2. Values("minutes") = 0..MinutesPerHour - 1
      BY CalendarAssumption
    <2> QED
      BY <2>1, <2>2 DEF IsMinute
  <1>3. m \in Nat
    BY <1>1, Units DEF IsMinute
  <1>4. \A v \in Nat : t <= v /\ DayOf(v) = DayOf(t) /\ Hour(v) = Hour(t) => m <= Minute(v) /\ Minute(v) \in Nat
    <2>1. \A v \in Nat : Minute(v) \in Nat
      BY ClockParts, Units DEF IsMinute
    <2> QED
      BY <1>1, <2>1, ClockOrder
  <1>5. CASE Later(S, m) = {}
    <2> DEFINE minute == IF by = "scheduler" THEN Min(S) ELSE 0
    <2>1. MinuteSkip(by, e, t) = HourSkip(by, e, t, minute)
      BY <1>2, <1>5 DEF MinuteSkip
    <2>2. IsMinute(minute) /\ \A x \in S : minute <= x
      <3>1. Min(S) \in S /\ \A x \in S : Min(S) <= x
        BY <1>2, LeastOf
      <3>2. IsMinute(Min(S)) /\ \A x \in S : 0 <= x
        BY <1>2, <3>1
      <3> QED
        BY <3>1, <3>2, FirstMinute
    <2>3. \A v \in Nat : t <= v /\ DayOf(v) = DayOf(t) /\ Hour(v) = Hour(t) => ~Matches(e, v)
      <3> SUFFICES ASSUME NEW v \in Nat, t <= v, DayOf(v) = DayOf(t), Hour(v) = Hour(t), Matches(e, v) PROVE FALSE
        OBVIOUS
      <3>1. Minute(v) \in S /\ m <= Minute(v) /\ Minute(v) \in Nat
        BY <1>4 DEF Matches
      <3>2. Minute(v) # m
        BY <1>2, <3>1
      <3>3. Minute(v) \in Later(S, m)
        BY <1>3, <3>1, <3>2 DEF Later
      <3> QED
        BY <1>5, <3>3
    <2> HIDE DEF minute
    <2> QED
      BY <2>1, <2>2, <2>3, HourSkips
  <1>6. CASE Later(S, m) # {}
    <2>1. nm \in S /\ nm \in Nat /\ m < nm /\ \A x \in S : x <= m \/ nm <= x
      BY <1>2, <1>3, <1>6, LaterOf
    <2>2. MinuteSkip(by, e, t) = t - m + nm /\ IsMinute(nm)
      BY <1>2, <1>6, <2>1 DEF MinuteSkip
    <2> HIDE DEF nm
    <2>3. MinuteSkip(by, e, t) = TimeOf(DayOf(t), Hour(t), nm)
      <3> DEFINE x == DayOf(t) * DayLength + Hour(t) * MinutesPerHour
      <3>1. x \in Nat
        BY <1>1, Units DEF IsHour
      <3>2. t = x + m /\ TimeOf(DayOf(t), Hour(t), nm) = x + nm
        BY <1>1 DEF TimeOf
      <3> HIDE DEF x
      <3> QED
        BY <1>3, <2>1, <2>2, <3>1, <3>2
    <2>4. /\ DayOf(u) <= DayOf(t)
          /\ DayOf(u) = DayOf(t) => Hour(u) <= Hour(t)
          /\ DayOf(u) = DayOf(t) /\ Hour(u) = Hour(t) => Minute(u) < nm
      BY <1>1, <2>2, <2>3, BeforeTime
    <2>5. DayOf(u) = DayOf(t)
      BY <1>1, <2>4, ClockOrder, ClockParts
    <2>6. Hour(u) = Hour(t)
      <3>1. Hour(t) \in Nat /\ Hour(u) \in Nat
        BY <1>1, ClockParts, Units DEF IsHour
      <3> QED
        BY <1>1, <2>4, <2>5, <3>1, ClockOrder
    <2>7. m <= Minute(u) /\ Minute(u) < nm /\ Minute(u) \in Nat
      BY <1>4, <2>4, <2>5, <2>6
    <2>8. Minute(u) \notin S
      <3>1. m \notin S
        BY <1>2
      <3> QED
        BY <1>3, <2>1, <2>7, <3>1
    <2> QED
      BY <2>8 DEF Matches
  <1> QED
    BY <1>5, <1>6

-----------------------------------------------------------------------------
(* The skips of a search. *)

\* The month a search goes to.
LEMMA NextMonthIs ==
  ASSUME NEW by, NEW e, NEW t, InCalendar(t)
  PROVE  LET S == Admits(by, e, "months")  M == Date(t).month  m == NextMonth(by, e, t) IN
         /\ m \in Nat /\ S \in SUBSET Nat /\ M \in Nat
         /\ S # {} => m \in S
         /\ M < m => \A x \in S : x <= M \/ m <= x
         /\ M \notin S /\ S # {} /\ m <= M => \A x \in S : m <= x /\ x < M
  <1> DEFINE S == Admits(by, e, "months")
             M == Date(t).month
             m == NextMonth(by, e, t)
  <1>1. S \in SUBSET Nat /\ M \in Nat /\ \A x \in S : x \in Nat
    BY AdmitsSame, DateType DEF FieldNames
  <1> HIDE DEF S, M
  <1>2. CASE Later(S, M) # {}
    <2>1. m = Min(Later(S, M))
      BY <1>2 DEF NextMonth, S, M
    <2>2. m \in S /\ m \in Nat /\ M < m /\ \A x \in S : x <= M \/ m <= x
      BY <1>1, <1>2, <2>1, LaterOf
    <2> HIDE DEF m
    <2>3. ~(m <= M) /\ S # {}
      BY <1>1, <2>2
    <2> QED
      BY <1>1, <2>2, <2>3 DEF S, M, m
  <1>3. CASE Later(S, M) = {} /\ S # {}
    <2>1. m = Min(S)
      BY <1>3 DEF NextMonth, S, M
    <2>2. m \in S /\ \A x \in S : m <= x
      BY <1>1, <1>3, <2>1, LeastOf
    <2> HIDE DEF m
    <2>3. \A x \in S : x <= M
      BY <1>1, <1>3 DEF Later
    <2>4. M \notin S => \A x \in S : x < M
      BY <1>1, <2>3
    <2>5. m \in Nat /\ ~(M < m)
      BY <1>1, <2>2, <2>3
    <2> QED
      BY <1>1, <2>2, <2>4, <2>5 DEF S, M, m
  <1>4. CASE S = {}
    <2>1. m = 1
      BY <1>4 DEF NextMonth, Later, S, M
    <2> HIDE DEF m
    <2> QED
      BY <1>1, <1>4, <2>1 DEF S, M, m
  <1> QED
    BY <1>2, <1>3, <1>4

\* Between a time and the first of a month of the same year.
LEMMA UntilMonth ==
  ASSUME NEW t, InCalendar(t), NEW u \in Nat, t <= u, NEW i \in DOMAIN Days, u < TimeOf(i - 1, 0, 0),
         Days[i].year = Date(t).year
  PROVE  InCalendar(u) /\ Date(u).year = Date(t).year /\ Date(t).month <= Date(u).month
  <1>1. InCalendar(u) /\ NotLater(Date(t), Date(u)) /\ Sooner(Date(u), Days[i])
    BY UntilDay
  <1>2. /\ Date(t).year \in Nat /\ Date(t).month \in Nat /\ Date(u).year \in Nat /\ Date(u).month \in Nat
        /\ Days[i].year \in Nat
    BY <1>1, DateType, DayTypes
  <1>3. Date(u).year <= Date(t).year
    BY <1>1, <1>2 DEF Sooner
  <1>4. Date(t) = Date(u) \/ Sooner(Date(t), Date(u))
    BY <1>1 DEF NotLater
  <1> QED
    BY <1>1, <1>2, <1>3, <1>4 DEF Sooner

\* Between a time and the first of a month.
LEMMA UntilFirst ==
  ASSUME NEW t, InCalendar(t), NEW u \in Nat, t <= u, NEW i \in DOMAIN Days, u < TimeOf(i - 1, 0, 0),
         NEW y \in Nat, NEW m \in Nat, Days[i] = [year |-> y, month |-> m, day |-> 1]
  PROVE  Date(u).year < y \/ (Date(u).year = y /\ Date(u).month < m)
  <1>1. InCalendar(u) /\ Sooner(Date(u), Days[i])
    BY UntilDay
  <1>2. Date(u).year \in Nat /\ Date(u).month \in Nat /\ Date(u).day \in Nat \ {0}
    BY <1>1, DateType
  <1>3. Days[i].year = y /\ Days[i].month = m /\ Days[i].day = 1
    OBVIOUS
  <1> QED
    BY <1>1, <1>2, <1>3 DEF Sooner

\* The first of a later month is a later time.
LEMMA FirstIsLater ==
  ASSUME NEW t, InCalendar(t), NEW i \in DOMAIN Days, Sooner(Date(t), Days[i])
  PROVE  TimeOf(i - 1, 0, 0) \in Nat /\ t < TimeOf(i - 1, 0, 0)
  <1>1. Date(t) = Days[DayOf(t) + 1] /\ DayOf(t) + 1 \in DOMAIN Days /\ t \in Nat
    BY DateType DEF InCalendar
  <1>2. ~(i <= DayOf(t) + 1)
    <2> SUFFICES ASSUME i <= DayOf(t) + 1 PROVE FALSE
      OBVIOUS
    <2>1. Days[i] = Date(t) \/ Sooner(Days[i], Date(t))
      BY <1>1, DaysInOrder DEF NotLater
    <2>2. /\ Days[i].year \in Nat /\ Days[i].month \in Nat /\ Days[i].day \in Nat
          /\ Date(t).year \in Nat /\ Date(t).month \in Nat /\ Date(t).day \in Nat
      BY DayTypes, DateType
    <2> QED
      BY <2>1, <2>2 DEF Sooner
  <1>3. DayOf(t) \in Nat /\ IsHour(Hour(t)) /\ IsMinute(Minute(t)) /\ t = TimeOf(DayOf(t), Hour(t), Minute(t))
    BY <1>1, ClockParts
  <1>4. i - 1 \in Nat /\ DayOf(t) < i - 1
    BY <1>1, <1>2, <1>3, DayTypes
  <1> QED
    BY <1>3, <1>4, TimesInOrder, FirstMinute

\* The skip of the scheduler leads to the first of a later month, or nowhere.
LEMMA ScheduledMonthIs ==
  ASSUME NEW e, NEW t, InCalendar(t)
  PROVE  LET m == NextMonth("scheduler", e, t) IN
         \/ ScheduledMonth(e, t) = t
         \/ \E i \in DOMAIN Days, y \in Nat :
              /\ ScheduledMonth(e, t) = TimeOf(i - 1, 0, 0) /\ Days[i] = [year |-> y, month |-> m, day |-> 1]
              /\ \/ y = Date(t).year + 1 /\ m <= Date(t).month
                 \/ y = Date(t).year /\ Date(t).month < m
  <1> DEFINE m == NextMonth("scheduler", e, t)
             y == Date(t).year
  <1>1. m \in Nat /\ Date(t).month \in Nat /\ y \in Nat /\ y + 1 \in Nat
    BY NextMonthIs, DateType
  <1>2. CASE m <= Date(t).month
    <2>1. ScheduledMonth(e, t) = OnDate(y + 1, m, 1, t)
      BY <1>2 DEF ScheduledMonth
    <2> QED
      BY <1>1, <1>2, <2>1, OnDateIs
  <1>3. CASE Date(t).month < m
    <2>1. ScheduledMonth(e, t) = t \/ ScheduledMonth(e, t) = OnDate(y, m, 1, t)
      BY <1>1, <1>3 DEF ScheduledMonth
    <2> QED
      BY <1>1, <1>3, <2>1, OnDateIs
  <1> QED
    BY <1>1, <1>2, <1>3

\* The skip of the hooks leads to the first of a month of the same year, to the long jump, or nowhere.
LEMMA HookMonthIs ==
  ASSUME NEW e, NEW t, InCalendar(t)
  PROVE  LET m == NextMonth("hooks", e, t) IN
         \/ HookMonth(e, t) = t
         \/ \E i \in DOMAIN Days :
              /\ HookMonth(e, t) = TimeOf(i - 1, 0, 0) /\ Days[i].year = Date(t).year
              /\ m <= Date(t).month \/ (Days[i].month = m /\ Days[i].day = 1)
  <1> DEFINE m == NextMonth("hooks", e, t)
             y == Date(t).year
             jump == OnDate(y, 1, 1, t) + LongJump * DayLength
             start == IF m <= Date(t).month THEN jump ELSE t
  <1>1. m \in Nat /\ Date(t).month \in Nat
    BY NextMonthIs, DateType
  <1>2. InCalendar(jump) /\ Date(jump).year = y /\ \E k \in DOMAIN Days : jump = TimeOf(k - 1, 0, 0) /\ Days[k].year = y
    BY JumpFrom
  <1> HIDE DEF m, jump
  <1>3. /\ Date(start).year = y
        /\ start = t \/ (m <= Date(t).month /\ \E k \in DOMAIN Days : start = TimeOf(k - 1, 0, 0) /\ Days[k].year = y)
    BY <1>2
  <1>4. HookMonth(e, t) = start \/ HookMonth(e, t) = OnDate(y, m, 1, start)
    <2>1. HookMonth(e, t) = IF Dated(Date(start).year, m, SafeDay) = {} THEN start ELSE OnDate(Date(start).year, m, 1, start)
      BY DEF HookMonth, m, jump
    <2> QED
      BY <1>3, <2>1
  <1> HIDE DEF start
  <1>5. \/ OnDate(y, m, 1, start) = start
        \/ \E i \in DOMAIN Days : OnDate(y, m, 1, start) = TimeOf(i - 1, 0, 0) /\ Days[i] = [year |-> y, month |-> m, day |-> 1]
    BY OnDateIs
  <1>6. HookMonth(e, t) = start => (\/ HookMonth(e, t) = t
                                    \/ m <= Date(t).month /\ \E k \in DOMAIN Days : HookMonth(e, t) = TimeOf(k - 1, 0, 0) /\ Days[k].year = y)
    BY <1>3
  <1>7. \A i \in DOMAIN Days : Days[i] = [year |-> y, month |-> m, day |-> 1] =>
          Days[i].year = y /\ Days[i].month = m /\ Days[i].day = 1
    OBVIOUS
  <1> DEFINE to == HookMonth(e, t)
  <1>8. \/ to = t
        \/ \E i \in DOMAIN Days : to = TimeOf(i - 1, 0, 0) /\ Days[i].year = y /\ (m <= Date(t).month \/ (Days[i].month = m /\ Days[i].day = 1))
    <2> HIDE DEF to, y
    <2>1. to = HookMonth(e, t)
      BY DEF to
    <2>2. CASE to = start
      BY <1>6, <2>1, <2>2 DEF y
    <2>3. CASE to # start
      <3>1. PICK i \in DOMAIN Days : to = TimeOf(i - 1, 0, 0) /\ Days[i] = [year |-> y, month |-> m, day |-> 1]
        BY <1>4, <1>5, <2>1, <2>3
      <3>2. Days[i].year = y /\ Days[i].month = m /\ Days[i].day = 1
        BY <1>7, <3>1
      <3> QED
        BY <3>1, <3>2
    <2> QED
      BY <2>2, <2>3
  <1> QED
    BY <1>8 DEF m

\* A month that does not match.
LEMMA WrongMonth ==
  ASSUME NEW by, NEW e, Readable(e), Legal(e), NEW t, InCalendar(t), Date(t).month \notin Admits(by, e, "months"),
         NEW u \in Nat, t <= u, u < MonthSkip(by, e, t)
  PROVE  ~Matches(e, u)
  <1> DEFINE S == Admits(by, e, "months")
             M == Date(t).month
  <1>1. S = Allowed("months", e["months"]) /\ S # {}
    BY AdmitsSame DEF FieldNames
  <1>2. M \in Nat /\ Date(t).year \in Nat /\ S \in SUBSET Nat /\ t \in Nat
    BY NextMonthIs, DateType DEF InCalendar
  <1>3. SUFFICES ASSUME Matches(e, u) PROVE FALSE
    OBVIOUS
  <1>4. Date(u).month \in S
    BY <1>1, <1>3 DEF Matches
  <1>5. CASE by = "scheduler"
    <2> DEFINE m == NextMonth("scheduler", e, t)
    <2>1. /\ m \in Nat /\ m \in S
          /\ M < m => \A x \in S : x <= M \/ m <= x
          /\ m <= M => \A x \in S : m <= x /\ x < M
      BY <1>1, <1>5, NextMonthIs
    <2>2. ScheduledMonth(e, t) # t /\ u < ScheduledMonth(e, t)
      BY <1>2, <1>5 DEF MonthSkip
    <2>3. PICK i \in DOMAIN Days, y \in Nat :
              /\ ScheduledMonth(e, t) = TimeOf(i - 1, 0, 0) /\ Days[i] = [year |-> y, month |-> m, day |-> 1]
              /\ \/ y = Date(t).year + 1 /\ m <= Date(t).month
                 \/ y = Date(t).year /\ Date(t).month < m
      BY <2>2, ScheduledMonthIs
    <2> HIDE DEF m
    <2>4. Date(u).year < y \/ (Date(u).year = y /\ Date(u).month < m)
      BY <2>1, <2>2, <2>3, UntilFirst
    <2>5. InCalendar(u) /\ (Date(t) = Date(u) \/ Sooner(Date(t), Date(u)))
      BY <2>2, <2>3, UntilDay DEF NotLater
    <2>6. Date(u).year \in Nat /\ Date(u).month \in Nat
      BY <2>5, DateType
    <2>7. Date(t).year < Date(u).year \/ (Date(t).year = Date(u).year /\ M <= Date(u).month)
      BY <1>2, <2>5, <2>6 DEF Sooner
    <2>8. CASE y = Date(t).year + 1 /\ m <= M
      <3>1. m <= Date(u).month /\ Date(u).month < M
        BY <1>4, <2>1, <2>8
      <3> QED
        BY <1>2, <2>1, <2>4, <2>6, <2>7, <2>8, <3>1
    <2>9. CASE y = Date(t).year /\ M < m
      <3>1. Date(u).month <= M \/ m <= Date(u).month
        BY <1>4, <2>1, <2>9
      <3>2. Date(u).month # M
        BY <1>4
      <3> QED
        BY <1>2, <2>1, <2>4, <2>6, <2>7, <2>9, <3>1, <3>2
    <2> QED
      BY <2>3, <2>8, <2>9
  <1>6. CASE by # "scheduler"
    <2> DEFINE m == NextMonth("hooks", e, t)
    <2>1. Admits("hooks", e, "months") = S
      BY <1>1, AdmitsSame DEF FieldNames
    <2>2. /\ m \in Nat /\ m \in S
          /\ M < m => \A x \in S : x <= M \/ m <= x
          /\ m <= M => \A x \in S : m <= x /\ x < M
      BY <1>1, <2>1, NextMonthIs
    <2>3. HookMonth(e, t) # t /\ u < HookMonth(e, t)
      BY <1>2, <1>6 DEF MonthSkip
    <2>4. PICK i \in DOMAIN Days :
              /\ HookMonth(e, t) = TimeOf(i - 1, 0, 0) /\ Days[i].year = Date(t).year
              /\ m <= Date(t).month \/ (Days[i].month = m /\ Days[i].day = 1)
      BY <2>3, HookMonthIs
    <2> HIDE DEF m
    <2>5. InCalendar(u) /\ Date(u).year = Date(t).year /\ M <= Date(u).month
      BY <2>3, <2>4, UntilMonth
    <2>6. Date(u).year \in Nat /\ Date(u).month \in Nat /\ Date(u).day \in Nat \ {0}
      BY <2>5, DateType
    <2>7. CASE m <= M
      <3>1. Date(u).month < M
        BY <1>4, <2>2, <2>7
      <3> QED
        BY <1>2, <2>5, <2>6, <3>1
    <2>8. CASE M < m /\ Days[i].month = m /\ Days[i].day = 1
      <3>1. Sooner(Date(u), Days[i])
        BY <2>3, <2>4, UntilDay
      <3>2. Date(u).month < m
        BY <1>2, <2>2, <2>4, <2>5, <2>6, <2>8, <3>1 DEF Sooner
      <3>3. Date(u).month <= M \/ m <= Date(u).month
        BY <1>4, <2>2, <2>8
      <3>4. Date(u).month # M
        BY <1>4
      <3> QED
        BY <1>2, <2>2, <2>5, <2>6, <3>2, <3>3, <3>4
    <2> QED
      BY <1>2, <2>2, <2>4, <2>7, <2>8
  <1> QED
    BY <1>5, <1>6

\* No match is lost by a skip.
LEMMA SkipsLoseNothing ==
  ASSUME NEW by, NEW e, Readable(e), Legal(e), NEW t, InCalendar(t), Unmet(by, e, t) # "none",
         NEW u \in Nat, t <= u, u < Moved(by, e, t)
  PROVE  ~Matches(e, u)
  <1>1. CASE Unmet(by, e, t) = "month"
    <2>1. Date(t).month \notin Admits(by, e, "months")
      BY <1>1 DEF Unmet
    <2> QED
      BY <1>1, <2>1, WrongMonth DEF Moved, Corrected
  <1>2. CASE Unmet(by, e, t) = "day"
    <2>1. ~DayMatches(by, e, t)
      BY <1>2 DEF Unmet
    <2> QED
      BY <1>2, <2>1, DaySkips DEF Moved, Corrected
  <1>3. CASE Unmet(by, e, t) = "hour"
    <2>1. Hour(t) \notin Admits(by, e, "hours")
      BY <1>3 DEF Unmet
    <2> QED
      BY <1>3, <2>1, WrongHour DEF Moved, Corrected
  <1>4. CASE Unmet(by, e, t) = "minute"
    <2>1. Minute(t) \notin Admits(by, e, "minutes")
      BY <1>4 DEF Unmet
    <2> QED
      BY <1>4, <2>1, WrongMinute DEF Moved, Corrected
  <1>5. Unmet(by, e, t) \in {"month", "day", "hour", "minute", "none"}
    BY DEF Unmet
  <1> QED
    BY <1>1, <1>2, <1>3, <1>4, <1>5

\* The skip to the next hour leads on.
LEMMA HourSkipOn ==
  ASSUME NEW by, NEW e, NEW t \in Nat, NEW minute, IsMinute(minute)
  PROVE  HourSkip(by, e, t, minute) \in Nat /\ t < HourSkip(by, e, t, minute)
  <1> DEFINE H == Admits(by, e, "hours")
             h == Hour(t)
             nh == Min(Later(H, h))
  <1>1. DayOf(t) \in Nat /\ IsHour(h) /\ IsMinute(Minute(t)) /\ t = TimeOf(DayOf(t), h, Minute(t)) /\ Midnight(t) = TimeOf(DayOf(t), 0, 0)
    BY ClockParts
  <1>2. H \in SUBSET Nat /\ \A x \in H : IsHour(x)
    <2>1. H \in SUBSET Values("hours") /\ H \in SUBSET Nat
      BY AdmitsSame DEF FieldNames
    <2>2. Values("hours") = 0..HoursPerDay - 1
      BY CalendarAssumption
    <2> QED
      BY <2>1, <2>2 DEF IsHour
  <1>3. h \in Nat /\ minute \in Nat
    BY <1>1, Units DEF IsHour, IsMinute
  <1>4. CASE Later(H, h) = {}
    <2>1. HourSkip(by, e, t, minute) = Tomorrow(t)
      BY <1>4 DEF HourSkip
    <2> QED
      BY <2>1, TomorrowIs
  <1>5. CASE Later(H, h) # {}
    <2>1. nh \in H /\ nh \in Nat /\ h < nh
      BY <1>2, <1>3, <1>5, LaterOf
    <2>2. HourSkip(by, e, t, minute) = Midnight(t) + nh * MinutesPerHour + minute
      BY <1>5 DEF HourSkip
    <2>3. IsHour(nh)
      BY <1>2, <2>1
    <2> HIDE DEF nh, H
    <2>4. HourSkip(by, e, t, minute) = TimeOf(DayOf(t), nh, minute)
      <3>1. TimeOf(DayOf(t), 0, 0) = DayOf(t) * DayLength
        BY <1>1, Units DEF TimeOf
      <3> QED
        BY <1>1, <2>2, <3>1 DEF TimeOf
    <2> QED
      BY <1>1, <2>1, <2>3, <2>4, TimesInOrder
  <1> QED
    BY <1>4, <1>5

\* A minute is a time, and every skip leads to one; the scheduler never goes back.
LEMMA MovedOn ==
  ASSUME NEW by, NEW e, NEW t, InCalendar(t), by = "hooks" \/ (by = "scheduler" /\ Readable(e) /\ Legal(e))
  PROVE  Moved(by, e, t) \in Nat /\ (by = "scheduler" => t <= Moved(by, e, t))
  <1>1. t \in Nat
    BY DEF InCalendar
  <1>2. MonthSkip(by, e, t) \in Nat /\ (by = "scheduler" => t <= MonthSkip(by, e, t))
    <2>1. CASE by = "hooks"
      <3>1. MonthSkip(by, e, t) = HookMonth(e, t)
        BY <2>1 DEF MonthSkip
      <3>2. HookMonth(e, t) = t \/ \E i \in DOMAIN Days : HookMonth(e, t) = TimeOf(i - 1, 0, 0)
        BY HookMonthIs
      <3>3. \A i \in DOMAIN Days : TimeOf(i - 1, 0, 0) \in Nat
        <4>1. \A i \in DOMAIN Days : i - 1 \in Nat
          BY DayTypes
        <4> QED
          BY <4>1, DayOfTime, FirstMinute
      <3> QED
        BY <1>1, <2>1, <3>1, <3>2, <3>3
    <2>2. CASE by = "scheduler"
      <3> DEFINE m == NextMonth("scheduler", e, t)
      <3>1. MonthSkip(by, e, t) = ScheduledMonth(e, t)
        BY <2>2 DEF MonthSkip
      <3>2. m \in Nat /\ Date(t).month \in Nat /\ Date(t).year \in Nat
        BY NextMonthIs, DateType
      <3>3. \/ ScheduledMonth(e, t) = t
            \/ \E i \in DOMAIN Days, y \in Nat :
                 /\ ScheduledMonth(e, t) = TimeOf(i - 1, 0, 0) /\ Days[i] = [year |-> y, month |-> m, day |-> 1]
                 /\ \/ y = Date(t).year + 1 /\ m <= Date(t).month
                    \/ y = Date(t).year /\ Date(t).month < m
        BY ScheduledMonthIs
      <3> HIDE DEF m
      <3>4. ASSUME NEW i \in DOMAIN Days, NEW y \in Nat, ScheduledMonth(e, t) = TimeOf(i - 1, 0, 0),
                   Days[i] = [year |-> y, month |-> m, day |-> 1],
                   \/ y = Date(t).year + 1 /\ m <= Date(t).month
                   \/ y = Date(t).year /\ Date(t).month < m
            PROVE  ScheduledMonth(e, t) \in Nat /\ t <= ScheduledMonth(e, t)
        <4>1. Days[i].year = y /\ Days[i].month = m
          BY <3>4
        <4>2. Sooner(Date(t), Days[i])
          BY <3>2, <3>4, <4>1 DEF Sooner
        <4>3. TimeOf(i - 1, 0, 0) \in Nat /\ t < TimeOf(i - 1, 0, 0)
          BY <4>2, FirstIsLater
        <4> QED
          BY <1>1, <3>4, <4>3
      <3> QED
        BY <1>1, <3>1, <3>3, <3>4
    <2> QED
      BY <2>1, <2>2
  <1>3. Tomorrow(t) \in Nat /\ t <= Tomorrow(t)
    BY <1>1, TomorrowIs
  <1>4. HourSkip(by, e, t, 0) \in Nat /\ t <= HourSkip(by, e, t, 0)
    BY <1>1, HourSkipOn, FirstMinute
  <1>5. MinuteSkip(by, e, t) \in Nat /\ t <= MinuteSkip(by, e, t)
    <2> DEFINE S == Admits(by, e, "minutes")
               m == Minute(t)
    <2>1. S \in SUBSET Nat /\ \A x \in S : IsMinute(x)
      <3>1. S \in SUBSET Values("minutes") /\ S \in SUBSET Nat
        BY AdmitsSame DEF FieldNames
      <3>2. Values("minutes") = 0..MinutesPerHour - 1
        BY CalendarAssumption
      <3> QED
        BY <3>1, <3>2 DEF IsMinute
    <2>2. m \in Nat /\ m <= t
      <3> DEFINE x == DayOf(t) * DayLength + Hour(t) * MinutesPerHour
      <3>1. DayOf(t) \in Nat /\ IsHour(Hour(t)) /\ IsMinute(m) /\ t = x + m
        BY <1>1, ClockParts DEF TimeOf
      <3>2. x \in Nat /\ m \in Nat
        BY <3>1, Units DEF IsHour, IsMinute
      <3> HIDE DEF x, m
      <3> QED
        BY <3>1, <3>2
    <2>3. CASE Later(S, m) # {}
      <3>1. Min(Later(S, m)) \in Nat /\ m < Min(Later(S, m))
        BY <2>1, <2>2, <2>3, LaterOf
      <3>2. MinuteSkip(by, e, t) = t - m + Min(Later(S, m))
        BY <2>3 DEF MinuteSkip
      <3> HIDE DEF m, S
      <3> QED
        BY <1>1, <2>2, <3>1, <3>2
    <2>4. CASE Later(S, m) = {}
      <3> DEFINE minute == IF by = "scheduler" THEN Min(S) ELSE 0
      <3>1. MinuteSkip(by, e, t) = HourSkip(by, e, t, minute)
        BY <2>4 DEF MinuteSkip
      <3>2. by = "scheduler" => S # {}
        BY AdmitsSame DEF FieldNames
      <3>3. S # {} => IsMinute(Min(S))
        BY <2>1, LeastOf
      <3>4. IsMinute(minute)
        BY <3>2, <3>3, FirstMinute
      <3> HIDE DEF minute
      <3> QED
        BY <1>1, <3>1, <3>4, HourSkipOn
    <2> QED
      BY <2>3, <2>4
  <1> QED
    BY <1>2, <1>3, <1>4, <1>5 DEF Moved, Corrected

\* Rounds goes from one round to the next.
LEMMA RoundsGo ==
  ASSUME NEW e, NEW start, NEW until
  PROVE  LET r == Rounds(e, start, until) IN
         /\ MaxRounds \in Nat /\ r[0] = start
         /\ \A n \in 1..MaxRounds :
              r[n] = IF r[n - 1] > until \/ Unmet("hooks", e, r[n - 1]) = "none" THEN r[n - 1] ELSE Moved("hooks", e, r[n - 1])
  <1> DEFINE Round(t) == IF t > until \/ Unmet("hooks", e, t) = "none" THEN t ELSE Moved("hooks", e, t)
             From(k, g) == g = [i \in 0..k |-> IF i = 0 THEN start ELSE Round(g[i - 1])]
             Short(k) == \E g : From(k, g)
  <1>1. MaxRounds \in Nat
    BY StartsAssumption
  <1>2. Short(0)
    <2>1. From(0, [i \in 0..0 |-> start])
      OBVIOUS
    <2> QED
      BY <2>1
  <1> HIDE DEF Next
  <1>3. ASSUME NEW k \in 1..MaxRounds, Short(k - 1) PROVE Short(k)
    <2>1. PICK g : From(k - 1, g)
      BY <1>3
    <2> DEFINE h == [i \in 0..k |-> IF i = k THEN Round(g[k - 1]) ELSE g[i]]
    <2>2. k \in Nat /\ k - 1 \in Nat /\ DOMAIN g = 0..(k - 1)
      BY <1>1, <2>1
    <2>3. ASSUME NEW i \in 0..k PROVE h[i] = IF i = 0 THEN start ELSE Round(h[i - 1])
      <3>1. CASE i = k
        <4>1. h[i] = Round(g[k - 1]) /\ h[i - 1] = g[k - 1] /\ i # 0
          BY <1>1, <3>1
        <4> QED
          BY <3>1, <4>1
      <3>2. CASE i # k
        <4>1. i \in 0..(k - 1) /\ h[i] = g[i]
          BY <1>1, <3>2
        <4>2. g[i] = IF i = 0 THEN start ELSE Round(g[i - 1])
          BY <2>1, <4>1
        <4>3. i # 0 => h[i - 1] = g[i - 1]
          BY <1>1, <4>1
        <4> QED
          BY <4>1, <4>2, <4>3
      <3> QED
        BY <3>1, <3>2
    <2>4. From(k, h)
      <3>1. h = [i \in 0..k |-> h[i]]
        OBVIOUS
      <3> HIDE DEF h
      <3> QED
        BY <2>3, <3>1
    <2> QED
      BY <2>4
  <1>4. Short(MaxRounds)
    <2> DEFINE bad == {k \in 0..MaxRounds : ~Short(k)}
    <2>1. bad \in SUBSET Nat /\ \A k \in bad : k \in 0..MaxRounds
      BY <1>1
    <2>2. ASSUME bad # {} PROVE FALSE
      <3>1. PICK k \in bad : \A j \in bad : k <= j
        BY <2>1, <2>2, LeastNumber
      <3>2. k \in 0..MaxRounds /\ ~Short(k)
        OBVIOUS
      <3>3. k # 0
        BY <1>2, <3>2
      <3>4. k \in 1..MaxRounds /\ k - 1 \in 0..MaxRounds /\ ~(k <= k - 1)
        BY <1>1, <3>2, <3>3
      <3>5. Short(k - 1)
        BY <3>1, <3>4
      <3> QED
        BY <1>3, <3>2, <3>4, <3>5
    <2>3. MaxRounds \in 0..MaxRounds
      BY <1>1
    <2> HIDE DEF Short
    <2> QED
      BY <2>2, <2>3
  <1> DEFINE f == CHOOSE g : From(MaxRounds, g)
  <1>5. From(MaxRounds, f)
    BY <1>4, Zenon
  <1>6. Rounds(e, start, until) = f
    BY Zenon DEF Rounds, Next
  <1> HIDE DEF f
  <1>7. \A i \in 0..MaxRounds : f[i] = IF i = 0 THEN start ELSE Round(f[i - 1])
    BY <1>5
  <1>8. f[0] = start /\ \A i \in 1..MaxRounds : f[i] = Round(f[i - 1])
    BY <1>1, <1>7
  <1> QED
    BY <1>1, <1>6, <1>8 DEF Next

\* No minute in from..to - 1 matches.
NoneFrom(e, from, to) == \A u \in Nat : from <= u /\ u < to => ~Matches(e, u)

\* The answer of a whole search of the hooks.
LEMMA SoughtExact ==
  ASSUME NEW e, Readable(e), NEW start \in Nat, NEW until \in Nat, \A t \in Nat : t <= until => InCalendar(t)
  PROVE  LET s == Sought(e, start, until) IN
         /\ s.is \in {"none", "time", "never ends"} /\ s.at \in Nat /\ (s.is = "time" => s.at <= until)
         /\ Legal(e) /\ s.is = "time" => NoneFrom(e, start, s.at)
         /\ Legal(e) /\ s.is = "none" => NoneFrom(e, start, until + 1)
  <1> DEFINE r == Rounds(e, start, until)
             Good(t) == t \in Nat /\ (Legal(e) => NoneFrom(e, start, t))
  <1>1. MaxRounds \in Nat /\ r[0] = start
    BY RoundsGo
  <1>2. \A n \in 1..MaxRounds :
          r[n] = IF r[n - 1] > until \/ Unmet("hooks", e, r[n - 1]) = "none" THEN r[n - 1] ELSE Moved("hooks", e, r[n - 1])
    BY RoundsGo
  <1> HIDE DEF r
  <1>3. Good(start)
    BY DEF NoneFrom
  <1>4. ASSUME NEW t, Good(t), ~(t > until), Unmet("hooks", e, t) # "none" PROVE Good(Moved("hooks", e, t))
    <2>1. t \in Nat /\ InCalendar(t)
      BY <1>4
    <2>2. Moved("hooks", e, t) \in Nat
      BY <2>1, MovedOn
    <2>3. ASSUME Legal(e) PROVE NoneFrom(e, start, Moved("hooks", e, t))
      <3> SUFFICES ASSUME NEW u \in Nat, start <= u, u < Moved("hooks", e, t) PROVE ~Matches(e, u)
        BY DEF NoneFrom
      <3>1. CASE u < t
        BY <1>4, <2>3, <3>1 DEF NoneFrom
      <3>2. CASE t <= u
        BY <1>4, <2>1, <2>3, <3>2, SkipsLoseNothing
      <3> QED
        BY <2>1, <3>1, <3>2
    <2> QED
      BY <2>2, <2>3
  <1>5. ASSUME NEW n \in 1..MaxRounds, Good(r[n - 1]) PROVE Good(r[n])
    <2> HIDE DEF Good
    <2>1. CASE r[n - 1] > until \/ Unmet("hooks", e, r[n - 1]) = "none"
      BY <1>2, <1>5, <2>1
    <2>2. CASE ~(r[n - 1] > until \/ Unmet("hooks", e, r[n - 1]) = "none")
      <3>1. r[n] = Moved("hooks", e, r[n - 1])
        BY <1>2, <2>2
      <3>2. Good(Moved("hooks", e, r[n - 1]))
        BY <1>4, <1>5, <2>2
      <3> QED
        BY <3>1, <3>2
    <2> QED
      BY <2>1, <2>2
  <1>6. Good(r[MaxRounds])
    <2> DEFINE bad == {k \in 0..MaxRounds : ~Good(r[k])}
    <2> HIDE DEF Good
    <2>1. bad \in SUBSET Nat /\ \A k \in bad : k \in 0..MaxRounds
      BY <1>1
    <2>2. ASSUME bad # {} PROVE FALSE
      <3>1. PICK k \in bad : \A j \in bad : k <= j
        BY <2>1, <2>2, LeastNumber
      <3>2. k \in 0..MaxRounds /\ ~Good(r[k])
        OBVIOUS
      <3>3. k # 0
        BY <1>1, <1>3, <3>2
      <3>4. k \in 1..MaxRounds /\ k - 1 \in 0..MaxRounds /\ ~(k <= k - 1)
        BY <1>1, <3>2, <3>3
      <3>5. Good(r[k - 1])
        BY <3>1, <3>4
      <3> QED
        BY <1>5, <3>2, <3>4, <3>5
    <2>3. MaxRounds \in 0..MaxRounds
      BY <1>1
    <2> QED
      BY <2>2, <2>3
  <1> DEFINE t == r[MaxRounds]
             s == Sought(e, start, until)
  <1>7. s = IF t > until THEN [is |-> "none", at |-> 0]
            ELSE [is |-> IF Unmet("hooks", e, t) = "none" THEN "time" ELSE "never ends", at |-> t]
    BY DEF Sought, SoughtAt, r
  <1>8. t \in Nat /\ (Legal(e) => NoneFrom(e, start, t))
    BY <1>6
  <1> HIDE DEF t, s
  <1>9. CASE t > until
    <2>1. s.is = "none" /\ s.is # "time" /\ s.at = 0
      BY <1>7, <1>9
    <2>2. NoneFrom(e, start, t) => NoneFrom(e, start, until + 1)
      BY <1>8, <1>9 DEF NoneFrom
    <2> QED
      BY <1>8, <2>1, <2>2 DEF s
  <1>10. CASE ~(t > until)
    <2>1. s.is \in {"time", "never ends"} /\ s.at = t
      BY <1>7, <1>10
    <2>2. t <= until
      <3>1. t \in Nat
        BY <1>8
      <3> QED
        BY <1>10, <3>1
    <2> QED
      BY <1>8, <2>1, <2>2 DEF s
  <1> QED
    BY <1>9, <1>10

\* The calendar holds every minute before its end.
LEMMA BeforeTheEnd ==
  ASSUME NEW t \in Nat, t < Len(Days) * DayLength
  PROVE  InCalendar(t)
  <1> DEFINE d == DayOf(t)
             n == Len(Days)
             x == d * DayLength
  <1>1. d \in Nat /\ t % DayLength \in 0..DayLength - 1 /\ t = x + (t % DayLength) /\ n \in Nat /\ DayLength \in Nat
    BY Units, Quotient, DayTypes DEF DayOf
  <1>2. x \in Nat /\ n * DayLength \in Nat
    BY <1>1
  <1>3. x <= t
    <2> HIDE DEF x
    <2> QED
      BY <1>1, <1>2
  <1>4. n < d => n * DayLength + DayLength <= x
    BY <1>1, Multiples
  <1>5. d < n
    <2>1. CASE n < d
      <3> DEFINE y == n * DayLength
      <3>1. y \in Nat /\ y + DayLength <= x /\ t < y
        BY <1>2, <1>4, <2>1
      <3> HIDE DEF x, y
      <3> QED
        BY <1>1, <1>2, <1>3, <3>1
    <2>2. CASE n = d
      <3>1. t < x
        BY <2>2
      <3> HIDE DEF x
      <3> QED
        BY <1>2, <1>3, <3>1
    <2> HIDE DEF d, n, x
    <2> QED
      BY <1>1, <2>1, <2>2
  <1>6. d + 1 \in 1..n
    BY <1>1, <1>5
  <1> QED
    BY <1>6, DayTypes DEF InCalendar

\* The last of the starts.
LastStart == Max(Starts)
\* No search that is started leaves the calendar.
LEMMA HowFar ==
  /\ LastStart \in Starts /\ LastStart \in Nat /\ LastStart > 1 /\ \A t \in Starts : t \in Nat /\ t <= LastStart
  /\ MaxPolls \in Nat /\ MaxPolls * DayLength \in Nat /\ SearchDays * DayLength \in Nat
  /\ \A after \in Nat : after <= LastStart + MaxPolls * DayLength =>
       Deadline(after) \in Nat /\ \A t \in Nat : t <= Deadline(after) => InCalendar(t)
  <1>1. \E s \in Starts : s > 1 /\ \A t \in Starts : t <= s
    BY StartsAssumption
  <1>2. Starts \in SUBSET Nat /\ MaxPolls \in Nat /\ MaxRounds \in Nat
    BY StartsAssumption
  <1>3. LastStart \in Starts /\ \A t \in Starts : LastStart >= t
    <2>1. \E s \in Starts : \A t \in Starts : s >= t
      BY <1>1, <1>2
    <2> QED
      BY <2>1, Zenon DEF LastStart, Max
  <1>4. LastStart \in Nat /\ LastStart > 1 /\ \A t \in Starts : t \in Nat /\ t <= LastStart
    BY <1>1, <1>2, <1>3
  <1>5. MaxPolls * DayLength \in Nat /\ SearchDays * DayLength \in Nat /\ Len(Days) * DayLength \in Nat
    BY <1>2, Units, DayTypes
  <1> DEFINE x == MaxPolls * DayLength
             y == SearchDays * DayLength
             z == Len(Days) * DayLength
  <1>6. LastStart + x + y < z
    BY StartsAssumption DEF Deadline, LastStart
  <1>7. ASSUME NEW after \in Nat, after <= LastStart + x
        PROVE  Deadline(after) \in Nat /\ \A t \in Nat : t <= Deadline(after) => t < z
    <2>1. Deadline(after) = after + y
      BY DEF Deadline
    <2>2. x \in Nat /\ y \in Nat /\ z \in Nat /\ LastStart \in Nat
      BY <1>4, <1>5
    <2> HIDE DEF x, y, z
    <2> QED
      BY <1>6, <1>7, <2>1, <2>2
  <1>8. \A t \in Nat : t < z => InCalendar(t)
    BY BeforeTheEnd
  <1> QED
    BY <1>2, <1>3, <1>4, <1>5, <1>7, <1>8

-----------------------------------------------------------------------------
(* The searches. *)
SearchInv ==
  /\ asked \in [field : FieldNames, text : FieldTexts]
  /\ search \in [by : {"scheduler", "hooks"}, cron : Expressions, from : Starts, at : Nat]
  /\ search.by = "scheduler" => Legal(search.cron) /\ search.from < search.at
  /\ Legal(search.cron) => NoneFrom(search.cron, search.from + 1, search.at)
  /\ found \in [is : {"nothing", "time", "given up", "none"}, at : Nat]
  /\ found.is = "time" => found.at = search.at /\ Unmet(search.by, search.cron, search.at) = "none"
  /\ found.is \in {"given up", "none"} => search.at > Deadline(search.from)

\* Expressions can be read.
LEMMA AllReadable == \A e \in Expressions \cup HookExpressions : Readable(e)
  BY TextsAssumption DEF Readable

\* What is kept of a search says that its result is exact.
LEMMA SearchHolds == SearchInv => FieldsAgree(asked.field, asked.text) /\ NextExact
  <1> SUFFICES ASSUME SearchInv PROVE FieldsAgree(asked.field, asked.text) /\ NextExact
    OBVIOUS
  <1> DEFINE by == search.by
             e == search.cron
             from == search.from
             at == search.at
  <1>1. by \in {"scheduler", "hooks"} /\ e \in Expressions /\ from \in Starts /\ at \in Nat
    BY DEF SearchInv
  <1>2. from \in Nat /\ Deadline(from) \in Nat
    <2>1. from \in Nat /\ from <= LastStart /\ LastStart \in Nat /\ MaxPolls * DayLength \in Nat
      BY <1>1, HowFar
    <2>2. from <= LastStart + MaxPolls * DayLength
      BY <2>1
    <2> QED
      BY <2>1, <2>2, HowFar
  <1>3. FieldsAgree(asked.field, asked.text)
    <2>1. asked.field \in FieldNames /\ asked.text \in Texts
      BY TextsAssumption DEF SearchInv
    <2> QED
      BY <2>1, ReadersAgree
  <1>4. ASSUME Legal(e) PROVE NextExact
    <2>1. NoneFrom(e, from + 1, at)
      BY <1>4 DEF SearchInv
    <2>2. \A to \in Nat : to <= at => ~Missed(from, to - 1)
      BY <1>1, <1>2, <2>1 DEF Missed, NoneFrom
    <2>3. found.is = "time" => ~Missed(from, found.at - 1)
      <3>1. found.is = "time" => found.at = at
        BY DEF SearchInv
      <3>2. ~Missed(from, at - 1)
        BY <1>1, <2>2
      <3> QED
        BY <3>1, <3>2
    <2>4. ASSUME found.is = "time", by = "scheduler" PROVE found.at > from /\ Matches(e, found.at)
      <3>1. found.at = at /\ Unmet("scheduler", e, at) = "none" /\ from < at
        BY <2>4 DEF SearchInv
      <3>2. Matches(e, at)
        BY <3>1 DEF Unmet, Matches, Admits
      <3> QED
        BY <1>1, <1>2, <3>1, <3>2
    <2>5. found.is \in {"given up", "none"} => ~Missed(from, Deadline(from))
      <3>1. found.is \in {"given up", "none"} => at > Deadline(from)
        BY DEF SearchInv
      <3>2. at > Deadline(from) => Deadline(from) + 1 \in Nat /\ Deadline(from) + 1 <= at /\ (Deadline(from) + 1) - 1 = Deadline(from)
        BY <1>1, <1>2
      <3> QED
        BY <2>2, <3>1, <3>2
    <2> QED
      BY <2>3, <2>4, <2>5 DEF NextExact
  <1>5. ~Legal(e) => NextExact
    BY DEF NextExact
  <1> QED
    BY <1>3, <1>4, <1>5

\* Every step of a search keeps it.
LEMMA SearchKeeps == SearchInv /\ [SearchStep \/ HookCall]_cronVars => SearchInv'
  <1> SUFFICES ASSUME SearchInv, [SearchStep \/ HookCall]_cronVars PROVE SearchInv'
    OBVIOUS
  <1> DEFINE by == search.by
             e == search.cron
             from == search.from
             at == search.at
  <1>1. by \in {"scheduler", "hooks"} /\ e \in Expressions /\ from \in Starts /\ at \in Nat /\ Readable(e)
    BY AllReadable DEF SearchInv
  <1>2. from \in Nat /\ \A t \in Nat : t <= Deadline(from) => InCalendar(t)
    <2>1. from \in Nat /\ from <= LastStart /\ LastStart \in Nat /\ MaxPolls * DayLength \in Nat
      BY <1>1, HowFar
    <2>2. from <= LastStart + MaxPolls * DayLength
      BY <2>1
    <2> QED
      BY <2>1, <2>2, HowFar
  <1>3. ASSUME NEW field \in {"month", "day", "hour", "minute"}, Skip(field) PROVE SearchInv'
    <2>1. at <= Deadline(from) /\ Unmet(by, e, at) # "none" /\ found = NothingYet
      BY <1>3 DEF Skip, Searching
    <2>2. InCalendar(at)
      BY <1>1, <1>2, <2>1
    <2> DEFINE to == Moved(by, e, at)
    <2>3. to \in Nat /\ (by = "scheduler" => at <= to)
      <3>1. by = "hooks" \/ (by = "scheduler" /\ Legal(e))
        BY <1>1 DEF SearchInv
      <3> QED
        BY <1>1, <2>2, <3>1, MovedOn
    <2>4. Legal(e) => NoneFrom(e, from + 1, to)
      <3> SUFFICES ASSUME Legal(e), NEW u \in Nat, from + 1 <= u, u < to PROVE ~Matches(e, u)
        BY DEF NoneFrom
      <3>1. CASE u < at
        BY <3>1 DEF NoneFrom, SearchInv
      <3>2. CASE at <= u
        BY <1>1, <2>1, <2>2, <3>2, SkipsLoseNothing
      <3> QED
        BY <1>1, <3>1, <3>2
    <2>5. search' = [search EXCEPT !.at = to] /\ found' = NothingYet /\ asked' = asked
      BY <1>3, <2>1 DEF Skip
    <2> HIDE DEF to
    <2>6. /\ search' \in [by : {"scheduler", "hooks"}, cron : Expressions, from : Starts, at : Nat]
          /\ search'.by = by /\ search'.cron = e /\ search'.from = from /\ search'.at = to
      BY <2>3, <2>5 DEF SearchInv
    <2>7. by = "scheduler" => Legal(e) /\ from < to
      <3>1. by = "scheduler" => Legal(e) /\ from < at
        BY DEF SearchInv
      <3> QED
        BY <1>1, <1>2, <2>3, <3>1
    <2>8. found' \in [is : {"nothing", "time", "given up", "none"}, at : Nat] /\ found'.is = "nothing"
      BY <2>5 DEF NothingYet
    <2>9. asked' \in [field : FieldNames, text : FieldTexts]
      BY <2>5 DEF SearchInv
    <2> QED
      BY <2>4, <2>6, <2>7, <2>8, <2>9 DEF SearchInv
  <1>4. ASSUME Find PROVE SearchInv'
    <2>1. /\ Unmet(by, e, at) = "none" /\ found' = [is |-> "time", at |-> at] /\ UNCHANGED <<asked, search>>
      BY <1>4 DEF Find
    <2>2. found' \in [is : {"nothing", "time", "given up", "none"}, at : Nat] /\ found'.is = "time" /\ found'.at = at
      BY <1>1, <2>1
    <2> QED
      BY <2>1, <2>2 DEF SearchInv
  <1>5. ASSUME GiveUp PROVE SearchInv'
    <2>1. /\ at > Deadline(from) /\ UNCHANGED <<asked, search>>
          /\ found' = IF by = "scheduler" THEN [is |-> "given up", at |-> from + 1] ELSE [is |-> "none", at |-> 0]
      BY <1>5 DEF GiveUp
    <2>2. found' \in [is : {"nothing", "time", "given up", "none"}, at : Nat] /\ found'.is # "time"
      <3>1. CASE by = "scheduler"
        <4> DEFINE next == from + 1
        <4>1. found' = [is |-> "given up", at |-> next] /\ next \in Nat
          <5>1. next \in Nat
            BY <1>2
          <5>2. found' = [is |-> "given up", at |-> from + 1]
            BY <2>1, <3>1, Zenon
          <5> QED
            BY <5>1, <5>2
        <4> HIDE DEF next
        <4>2. found' \in [is : {"nothing", "time", "given up", "none"}, at : Nat]
          BY <4>1
        <4>3. found'.is = "given up"
          BY <4>1
        <4> QED
          BY <4>2, <4>3
      <3>2. CASE by # "scheduler"
        BY <2>1, <3>2
      <3> QED
        BY <3>1, <3>2
    <2> QED
      BY <2>1, <2>2 DEF SearchInv
  <1>6. ASSUME UNCHANGED searchVars PROVE SearchInv'
    BY <1>6 DEF searchVars, SearchInv
  <1>7. HookCall => UNCHANGED searchVars
    BY DEF HookCall, Schedule, Unschedule, SetEnabled, Poll, MarkTriggered, GetNextDueTime, Hang, Sleep
  <1>8. UNCHANGED cronVars => UNCHANGED searchVars
    BY DEF cronVars, searchVars
  <1> QED
    BY <1>3, <1>4, <1>5, <1>6, <1>7, <1>8 DEF SearchStep

-----------------------------------------------------------------------------
(* The hooks. *)
Hook == [plugin : Plugins, cron : HookExpressions, last : Int, enabled : BOOLEAN]
\* The hooks have their types, and the clock stays near the starts.
HookTypes ==
  /\ hooks \in Seq(Hook) /\ polls \in 0..MaxPolls
  /\ clock \in Nat /\ 3 * LastStart <= clock /\ clock <= 3 * (LastStart + polls * DayLength)

\* The next time of a hook is not after a minute that matches.
LEMMA TriggerExact ==
  ASSUME NEW h \in Hook, NEW after \in Nat, after <= LastStart + MaxPolls * DayLength
  PROVE  LET n == NextTrigger(h, after) IN
         /\ n.is \in {"none", "time", "never ends"} /\ n.at \in Nat /\ (n.is = "time" => n.at <= Deadline(after))
         /\ h.enabled /\ Legal(h.cron) /\ n.is = "time" => NoneFrom(h.cron, after + 1, n.at)
         /\ h.enabled /\ Legal(h.cron) /\ n.is = "none" => NoneFrom(h.cron, after + 1, Deadline(after) + 1)
  <1> DEFINE n == NextTrigger(h, after)
             until == Deadline(after)
             s == Sought(h.cron, after + 1, until)
  <1>1. h.cron \in HookExpressions /\ Readable(h.cron)
    BY AllReadable DEF Hook
  <1>2. until \in Nat /\ after + 1 \in Nat /\ \A t \in Nat : t <= until => InCalendar(t)
    BY HowFar
  <1> HIDE DEF until
  <1>3. /\ s.is \in {"none", "time", "never ends"} /\ s.at \in Nat /\ (s.is = "time" => s.at <= until)
        /\ Legal(h.cron) /\ s.is = "time" => NoneFrom(h.cron, after + 1, s.at)
        /\ Legal(h.cron) /\ s.is = "none" => NoneFrom(h.cron, after + 1, until + 1)
    BY <1>1, <1>2, SoughtExact
  <1>4. CASE h.enabled
    <2>1. n = s
      BY <1>4 DEF NextTrigger, until
    <2> QED
      BY <1>3, <2>1 DEF until
  <1>5. CASE ~h.enabled
    <2>1. n = [is |-> "none", at |-> 0]
      BY <1>5 DEF NextTrigger
    <2>2. n.is = "none" /\ n.is # "time" /\ n.at = 0
      BY <2>1
    <2> QED
      BY <1>5, <2>2
  <1> QED
    BY <1>4, <1>5

\* The time it is.
LEMMA NowIs ==
  ASSUME HookTypes
  PROVE  /\ Now \in Nat /\ Now > 1 /\ Now <= LastStart + MaxPolls * DayLength
         /\ Now - 2 \in Nat /\ Now - 2 <= LastStart + MaxPolls * DayLength
  <1> DEFINE x == polls * DayLength
             y == MaxPolls * DayLength
  <1>1. LastStart \in Nat /\ LastStart > 1 /\ y \in Nat /\ MaxPolls \in Nat /\ DayLength \in Nat /\ polls \in Nat /\ polls <= MaxPolls
    BY HowFar, Units DEF HookTypes
  <1>2. x \in Nat /\ x <= y
    <2>1. polls < MaxPolls => x + DayLength <= y
      BY <1>1, Multiples
    <2>2. x \in Nat
      BY <1>1
    <2>3. polls = MaxPolls => x = y
      OBVIOUS
    <2> HIDE DEF x, y
    <2> QED
      BY <1>1, <2>1, <2>2, <2>3
  <1>3. clock \in Nat /\ 3 * LastStart <= clock /\ clock <= 3 * (LastStart + x)
    BY DEF HookTypes
  <1> HIDE DEF x, y
  <1>4. Now \in Nat /\ clock = 3 * Now + (clock % 3) /\ clock % 3 \in 0..2
    BY <1>3 DEF Now
  <1>5. LastStart <= Now /\ Now <= LastStart + x
    BY <1>1, <1>2, <1>3, <1>4
  <1> QED
    BY <1>1, <1>2, <1>4, <1>5 DEF y

\* A hook whose next time is still to come does not match now.
LEMMA ToComeIsNotDue ==
  ASSUME HookTypes, NEW h \in Hook, Legal(h.cron)
  PROVE  ~StillToCome(h) /\ ShouldTrigger(h) <=> h.enabled /\ CooledDown(h) /\ Matches(h.cron, Now)
  <1> DEFINE n == NextTrigger(h, Now - 2)
  <1>1. Now \in Nat /\ Now - 2 \in Nat /\ Now - 2 <= LastStart + MaxPolls * DayLength
    BY NowIs
  <1>2. ShouldTrigger(h) <=> h.enabled /\ CooledDown(h) /\ Matches(h.cron, Now)
    BY DEF ShouldTrigger
  <1>3. ASSUME StillToCome(h), h.enabled PROVE ~Matches(h.cron, Now)
    <2>1. n.is = "time" /\ n.at > Now
      BY <1>3 DEF StillToCome, IsToCome
    <2>2. n.at \in Nat /\ NoneFrom(h.cron, (Now - 2) + 1, n.at)
      BY <1>1, <1>3, <2>1, TriggerExact
    <2> QED
      BY <1>1, <2>1, <2>2 DEF NoneFrom
  <1> QED
    BY <1>2, <1>3

\* The types are kept.
LEMMA HookTypesKept == HookTypes /\ [SearchStep \/ HookCall]_cronVars => HookTypes'
  <1> SUFFICES ASSUME HookTypes, [SearchStep \/ HookCall]_cronVars PROVE HookTypes'
    OBVIOUS
  <1>1. hooks \in Seq(Hook) /\ clock \in Nat /\ polls \in Nat /\ MaxPolls \in Nat
    BY HowFar DEF HookTypes
  <1>2. ASSUME UNCHANGED <<hooks, clock>>, polls' = polls \/ (polls < MaxPolls /\ polls' = polls + 1) PROVE HookTypes'
    <2>1. polls' \in 0..MaxPolls /\ polls' \in Nat /\ polls <= polls'
      BY <1>1, <1>2 DEF HookTypes
    <2>2. polls * DayLength \in Nat /\ polls' * DayLength \in Nat /\ polls * DayLength <= polls' * DayLength
      <3> DEFINE k == polls'
                 a == polls * DayLength
                 b == k * DayLength
      <3>1. k \in Nat /\ polls <= k /\ DayLength \in Nat
        BY <2>1, Units
      <3> HIDE DEF k
      <3>2. polls < k => a + DayLength <= b
        BY <1>1, <3>1, Multiples
      <3>3. a \in Nat /\ b \in Nat
        BY <1>1, <3>1
      <3>4. polls = k => a = b
        OBVIOUS
      <3> HIDE DEF a, b
      <3>5. a <= b
        BY <1>1, <3>1, <3>2, <3>3, <3>4
      <3>6. a \in Nat /\ b \in Nat /\ a <= b
        BY <3>3, <3>5
      <3> QED
        BY <3>6 DEF a, b, k
    <2> DEFINE x == polls * DayLength
               y == polls' * DayLength
    <2>3. clock <= 3 * (LastStart + x) /\ x \in Nat /\ y \in Nat /\ x <= y /\ LastStart \in Nat
      BY <2>2, HowFar DEF HookTypes
    <2> HIDE DEF x, y
    <2>4. clock <= 3 * (LastStart + y)
      BY <1>1, <2>3
    <2> QED
      BY <1>2, <2>1, <2>4 DEF HookTypes, y
  <1>3. ASSUME hooks' \in Seq(Hook), UNCHANGED <<clock, polls>> PROVE HookTypes'
    BY <1>3 DEF HookTypes
  <1>4. ASSUME NEW p \in Plugins, NEW e \in HookExpressions, Schedule(p, e) PROVE HookTypes'
    <2>1. [plugin |-> p, cron |-> e, last |-> NeverFired, enabled |-> TRUE] \in Hook
      BY DEF Hook, NeverFired
    <2>2. hooks' \in Seq(Hook)
      BY <1>1, <1>4, <2>1 DEF Schedule
    <2> QED
      BY <1>3, <1>4, <2>2 DEF Schedule
  <1>5. ASSUME NEW p \in Plugins, Unschedule(p) PROVE HookTypes'
    <2>1. {i \in DOMAIN hooks : hooks[i].plugin # p} \in SUBSET DOMAIN hooks
      OBVIOUS
    <2>2. hooks' \in Seq(Hook)
      BY <1>1, <1>5, <2>1, ChosenProperties DEF Unschedule
    <2> QED
      BY <1>3, <1>5, <2>2 DEF Unschedule
  <1>6. ASSUME NEW p \in Plugins, NEW on \in BOOLEAN, SetEnabled(p, on) PROVE HookTypes'
    <2> DEFINE set(i) == IF hooks[i].plugin = p THEN [hooks[i] EXCEPT !.enabled = on] ELSE hooks[i]
    <2>1. \A i \in DOMAIN hooks : set(i) \in Hook
      <3> SUFFICES ASSUME NEW i \in DOMAIN hooks PROVE set(i) \in Hook
        OBVIOUS
      <3>1. hooks[i] \in Hook
        BY <1>1
      <3> QED
        BY <3>1 DEF Hook
    <2>2. hooks' = [i \in DOMAIN hooks |-> set(i)]
      BY <1>6 DEF SetEnabled
    <2> HIDE DEF set
    <2>3. hooks' \in Seq(Hook)
      BY <1>1, <2>1, <2>2
    <2> QED
      BY <1>3, <1>6, <2>3 DEF SetEnabled
  <1>7. ASSUME MarkTriggered PROVE HookTypes'
    <2> DEFINE set(i) == IF \E j \in due.set : hooks[j].plugin = hooks[i].plugin /\ hooks[j].cron = hooks[i].cron
                           THEN [hooks[i] EXCEPT !.last = clock] ELSE hooks[i]
    <2>1. \A i \in DOMAIN hooks : set(i) \in Hook
      <3> SUFFICES ASSUME NEW i \in DOMAIN hooks PROVE set(i) \in Hook
        OBVIOUS
      <3>1. hooks[i] \in Hook
        BY <1>1
      <3>2. [hooks[i] EXCEPT !.last = clock] \in Hook
        BY <1>1, <3>1 DEF Hook
      <3> QED
        BY <3>1, <3>2
    <2>2. hooks' = [i \in DOMAIN hooks |-> set(i)]
      BY <1>7 DEF MarkTriggered
    <2> HIDE DEF set
    <2>3. hooks' \in Seq(Hook)
      BY <1>1, <2>1, <2>2
    <2> QED
      BY <1>3, <1>7, <2>3 DEF MarkTriggered
  <1>8. Poll \/ GetNextDueTime \/ Hang => HookTypes'
    BY <1>2 DEF Poll, GetNextDueTime, Hang
  <1>9. ASSUME Sleep PROVE HookTypes'
    <2>1. polls < MaxPolls /\ polls' = polls + 1 /\ hooks' = hooks /\ clock' \in {clock + 1, clock + 2, clock + 3 * DayLength}
      BY <1>9 DEF Sleep
    <2> DEFINE x == polls * DayLength
               y == (polls + 1) * DayLength
    <2>2. y = x + DayLength /\ x \in Nat /\ DayLength \in Nat /\ DayLength >= 1
      BY <1>1, Units
    <2>3. clock <= 3 * (LastStart + x) /\ 3 * LastStart <= clock /\ LastStart \in Nat
      BY HowFar DEF HookTypes
    <2> HIDE DEF x, y
    <2>4. clock' \in Nat /\ 3 * LastStart <= clock' /\ clock' <= 3 * (LastStart + y)
      BY <1>1, <2>1, <2>2, <2>3
    <2>5. polls' \in 0..MaxPolls
      BY <1>1, <2>1
    <2> QED
      BY <1>1, <2>1, <2>4, <2>5 DEF HookTypes, y
  <1>10. UNCHANGED hookVars => HookTypes'
    BY <1>3, <1>1 DEF hookVars
  <1>11. SearchStep => UNCHANGED hookVars
    BY DEF SearchStep, Find, GiveUp, Skip
  <1>12. UNCHANGED cronVars => UNCHANGED hookVars
    BY DEF cronVars, hookVars
  <1> QED
    BY <1>4, <1>5, <1>6, <1>7, <1>8, <1>9, <1>10, <1>11, <1>12 DEF HookCall

\* An answer stands until the next call.
LEMMA HooksKept == HookTypes /\ HooksOnTime /\ [SearchStep \/ HookCall]_cronVars => HooksOnTime'
  <1> SUFFICES ASSUME HookTypes, HooksOnTime, [SearchStep \/ HookCall]_cronVars PROVE HooksOnTime'
    OBVIOUS
  <1>1. ASSUME due' = NoAnswer PROVE HooksOnTime'
    <2>1. due'.is = "none"
      BY <1>1 DEF NoAnswer
    <2> QED
      BY <2>1 DEF HooksOnTime
  <1>2. ASSUME UNCHANGED hookVars PROVE HooksOnTime'
    BY <1>2 DEF hookVars, HooksOnTime, Now, CooledDown
  <1>3. ASSUME Poll PROVE HooksOnTime'
    <2> DEFINE dueNow == {i \in DOMAIN hooks : ~StillToCome(hooks[i]) /\ ShouldTrigger(hooks[i])}
    <2>1. due' = [is |-> "hooks", set |-> dueNow] /\ UNCHANGED <<hooks, clock>>
      BY <1>3 DEF Poll
    <2>2. ASSUME NEW i \in DOMAIN hooks, Legal(hooks[i].cron)
          PROVE  i \in dueNow <=> hooks[i].enabled /\ CooledDown(hooks[i]) /\ Matches(hooks[i].cron, Now)
      <3>1. hooks[i] \in Hook
        BY DEF HookTypes
      <3> QED
        BY <2>2, <3>1, ToComeIsNotDue
    <2> HIDE DEF dueNow
    <2>3. due'.is = "hooks" /\ due'.set = dueNow
      BY <2>1
    <2> QED
      BY <2>1, <2>2, <2>3 DEF HooksOnTime, Now, CooledDown
  <1>4. ASSUME GetNextDueTime PROVE HooksOnTime'
    <2> DEFINE all == {NextTrigger(hooks[i], Now) : i \in DOMAIN hooks}
               times == {n \in all : n.is = "time"}
               ats == {n.at : n \in times}
    <2>1. ~Hangs(Now) /\ due' = IF times = {} THEN [is |-> "no time"] ELSE [is |-> "time", at |-> Min(ats)]
      BY <1>4 DEF GetNextDueTime
    <2>2. UNCHANGED <<hooks, clock>>
      BY <1>4 DEF GetNextDueTime
    <2>3. Now \in Nat /\ Now <= LastStart + MaxPolls * DayLength
      BY NowIs
    <2>4. ASSUME NEW i \in DOMAIN hooks
          PROVE  LET n == NextTrigger(hooks[i], Now)  h == hooks[i] IN
                 /\ n.is \in {"none", "time"} /\ n.at \in Nat /\ (n.is = "time" => n.at <= Deadline(Now))
                 /\ h.enabled /\ Legal(h.cron) /\ n.is = "time" => NoneFrom(h.cron, Now + 1, n.at)
                 /\ h.enabled /\ Legal(h.cron) /\ n.is = "none" => NoneFrom(h.cron, Now + 1, Deadline(Now) + 1)
      <3>1. hooks[i] \in Hook
        BY DEF HookTypes
      <3>2. NextTrigger(hooks[i], Now).is # "never ends"
        BY <2>1 DEF Hangs
      <3> QED
        BY <2>3, <3>1, <3>2, TriggerExact
    <2>5. ats \in SUBSET Nat
      BY <2>4
    <2>6. Deadline(Now) \in Nat
      BY <2>3, HowFar
    <2>7. CASE times = {}
      <3>1. due'.is = "no time"
        BY <2>1, <2>7
      <3>2. ASSUME NEW i \in DOMAIN hooks, hooks[i].enabled, Legal(hooks[i].cron)
            PROVE  ~\E t \in Now + 1..Deadline(Now) : Matches(hooks[i].cron, t)
        <4>1. NextTrigger(hooks[i], Now).is # "time"
          BY <2>7
        <4>2. NoneFrom(hooks[i].cron, Now + 1, Deadline(Now) + 1)
          BY <2>4, <3>2, <4>1
        <4> QED
          BY <2>3, <2>6, <4>2 DEF NoneFrom
      <3> QED
        BY <2>2, <3>1, <3>2 DEF HooksOnTime, Now
    <2>8. CASE times # {}
      <3> DEFINE least == Min(ats)
      <3>1. least \in Nat /\ (\A a \in ats : least <= a) /\ least <= Deadline(Now)
        <4>1. ats # {} /\ \A a \in ats : a <= Deadline(Now)
          BY <2>4, <2>8
        <4>2. least \in ats /\ least \in Nat /\ \A a \in ats : least <= a
          BY <2>5, <4>1, LeastOf
        <4> QED
          BY <4>1, <4>2
      <3>2. due' = [is |-> "time", at |-> least]
        BY <2>1, <2>8
      <3> HIDE DEF least, ats, times, all
      <3>3. due'.is = "time" /\ due'.at = least
        BY <3>2
      <3>4. ASSUME NEW i \in DOMAIN hooks, hooks[i].enabled, Legal(hooks[i].cron)
            PROVE  ~\E t \in Now + 1..least - 1 : Matches(hooks[i].cron, t)
        <4> DEFINE n == NextTrigger(hooks[i], Now)
        <4>1. CASE n.is = "time"
          <5>1. n.at \in ats
            BY <4>1 DEF ats, times, all
          <5>2. least <= n.at /\ n.at \in Nat /\ NoneFrom(hooks[i].cron, Now + 1, n.at)
            BY <2>4, <3>1, <3>4, <4>1, <5>1
          <5> HIDE DEF n
          <5> QED
            BY <2>3, <3>1, <5>2 DEF NoneFrom
        <4>2. CASE n.is = "none"
          <5>1. NoneFrom(hooks[i].cron, Now + 1, Deadline(Now) + 1)
            BY <2>4, <3>4, <4>2
          <5> QED
            BY <2>3, <2>6, <3>1, <5>1 DEF NoneFrom
        <4> QED
          BY <2>4, <4>1, <4>2
      <3> QED
        BY <2>2, <3>3, <3>4 DEF HooksOnTime, Now
    <2> QED
      BY <2>7, <2>8
  <1>5. ASSUME Hang PROVE HooksOnTime'
    <2>1. due'.is = "no return"
      BY <1>5 DEF Hang
    <2> QED
      BY <2>1 DEF HooksOnTime
  <1>6. ASSUME NEW p \in Plugins, NEW e, NEW on, Unschedule(p) \/ Schedule(p, e) \/ SetEnabled(p, on) PROVE HooksOnTime'
    BY <1>1, <1>6 DEF Unschedule, Schedule, SetEnabled
  <1>7. MarkTriggered \/ Sleep => HooksOnTime'
    BY <1>1 DEF MarkTriggered, Sleep
  <1>8. SearchStep => UNCHANGED hookVars
    BY DEF SearchStep, Find, GiveUp, Skip
  <1>9. UNCHANGED cronVars => UNCHANGED hookVars
    BY DEF cronVars, hookVars
  <1> QED
    BY <1>2, <1>3, <1>4, <1>5, <1>6, <1>7, <1>8, <1>9 DEF HookCall

(* A field of a cron expression means the same to the parser of the scheduler, to the matcher of    *)
(* the hooks and, but for names, long steps and empty texts, to the loader; both searches pass over *)
(* no minute that matches and the scheduler finds the first; a poll answers exactly the hooks that  *)
(* are due, and nothing is due before get_next_due_time.                                            *)
THEOREM SchedulesAreExact == CronSpec => []SchedulesExact
  <1> DEFINE Inv == SearchInv /\ HookTypes /\ HooksOnTime
  <1>1. CronInit => Inv
    <2> SUFFICES ASSUME CronInit PROVE Inv
      OBVIOUS
    <2>1. LastStart \in Nat /\ 0 \in 0..MaxPolls /\ Starts \in SUBSET Nat /\ 0 * DayLength = 0
      BY HowFar, Units
    <2>2. /\ search \in [by : {"scheduler", "hooks"}, cron : Expressions, from : Starts, at : Nat]
          /\ search.at = search.from + 1 /\ search.from \in Nat /\ (search.by = "scheduler" => Legal(search.cron))
      <3>1. {t + 1 : t \in Starts} \in SUBSET Nat
        BY <2>1
      <3> QED
        BY <2>1, <3>1 DEF CronInit, SearchInit
    <2>3. found = [is |-> "nothing", at |-> 0] /\ asked \in [field : FieldNames, text : FieldTexts]
      BY DEF CronInit, NothingYet, AskedInit
    <2>4. NoneFrom(search.cron, search.from + 1, search.at)
      BY <2>2 DEF NoneFrom
    <2>5. SearchInv
      BY <2>2, <2>3, <2>4 DEF SearchInv
    <2>6. hooks = <<>> /\ clock = 3 * LastStart /\ due.is = "none" /\ polls = 0
      BY DEF CronInit, HooksInit, LastStart, NoAnswer
    <2>7. HookTypes
      BY <2>1, <2>6 DEF HookTypes
    <2> QED
      BY <2>5, <2>6, <2>7 DEF HooksOnTime
  <1>2. Inv /\ [SearchStep \/ HookCall]_cronVars => Inv'
    BY SearchKeeps, HookTypesKept, HooksKept
  <1>3. Inv => SchedulesExact
    BY SearchHolds DEF SchedulesExact
  <1> QED
    BY <1>1, <1>2, <1>3, PTL DEF CronSpec

-----------------------------------------------------------------------------
(* What is told of a run. *)

\* Paths say something of each other if they begin alike.
LEMMA AffectsAlike ==
  ASSUME NEW p \in Paths, NEW r \in Paths
  PROVE  (Affects(p, r) <=> p[1] = r[1]) /\ Affects(p, p)
  <1>1. /\ Len(<<"rules">>) = 1 /\ Len(<<"dns">>) = 1 /\ Len(<<"dns", "list">>) = 2 /\ Len(<<"authentication">>) = 1
        /\ <<"rules">>[1] = "rules" /\ <<"dns">>[1] = "dns" /\ <<"dns", "list">>[1] = "dns" /\ <<"authentication">>[1] = "authentication"
    OBVIOUS
  <1> DEFINE S == {"rules", "dns", "list", "authentication"}
  <1>2. \A s \in Paths : s \in Seq(S) /\ Len(s) \in {1, 2}
    <2>1. "rules" \in S /\ "dns" \in S /\ "list" \in S /\ "authentication" \in S
      OBVIOUS
    <2> HIDE DEF S
    <2>2. <<"rules">> \in Seq(S) /\ <<"dns">> \in Seq(S) /\ <<"dns", "list">> \in Seq(S) /\ <<"authentication">> \in Seq(S)
      BY <2>1
    <2> QED
      BY <1>1, <2>2 DEF Paths
  <1> HIDE DEF S
  <1>3. ASSUME NEW s \in Paths, NEW t \in Paths, IsPrefix(s, t) PROVE s[1] = t[1]
    <2>1. Len(s) <= Len(t) /\ SubSeq(s, 1, Len(s)) = SubSeq(t, 1, Len(s))
      BY <1>3 DEF IsPrefix
    <2>2. SubSeq(s, 1, Len(s))[1] = s[1] /\ SubSeq(t, 1, Len(s))[1] = t[1]
      BY <1>2, <2>1
    <2> QED
      BY <2>1, <2>2
  <1>4. ASSUME NEW s \in Paths PROVE IsPrefix(s, s)
    BY <1>2 DEF IsPrefix
  <1>5. IsPrefix(<<"dns">>, <<"dns", "list">>)
    <2> DEFINE s == <<"dns">>
               t == <<"dns", "list">>
    <2>1. s \in Seq(S) /\ t \in Seq(S) /\ Len(s) = 1 /\ Len(t) = 2 /\ s[1] = t[1]
      BY <1>1, <1>2 DEF Paths
    <2> HIDE DEF s, t
    <2>2. SubSeq(s, 1, 1) = SubSeq(t, 1, 1) /\ SubSeq(s, 1, 1) = s
      BY <2>1
    <2> QED
      BY <2>1, <2>2 DEF IsPrefix, s, t
  <1>6. ASSUME p[1] = r[1] PROVE p = r \/ (p = <<"dns">> /\ r = <<"dns", "list">>) \/ (p = <<"dns", "list">> /\ r = <<"dns">>)
    BY <1>1, <1>6 DEF Paths
  <1>7. p[1] = r[1] => Affects(p, r)
    BY <1>4, <1>5, <1>6 DEF Affects
  <1>8. Affects(p, r) => p[1] = r[1]
    BY <1>3 DEF Affects
  <1> QED
    BY <1>4, <1>7, <1>8 DEF Affects

\* An operation changes nothing at a path of which it says nothing.
LEMMA ExecElsewhere ==
  ASSUME NEW c, IsConfig(c), NEW p \in Paths, NEW o, NEW r \in Paths, p[1] # r[1]
  PROVE  Get(Exec(c, p, o), r) = Get(c, r)
  <1>1. DOMAIN c = Keys /\ p[1] \in Keys /\ r[1] \in Keys \ {"dns.list"}
    BY DEF IsConfig, Paths, Keys
  <1>2. Exec(c, p, o) \in {c, [c EXCEPT !["dns.list"] = o.val]} \/ \E v : Exec(c, p, o) = Put(c, p, v)
    BY DEF Exec, ExecList, ExecDefault, ExecMerge, ExecOverride
  <1>3. Exec(c, p, o)[r[1]] = c[r[1]]
    <2>1. ASSUME NEW v PROVE Put(c, p, v)[r[1]] = c[r[1]]
      BY <1>1 DEF Put
    <2>2. [c EXCEPT !["dns.list"] = o.val][r[1]] = c[r[1]]
      BY <1>1
    <2> QED
      BY <1>2, <2>1, <2>2
  <1> QED
    BY <1>3 DEF Get

\* At another path than its own, an array operation leaves what is there or there is no array.
LEMMA ListOpElsewhere ==
  ASSUME NEW c, IsConfig(c), NEW p \in Paths, NEW o, IsOperation(o), o.op \in ListOps, NEW r \in Paths, r # p
  PROVE  Get(Exec(c, p, o), r) = Get(c, r) \/ (~IsArray(Exec(c, p, o), r) /\ ~IsArray(c, r))
  <1> DEFINE e == Exec(c, p, o)
             t == OnList(o, Get(c, p).items)
  <1>1. CASE Guarded(p) \/ ~IsArray(c, p)
    BY <1>1, ListOpEffect
  <1>2. CASE p[1] # r[1]
    BY <1>2, ExecElsewhere
  <1>3. CASE ~Guarded(p) /\ IsArray(c, p) /\ p[1] = r[1]
    <2>1. e = Put(c, p, Arr(t)) /\ DOMAIN c = Keys /\ IsField(c["dns"])
      BY <1>3, ListOpEffect DEF IsConfig, Keys
    <2>2. /\ Len(<<"rules">>) = 1 /\ Len(<<"dns">>) = 1 /\ Len(<<"dns", "list">>) = 2 /\ Len(<<"authentication">>) = 1
          /\ <<"rules">>[1] = "rules" /\ <<"dns">>[1] = "dns" /\ <<"dns", "list">>[1] = "dns" /\ <<"authentication">>[1] = "authentication"
      OBVIOUS
    <2>3. (p = <<"dns">> /\ r = <<"dns", "list">>) \/ (p = <<"dns", "list">> /\ r = <<"dns">>)
      BY <1>3, <2>2 DEF Paths
    <2>4. Arr(t).kind = "array" /\ Arr(t).sub = <<>> /\ Obj(Arr(t)).kind = "object" /\ Absent.kind = "absent"
      BY DEF Arr, Obj, Absent, JSON
    <2>5. "dns" \in Keys
      BY DEF Keys
    <2>6. c["dns"].kind = "array" => c["dns"].sub = <<>>
      BY <2>1 DEF IsField, IsJSON
    <2> HIDE DEF e, t
    <2>7. CASE p = <<"dns">> /\ r = <<"dns", "list">>
      <3>1. e["dns"] = Arr(t)
        BY <2>1, <2>2, <2>5, <2>7 DEF Put
      <3>2. Get(e, r) = Absent
        BY <2>2, <2>4, <2>7, <3>1 DEF Get
      <3>3. c["dns"].kind = "array"
        BY <1>3, <2>2, <2>7 DEF IsArray, Get
      <3>4. Get(c, r) = Absent
        BY <2>2, <2>6, <2>7, <3>3 DEF Get
      <3> QED
        BY <3>2, <3>4 DEF e
    <2>8. CASE p = <<"dns", "list">> /\ r = <<"dns">>
      <3>1. e["dns"] = Obj(Arr(t))
        BY <2>1, <2>2, <2>5, <2>8 DEF Put
      <3>2. ~IsArray(e, r)
        BY <2>2, <2>4, <2>8, <3>1 DEF IsArray, Get
      <3>3. c["dns"].sub # <<>>
        BY <1>3, <2>2, <2>4, <2>8 DEF IsArray, Get
      <3>4. ~IsArray(c, r)
        BY <2>2, <2>6, <2>8, <3>3 DEF IsArray, Get
      <3> QED
        BY <3>2, <3>4 DEF e
    <2> QED
      BY <2>3, <2>7, <2>8
  <1> QED
    BY <1>1, <1>2, <1>3

\* What comes into an array was added by an operation on it.
LEMMA ComesIn ==
  ASSUME NEW c, IsConfig(c), NEW p \in Paths, NEW o, IsOperation(o), o.op \in {"prepend", "append", "filter", "remove"},
         NEW r \in Paths, NEW x \in ArrayAt(Exec(c, p, o), r), x \notin ArrayAt(c, r)
  PROVE  /\ r = p /\ ~Guarded(p) /\ o.op \in {"prepend", "append"} /\ x \in Range(NewItems(o.val))
  <1> DEFINE e == Exec(c, p, o)
             s == Get(c, p).items
             t == OnList(o, s)
  <1>0. o.op \in ListOps
    BY DEF ListOps
  <1>1. r = p
    <2> SUFFICES ASSUME r # p PROVE FALSE
      OBVIOUS
    <2>1. Get(e, r) = Get(c, r) \/ (~IsArray(e, r) /\ ~IsArray(c, r))
      BY <1>0, ListOpElsewhere
    <2> QED
      BY <2>1 DEF ArrayAt, IsArray
  <1>2. e # c
    OBVIOUS
  <1>3. ~Guarded(p) /\ IsArray(c, p)
    BY <1>0, <1>2, ListOpEffect
  <1>4. s \in Seq(Items) /\ Get(e, p) = Arr(t)
    BY <1>0, <1>3, ListOpEffect
  <1>5. Made(o, s, t)
    BY <1>0, <1>4, OnListMakes
  <1>6. Arr(t).items = t /\ Arr(t).kind = "array"
    BY DEF Arr, JSON
  <1> HIDE DEF t, e
  <1>7. ArrayAt(e, p) = Range(t) /\ ArrayAt(c, p) = Range(s)
    BY <1>3, <1>4, <1>6 DEF ArrayAt, IsArray
  <1>8. x \in Range(t) /\ x \notin Range(s)
    BY <1>1, <1>7 DEF e
  <1> QED
    BY <1>1, <1>3, <1>5, <1>8 DEF Made

\* What a patch has changed so far: nothing but what lies above or below its path, and what came into
\* an array is what it adds.
Told(b, c, q) ==
  \A p \in Paths :
    /\ Get(b, p) # Get(c, p) => q.matched /\ Affects(q.path, p)
    /\ (\A o \in Range(q.ops) : o.op \in {"prepend", "append", "filter", "remove"}) =>
         \A x \in ArrayAt(c, p) \ ArrayAt(b, p) :
           /\ q.matched /\ ~Guarded(q.path) /\ Affects(q.path, p)
           /\ \E o \in Range(q.ops) : o.op \in {"prepend", "append"} /\ x \in Range(NewItems(o.val))
\* An operation keeps it so.
LEMMA ToldStep ==
  ASSUME NEW q, IsPatch(q), q.matched, NEW b, NEW c, IsConfig(c), NEW o \in Range(q.ops), Told(b, c, q)
  PROVE  Told(b, Exec(c, q.path, o), q)
  <1> DEFINE e == Exec(c, q.path, o)
  <1>1. q.path \in Paths /\ IsOperation(o)
    BY OneOfAKind DEF IsPatch
  <1>2. ASSUME NEW p \in Paths, Get(b, p) # Get(e, p) PROVE Affects(q.path, p)
    <2>1. CASE q.path[1] = p[1]
      BY <1>1, <2>1, AffectsAlike
    <2>2. CASE q.path[1] # p[1]
      <3>1. Get(e, p) = Get(c, p)
        BY <1>1, <2>2, ExecElsewhere
      <3> QED
        BY <1>2, <3>1 DEF Told
    <2> QED
      BY <2>1, <2>2
  <1>3. ASSUME NEW p \in Paths, \A d \in Range(q.ops) : d.op \in {"prepend", "append", "filter", "remove"},
               NEW x \in ArrayAt(e, p) \ ArrayAt(b, p)
        PROVE  /\ ~Guarded(q.path) /\ Affects(q.path, p)
               /\ \E d \in Range(q.ops) : d.op \in {"prepend", "append"} /\ x \in Range(NewItems(d.val))
    <2>1. CASE x \in ArrayAt(c, p)
      BY <1>3, <2>1 DEF Told
    <2>2. CASE x \notin ArrayAt(c, p)
      <3>1. p = q.path /\ ~Guarded(q.path) /\ o.op \in {"prepend", "append"} /\ x \in Range(NewItems(o.val))
        BY <1>1, <1>3, <2>2, ComesIn
      <3> QED
        BY <1>1, <3>1, AffectsAlike
    <2> QED
      BY <2>1, <2>2
  <1> HIDE DEF e
  <1>4. Told(b, e, q)
    BY <1>2, <1>3 DEF Told
  <1> QED
    BY <1>4 DEF e

-----------------------------------------------------------------------------
(* The traces of a program. *)

\* The log of a program goes through its patches one by one.
LEMMA LogSteps ==
  ASSUME NEW prog, IsList(prog)
  PROVE  /\ LogUpTo(prog)[0] = <<>>
         /\ \A k \in 1..Len(prog) : LogUpTo(prog)[k] = LogUpTo(prog)[k - 1] \o TracesOf(prog, k)
  <1> DEFINE n == Len(prog)
             From(k, g) == g = [i \in 0..k |-> IF i = 0 THEN <<>> ELSE g[i - 1] \o TracesOf(prog, i)]
             Short(k) == \E g : From(k, g)
  <1>1. n \in Nat
    BY ListFacts
  <1> HIDE DEF n
  <1>2. Short(0)
    <2>1. From(0, [i \in 0..0 |-> <<>>])
      OBVIOUS
    <2> QED
      BY <2>1
  <1>3. ASSUME NEW k \in 1..n, Short(k - 1) PROVE Short(k)
    <2>1. PICK g : From(k - 1, g)
      BY <1>3
    <2> DEFINE h == [i \in 0..k |-> IF i = k THEN g[k - 1] \o TracesOf(prog, k) ELSE g[i]]
    <2>2. k \in Nat /\ k - 1 \in Nat /\ DOMAIN g = 0..(k - 1)
      BY <1>1, <2>1
    <2>3. ASSUME NEW i \in 0..k PROVE h[i] = IF i = 0 THEN <<>> ELSE h[i - 1] \o TracesOf(prog, i)
      <3>1. CASE i = k
        <4>1. h[i] = g[k - 1] \o TracesOf(prog, k) /\ h[i - 1] = g[k - 1] /\ i # 0
          BY <1>1, <3>1
        <4> QED
          BY <3>1, <4>1
      <3>2. CASE i # k
        <4>1. i \in 0..(k - 1) /\ h[i] = g[i]
          BY <1>1, <3>2
        <4>2. g[i] = IF i = 0 THEN <<>> ELSE g[i - 1] \o TracesOf(prog, i)
          BY <2>1, <4>1
        <4>3. i # 0 => h[i - 1] = g[i - 1]
          BY <1>1, <4>1
        <4> QED
          BY <4>1, <4>2, <4>3
      <3> QED
        BY <3>1, <3>2
    <2>4. From(k, h)
      <3>1. h = [i \in 0..k |-> h[i]]
        OBVIOUS
      <3> HIDE DEF h
      <3> QED
        BY <2>3, <3>1
    <2> QED
      BY <2>4
  <1>4. Short(n)
    <2> DEFINE bad == {k \in 0..n : ~Short(k)}
    <2>1. bad \in SUBSET Nat /\ \A k \in bad : k \in 0..n
      BY <1>1
    <2>2. ASSUME bad # {} PROVE FALSE
      <3>1. PICK k \in bad : \A j \in bad : k <= j
        BY <2>1, <2>2, LeastNumber
      <3>2. k \in 0..n /\ ~Short(k)
        OBVIOUS
      <3>3. k # 0
        BY <1>2, <3>2
      <3>4. k \in 1..n /\ k - 1 \in 0..n /\ ~(k <= k - 1)
        BY <1>1, <3>2, <3>3
      <3>5. Short(k - 1)
        BY <3>1, <3>4
      <3> QED
        BY <1>3, <3>2, <3>4, <3>5
    <2>3. n \in 0..n
      BY <1>1
    <2> HIDE DEF Short
    <2> QED
      BY <2>2, <2>3
  <1> DEFINE f == CHOOSE g : From(n, g)
  <1>5. From(n, f)
    BY <1>4, Zenon
  <1>6. LogUpTo(prog) = f
    BY Zenon DEF LogUpTo, n
  <1> HIDE DEF f
  <1>7. \A i \in 0..n : f[i] = IF i = 0 THEN <<>> ELSE f[i - 1] \o TracesOf(prog, i)
    BY <1>5
  <1>8. 0 \in 0..n /\ \A k \in 1..n : k \in 0..n /\ k # 0
    BY <1>1
  <1> QED
    BY <1>6, <1>7, <1>8 DEF n

\* One list after another, place by place.
LEMMA ConcatList ==
  ASSUME NEW s, IsList(s), NEW t, IsList(t)
  PROVE  /\ IsList(s \o t) /\ Len(s \o t) = Len(s) + Len(t)
         /\ \A i \in 1..Len(s) : (s \o t)[i] = s[i]
         /\ \A k \in 1..Len(t) : (s \o t)[Len(s) + k] = t[k]
  <1> DEFINE S == Range(s) \cup Range(t)
  <1>1. Len(s) \in Nat /\ Len(t) \in Nat
    BY ListFacts
  <1>2. s \in Seq(S) /\ t \in Seq(S)
    <2>1. s \in [1..Len(s) -> S] /\ t \in [1..Len(t) -> S]
      BY DEF IsList
    <2> HIDE DEF S
    <2> QED
      BY <1>1, <2>1, SeqDef
  <1> HIDE DEF S
  <1>3. /\ s \o t \in Seq(S) /\ Len(s \o t) = Len(s) + Len(t)
        /\ \A i \in 1..Len(s) + Len(t) : (s \o t)[i] = IF i <= Len(s) THEN s[i] ELSE t[i - Len(s)]
    BY <1>2, ConcatProperties
  <1>4. \A i \in 1..Len(s) : i \in 1..Len(s) + Len(t) /\ i <= Len(s)
    BY <1>1
  <1>5. \A k \in 1..Len(t) : Len(s) + k \in 1..Len(s) + Len(t) /\ ~(Len(s) + k <= Len(s)) /\ Len(s) + k - Len(s) = k
    BY <1>1
  <1>6. IsList(s \o t)
    BY <1>3, ListOf
  <1>7. ASSUME NEW k \in 1..Len(t) PROVE (s \o t)[Len(s) + k] = t[k]
    <2> DEFINE i == Len(s) + k
    <2>1. i \in 1..Len(s) + Len(t) /\ ~(i <= Len(s)) /\ i - Len(s) = k
      BY <1>5
    <2> HIDE DEF i
    <2>2. (s \o t)[i] = t[i - Len(s)]
      BY <1>3, <2>1
    <2> QED
      BY <2>1, <2>2 DEF i
  <1> QED
    BY <1>3, <1>4, <1>6, <1>7

\* A patch leaves a trace of each of its operations.
LEMMA TracesOfPatch ==
  ASSUME NEW prog, IsProgram(prog), NEW n \in 1..Len(prog)
  PROVE  /\ IsPatch(prog[n]) /\ Runs(AllOps(prog[n].ops), prog[n])
         /\ IsList(TracesOf(prog, n)) /\ Len(TracesOf(prog, n)) = Len(prog[n].ops) /\ Len(prog[n].ops) \in Nat \ {0}
         /\ \A k \in 1..Len(prog[n].ops) : TracesOf(prog, n)[k] = [patch |-> n, op |-> AllOps(prog[n].ops)[k]]
  <1> DEFINE q == prog[n]
             N == Len(q.ops)
             t == TracesOf(prog, n)
  <1>1. IsPatch(q)
    BY ListFacts DEF IsProgram
  <1>2. N \in Nat \ {0} /\ DOMAIN q.ops = 1..N
    BY <1>1, ListFacts DEF IsPatch
  <1>3. t = [k \in 1..N |-> [patch |-> n, op |-> AllOps(q.ops)[k]]]
    BY <1>2 DEF TracesOf
  <1>4. Runs(AllOps(q.ops), q)
    BY <1>1, AllOpsRun
  <1> HIDE DEF q, N, t
  <1>5. t \in [1..N -> Range(t)]
    BY <1>3 DEF Range
  <1>6. t \in Seq(Range(t)) /\ Len(t) = N
    BY <1>2, <1>5, SeqDef
  <1>7. IsList(t)
    BY <1>6, ListOf
  <1> QED
    BY <1>1, <1>2, <1>3, <1>4, <1>6, <1>7 DEF q, N, t

\* Where the traces of the first n patches end, and what these traces are.
Ends(prog, n) == Len(LogUpTo(prog)[n])
LogIs(prog, m) ==
  LET log == LogUpTo(prog)[m] IN
  /\ IsList(log) /\ m <= Len(log) /\ (Len(log) = m <=> \A n \in 1..m : Len(prog[n].ops) = 1)
  /\ \A i \in 1..Len(log) : log[i].patch \in 1..m
  /\ \A n \in 1..m :
       /\ Ends(prog, n - 1) \in Nat
       /\ \A k \in 1..Len(prog[n].ops) :
            /\ Ends(prog, n - 1) + k \in 1..Len(log)
            /\ log[Ends(prog, n - 1) + k] = [patch |-> n, op |-> AllOps(prog[n].ops)[k]]
       /\ \A i \in 1..Ends(prog, n - 1) : log[i].patch # n
\* One more patch.
LEMMA LogStep ==
  ASSUME NEW prog, IsProgram(prog), NEW m \in 1..Len(prog), LogIs(prog, m - 1)
  PROVE  LogIs(prog, m) /\ Ends(prog, m) = Ends(prog, m - 1) + Len(prog[m].ops)
  <1> DEFINE s == LogUpTo(prog)[m - 1]
             t == TracesOf(prog, m)
             u == LogUpTo(prog)[m]
             N == Len(prog[m].ops)
             Trace(n, k) == [patch |-> n, op |-> AllOps(prog[n].ops)[k]]
  <1>1. Len(prog) \in Nat /\ m \in Nat /\ m - 1 \in Nat
    BY ListFacts DEF IsProgram
  <1>2. IsList(t) /\ Len(t) = N /\ N \in Nat \ {0} /\ \A k \in 1..N : t[k] = Trace(m, k)
    BY TracesOfPatch
  <1>3. u = s \o t
    BY LogSteps DEF IsProgram
  <1>4. /\ IsList(s) /\ m - 1 <= Len(s) /\ (Len(s) = m - 1 <=> \A n \in 1..m - 1 : Len(prog[n].ops) = 1)
        /\ \A i \in 1..Len(s) : s[i].patch \in 1..m - 1
        /\ \A n \in 1..m - 1 :
             /\ Ends(prog, n - 1) \in Nat
             /\ \A k \in 1..Len(prog[n].ops) : Ends(prog, n - 1) + k \in 1..Len(s) /\ s[Ends(prog, n - 1) + k] = Trace(n, k)
             /\ \A i \in 1..Ends(prog, n - 1) : s[i].patch # n
    BY DEF LogIs
  <1>5. Ends(prog, m - 1) = Len(s) /\ Ends(prog, m) = Len(u)
    BY DEF Ends
  <1>6. \A n \in 1..m - 1 : n \in 1..Len(prog) /\ Len(prog[n].ops) \in Nat \ {0}
    <2>1. \A n \in 1..m - 1 : n \in 1..Len(prog)
      BY <1>1
    <2> QED
      BY <2>1, TracesOfPatch
  <1> HIDE DEF s, t, u, N
  <1>7. /\ IsList(u) /\ Len(u) = Len(s) + N
        /\ \A i \in 1..Len(s) : u[i] = s[i]
        /\ \A k \in 1..N : u[Len(s) + k] = t[k]
    <2> DEFINE w == s \o t
    <2>0. IsList(s) /\ IsList(t)
      BY <1>2, <1>4
    <2>1. /\ IsList(w) /\ Len(w) = Len(s) + Len(t)
          /\ \A i \in 1..Len(s) : w[i] = s[i]
          /\ \A k \in 1..Len(t) : w[Len(s) + k] = t[k]
      BY <2>0, ConcatList
    <2>2. u = w /\ Len(t) = N
      BY <1>2, <1>3
    <2> HIDE DEF Trace, w
    <2> QED
      BY <2>1, <2>2
  <1>8. Len(s) \in Nat
    BY <1>4, ListFacts
  <1>9. m <= Len(u) /\ (Len(u) = m <=> \A n \in 1..m : Len(prog[n].ops) = 1)
    <2>1. m <= Len(u) /\ (Len(u) = m <=> Len(s) = m - 1 /\ N = 1)
      <3>1. m - 1 <= Len(s) /\ Len(u) = Len(s) + N
        BY <1>4, <1>7
      <3> QED
        BY <1>1, <1>2, <1>8, <3>1
    <2>2. \A n \in 1..m : n = m \/ n \in 1..m - 1
      BY <1>1
    <2>3. \A n \in 1..m - 1 : n \in 1..m
      BY <1>1
    <2>4. m \in 1..m
      BY <1>1
    <2> QED
      BY <1>4, <2>1, <2>2, <2>3, <2>4 DEF N
  <1>10. ASSUME NEW i \in 1..Len(u) PROVE u[i].patch \in 1..m
    <2>1. CASE i \in 1..Len(s)
      <3>1. u[i].patch \in 1..m - 1
        BY <1>4, <1>7, <2>1
      <3> QED
        BY <1>1, <3>1
    <2>2. CASE i \notin 1..Len(s)
      <3> DEFINE k == i - Len(s)
      <3>1. k \in 1..N /\ Len(s) + k = i
        BY <1>2, <1>7, <1>8, <2>2
      <3> HIDE DEF k
      <3>2. u[i] = Trace(m, k)
        BY <1>2, <1>7, <3>1
      <3> QED
        BY <1>1, <3>2
    <2> QED
      BY <2>1, <2>2
  <1>11. ASSUME NEW n \in 1..m
         PROVE  /\ Ends(prog, n - 1) \in Nat
                /\ \A k \in 1..Len(prog[n].ops) : Ends(prog, n - 1) + k \in 1..Len(u) /\ u[Ends(prog, n - 1) + k] = Trace(n, k)
                /\ \A i \in 1..Ends(prog, n - 1) : u[i].patch # n
    <2>1. CASE n = m
      <3>1. \A k \in 1..N : Len(s) + k \in 1..Len(u)
        BY <1>2, <1>7, <1>8
      <3>2. \A i \in 1..Len(s) : u[i].patch \in 1..m - 1
        BY <1>4, <1>7
      <3>3. m \notin 1..m - 1
        BY <1>1
      <3> HIDE DEF Trace
      <3> QED
        BY <1>2, <1>5, <1>7, <1>8, <2>1, <3>1, <3>2, <3>3 DEF N
    <2>2. CASE n \in 1..m - 1
      <3>1. /\ Ends(prog, n - 1) \in Nat
            /\ \A k \in 1..Len(prog[n].ops) : Ends(prog, n - 1) + k \in 1..Len(s) /\ s[Ends(prog, n - 1) + k] = Trace(n, k)
            /\ \A i \in 1..Ends(prog, n - 1) : s[i].patch # n
        BY <1>4, <2>2
      <3>2. \A i \in 1..Len(s) : i \in 1..Len(u)
        BY <1>2, <1>7, <1>8
      <3>3. ASSUME NEW i \in 1..Ends(prog, n - 1) PROVE i \in 1..Len(s)
        <4>1. Ends(prog, n - 1) + 1 \in 1..Len(s)
          <5>1. 1 \in 1..Len(prog[n].ops)
            BY <1>6, <2>2
          <5> QED
            BY <3>1, <5>1
        <4> QED
          BY <1>8, <3>1, <4>1
      <3> HIDE DEF Trace
      <3> QED
        BY <1>7, <3>1, <3>2, <3>3
    <2>3. n = m \/ n \in 1..m - 1
      BY <1>1
    <2> QED
      BY <2>1, <2>2, <2>3
  <1>12. LogIs(prog, m)
    BY <1>7, <1>9, <1>10, <1>11 DEF LogIs, u
  <1> QED
    BY <1>5, <1>7, <1>12 DEF N

\* The traces of every number of patches.
LEMMA LogHolds ==
  ASSUME NEW prog, IsProgram(prog)
  PROVE  /\ Ends(prog, 0) = 0 /\ \A m \in 0..Len(prog) : LogIs(prog, m) /\ Ends(prog, m) \in Nat
         /\ \A m \in 1..Len(prog) : Ends(prog, m) = Ends(prog, m - 1) + Len(prog[m].ops)
  <1>1. Len(prog) \in Nat
    BY ListFacts DEF IsProgram
  <1>2. Ends(prog, 0) = 0 /\ LogIs(prog, 0)
    <2>1. LogUpTo(prog)[0] = <<>>
      BY LogSteps DEF IsProgram
    <2>2. IsList(<<>>) /\ Len(<<>>) = 0
      BY DEF IsList
    <2> QED
      BY <2>1, <2>2 DEF Ends, LogIs
  <1>3. ASSUME NEW m \in 0..Len(prog) PROVE LogIs(prog, m)
    <2> DEFINE bad == {k \in 0..Len(prog) : ~LogIs(prog, k)}
    <2>1. bad \in SUBSET Nat /\ \A k \in bad : k \in 0..Len(prog)
      BY <1>1
    <2>2. ASSUME bad # {} PROVE FALSE
      <3>1. PICK k \in bad : \A j \in bad : k <= j
        BY <2>1, <2>2, LeastNumber
      <3>2. k \in 0..Len(prog) /\ ~LogIs(prog, k)
        OBVIOUS
      <3>3. k # 0
        BY <1>2, <3>2
      <3>4. k \in 1..Len(prog) /\ k - 1 \in 0..Len(prog) /\ ~(k <= k - 1)
        BY <1>1, <3>2, <3>3
      <3>5. LogIs(prog, k - 1)
        BY <3>1, <3>4
      <3> QED
        BY <3>2, <3>4, <3>5, LogStep
    <2> QED
      BY <2>2
  <1>4. ASSUME NEW m \in 0..Len(prog) PROVE Ends(prog, m) \in Nat
    BY <1>3, ListFacts DEF LogIs, Ends
  <1>5. ASSUME NEW m \in 1..Len(prog) PROVE Ends(prog, m) = Ends(prog, m - 1) + Len(prog[m].ops)
    <2>1. m - 1 \in 0..Len(prog)
      BY <1>1
    <2> QED
      BY <1>3, <2>1, LogStep
  <1> QED
    BY <1>2, <1>3, <1>4, <1>5

-----------------------------------------------------------------------------
(* Sums. *)

\* The sums of the first numbers of a list.
Sums(s) == CHOOSE g : g = [k \in 0..Len(s) |-> IF k = 0 THEN 0 ELSE g[k - 1] + s[k]]
\* They go through it one by one.
LEMMA SumsSteps ==
  ASSUME NEW s, Len(s) \in Nat
  PROVE  /\ Sums(s)[0] = 0
         /\ \A k \in 1..Len(s) : Sums(s)[k] = Sums(s)[k - 1] + s[k]
  <1> DEFINE n == Len(s)
             From(k, g) == g = [i \in 0..k |-> IF i = 0 THEN 0 ELSE g[i - 1] + s[i]]
             Short(k) == \E g : From(k, g)
  <1>1. n \in Nat
    OBVIOUS
  <1> HIDE DEF n
  <1>2. Short(0)
    <2>1. From(0, [i \in 0..0 |-> 0])
      OBVIOUS
    <2> QED
      BY <2>1
  <1>3. ASSUME NEW k \in 1..n, Short(k - 1) PROVE Short(k)
    <2>1. PICK g : From(k - 1, g)
      BY <1>3
    <2> DEFINE h == [i \in 0..k |-> IF i = k THEN g[k - 1] + s[k] ELSE g[i]]
    <2>2. k \in Nat /\ k - 1 \in Nat /\ DOMAIN g = 0..(k - 1)
      BY <1>1, <2>1
    <2>3. ASSUME NEW i \in 0..k PROVE h[i] = IF i = 0 THEN 0 ELSE h[i - 1] + s[i]
      <3>1. CASE i = k
        <4>1. h[i] = g[k - 1] + s[k] /\ h[i - 1] = g[k - 1] /\ i # 0
          BY <1>1, <3>1
        <4> QED
          BY <3>1, <4>1
      <3>2. CASE i # k
        <4>1. i \in 0..(k - 1) /\ h[i] = g[i]
          BY <1>1, <3>2
        <4>2. g[i] = IF i = 0 THEN 0 ELSE g[i - 1] + s[i]
          BY <2>1, <4>1
        <4>3. i # 0 => h[i - 1] = g[i - 1]
          BY <1>1, <4>1
        <4> QED
          BY <4>1, <4>2, <4>3
      <3> QED
        BY <3>1, <3>2
    <2>4. From(k, h)
      <3>1. h = [i \in 0..k |-> h[i]]
        OBVIOUS
      <3> HIDE DEF h
      <3> QED
        BY <2>3, <3>1
    <2> QED
      BY <2>4
  <1>4. Short(n)
    <2> DEFINE bad == {k \in 0..n : ~Short(k)}
    <2>1. bad \in SUBSET Nat /\ \A k \in bad : k \in 0..n
      BY <1>1
    <2>2. ASSUME bad # {} PROVE FALSE
      <3>1. PICK k \in bad : \A j \in bad : k <= j
        BY <2>1, <2>2, LeastNumber
      <3>2. k \in 0..n /\ ~Short(k)
        OBVIOUS
      <3>3. k # 0
        BY <1>2, <3>2
      <3>4. k \in 1..n /\ k - 1 \in 0..n /\ ~(k <= k - 1)
        BY <1>1, <3>2, <3>3
      <3>5. Short(k - 1)
        BY <3>1, <3>4
      <3> QED
        BY <1>3, <3>2, <3>4, <3>5
    <2>3. n \in 0..n
      BY <1>1
    <2> HIDE DEF Short
    <2> QED
      BY <2>2, <2>3
  <1> DEFINE f == CHOOSE g : From(n, g)
  <1>5. From(n, f)
    BY <1>4, Zenon
  <1>6. Sums(s) = f
    BY Zenon DEF Sums, n
  <1> HIDE DEF f
  <1>7. \A i \in 0..n : f[i] = IF i = 0 THEN 0 ELSE f[i - 1] + s[i]
    BY <1>5
  <1>8. 0 \in 0..n /\ \A k \in 1..n : k \in 0..n /\ k # 0
    BY <1>1
  <1> QED
    BY <1>6, <1>7, <1>8 DEF n

\* One more number.
LEMMA TotalAppend ==
  ASSUME NEW s \in Seq(Nat), NEW t \in Seq(Nat), Len(t) = Len(s) + 1, \A i \in 1..Len(s) : t[i] = s[i]
  PROVE  Total(s) \in Nat /\ Total(t) = Total(s) + t[Len(s) + 1]
  <1> DEFINE n == Len(s)
             f == Sums(s)
             g == Sums(t)
  <1>1. n \in Nat /\ Len(t) = n + 1 /\ (\A i \in 1..n : s[i] \in Nat /\ t[i] = s[i]) /\ t[n + 1] \in Nat
    <2>1. n + 1 \in 1..Len(t)
      OBVIOUS
    <2> QED
      BY <2>1
  <1>2. f[0] = 0 /\ \A k \in 1..n : f[k] = f[k - 1] + s[k]
    BY <1>1, SumsSteps
  <1>3. g[0] = 0 /\ \A k \in 1..n + 1 : g[k] = g[k - 1] + t[k]
    BY <1>1, SumsSteps
  <1>4. Total(s) = f[n] /\ Total(t) = g[n + 1]
    BY <1>1 DEF Total, Sums
  <1> HIDE DEF n, f, g
  <1>5. \A k \in 0..n : f[k] \in Nat /\ g[k] = f[k]
    <2> DEFINE Good(k) == f[k] \in Nat /\ g[k] = f[k]
               bad == {k \in 0..n : ~Good(k)}
    <2>1. bad \in SUBSET Nat /\ \A k \in bad : k \in 0..n
      BY <1>1
    <2>2. ASSUME bad # {} PROVE FALSE
      <3>1. PICK k \in bad : \A j \in bad : k <= j
        BY <2>1, <2>2, LeastNumber
      <3>2. k \in 0..n /\ ~Good(k)
        OBVIOUS
      <3>3. k # 0
        BY <1>2, <1>3, <3>2
      <3>4. k \in 1..n /\ k - 1 \in 0..n /\ ~(k <= k - 1) /\ k \in 1..n + 1
        BY <1>1, <3>2, <3>3
      <3>5. Good(k - 1)
        BY <3>1, <3>4
      <3>6. f[k] = f[k - 1] + s[k] /\ g[k] = g[k - 1] + s[k] /\ s[k] \in Nat
        BY <1>1, <1>2, <1>3, <3>4
      <3> QED
        BY <3>2, <3>5, <3>6
    <2> QED
      BY <2>2
  <1>6. n \in 0..n /\ n + 1 \in 1..n + 1 /\ n + 1 - 1 = n
    BY <1>1
  <1>7. g[n + 1] = f[n] + t[n + 1] /\ f[n] \in Nat
    BY <1>3, <1>5, <1>6
  <1> QED
    BY <1>4, <1>7 DEF n

\* Nothing adds up to nothing.
LEMMA TotalNothing == \A s : Len(s) = 0 => Total(s) = 0
  <1> SUFFICES ASSUME NEW s, Len(s) = 0 PROVE Total(s) = 0
    OBVIOUS
  <1>1. Sums(s)[0] = 0
    BY SumsSteps
  <1>2. Total(s) = Sums(s)[Len(s)]
    BY Zenon DEF Total, Sums
  <1> QED
    BY <1>1, <1>2

\* A trace more: what it adds and removes is added to the sums.
LEMMA AllCounted ==
  ASSUME Counted, Counted', NEW y, traces' = Append(traces, y)
  PROVE  /\ AllAdded \in Nat /\ AllRemoved \in Nat
         /\ AllAdded' = AllAdded + y.added /\ AllRemoved' = AllRemoved + y.removed
  <1> DEFINE n == Len(traces)
             u == Append(traces, y)
  <1>1. /\ IsList(traces) /\ n \in Nat /\ DOMAIN traces = 1..n
        /\ \A i \in 1..n : traces[i].added \in Nat /\ traces[i].removed \in Nat
    BY ListFacts DEF Counted, TraceRecord
  <1>2. IsList(u) /\ Len(u) = n + 1 /\ (\A i \in 1..n : u[i] = traces[i]) /\ u[n + 1] = y
    BY <1>1, AppendList
  <1>3. DOMAIN u = 1..n + 1
    BY <1>2, ListFacts
  <1>4. u = traces'
    OBVIOUS
  <1>5. \A i \in 1..n + 1 : u[i].added \in Nat /\ u[i].removed \in Nat
    BY <1>2, <1>4 DEF Counted, TraceRecord
  <1> DEFINE a == [i \in 1..n |-> traces[i].added]
             b == [i \in 1..n + 1 |-> u[i].added]
             c == [i \in 1..n |-> traces[i].removed]
             d == [i \in 1..n + 1 |-> u[i].removed]
  <1>6. AllAdded = Total(a) /\ AllAdded' = Total(b) /\ AllRemoved = Total(c) /\ AllRemoved' = Total(d)
    BY <1>1, <1>3, <1>4 DEF AllAdded, AllRemoved
  <1> HIDE DEF u, n
  <1>7. a \in Seq(Nat) /\ b \in Seq(Nat) /\ Len(a) = n /\ Len(b) = n + 1 /\ \A i \in 1..n : b[i] = a[i]
    <2>1. n + 1 \in Nat /\ a \in [1..n -> Nat] /\ b \in [1..n + 1 -> Nat]
      BY <1>1, <1>5
    <2>2. \A i \in 1..n : i \in 1..n + 1
      BY <1>1
    <2>3. \A i \in 1..n : b[i] = a[i]
      BY <1>2, <2>2
    <2> HIDE DEF a, b
    <2> QED
      BY <1>1, <2>1, <2>3, SeqDef
  <1>8. c \in Seq(Nat) /\ d \in Seq(Nat) /\ Len(c) = n /\ Len(d) = n + 1 /\ \A i \in 1..n : d[i] = c[i]
    <2>1. n + 1 \in Nat /\ c \in [1..n -> Nat] /\ d \in [1..n + 1 -> Nat]
      BY <1>1, <1>5
    <2>2. \A i \in 1..n : i \in 1..n + 1
      BY <1>1
    <2>3. \A i \in 1..n : d[i] = c[i]
      BY <1>2, <2>2
    <2> HIDE DEF c, d
    <2> QED
      BY <1>1, <2>1, <2>3, SeqDef
  <1>9. b[n + 1] = y.added /\ d[n + 1] = y.removed
    BY <1>1, <1>2
  <1> HIDE DEF a, b, c, d
  <1>10. Total(a) \in Nat /\ Total(b) = Total(a) + b[n + 1] /\ Total(c) \in Nat /\ Total(d) = Total(c) + d[n + 1]
    BY <1>7, <1>8, TotalAppend
  <1> QED
    BY <1>6, <1>9, <1>10

-----------------------------------------------------------------------------
(* The run and what is told of it. *)

\* A patch of one operation did what that does, and its trace tells it.
Alone(b, c, y, q) ==
  q.matched /\ Len(q.ops) = 1 => IsConfig(b) /\ c = Exec(b, q.path, q.ops[1]) /\ y = Summary(b, q.path, q.ops[1])
\* By how much the arrays have grown.
Grown == GrownAt(<<"rules">>) + GrownAt(<<"authentication">>) + GrownAt(<<"dns">>) + GrownAt(<<"dns", "list">>)
OnlyLists == \A n \in 1..Len(program) : \A o \in Range(program[n].ops) : o.op \in ListOps
\* There is a trace of every operation that has run, of which it tells all.
Seen ==
  /\ Len(traces) = Ends(program, place) - Len(todo)
  /\ todo # <<>> /\ Len(todo) = Len(Current.ops) => config = Before(place)
  /\ \A n \in 1..Len(snapshots) :
       /\ Told(Before(n), snapshots[n], program[n])
       /\ Alone(Before(n), snapshots[n], traces[Ends(program, n - 1) + 1], program[n])
  /\ todo # <<>> => Told(Before(place), config, Current)
  /\ OnlyLists => AllAdded - AllRemoved = Grown

\* An array has a length.
LEMMA LengthType ==
  ASSUME NEW c, IsConfig(c), NEW p \in Paths
  PROVE  Length(c, p) \in Nat
  <1>1. Get(c, p).items \in Seq(Items)
    BY GetIsJSON DEF IsJSON
  <1> QED
    BY <1>1 DEF Length

\* Before the first step nothing is told.
LEMMA SeenBegins == Begins => Seen
  <1> SUFFICES ASSUME Begins PROVE Seen
    OBVIOUS
  <1>1. /\ IsProgram(program) /\ config = base /\ place = 0 /\ todo = <<>> /\ traces = <<>> /\ snapshots = <<>> /\ base \in Bases
    BY DEF Begins
  <1>2. Len(<<>>) = 0 /\ DOMAIN <<>> = {}
    OBVIOUS
  <1>3. Ends(program, 0) = 0
    BY <1>1, LogHolds
  <1>4. AllAdded = 0 /\ AllRemoved = 0
    <2> DEFINE a == [i \in DOMAIN traces |-> traces[i].added]
               r == [i \in DOMAIN traces |-> traces[i].removed]
    <2>1. a = <<>> /\ r = <<>>
      BY <1>1, <1>2
    <2> HIDE DEF a, r
    <2>2. Total(a) = 0 /\ Total(r) = 0
      BY <1>2, <2>1, TotalNothing
    <2> QED
      BY <2>2 DEF AllAdded, AllRemoved, a, r
  <1>5. \A p \in Paths : GrownAt(p) = 0
    <2> SUFFICES ASSUME NEW p \in Paths PROVE GrownAt(p) = 0
      OBVIOUS
    <2>1. Length(config, p) \in Nat
      BY <1>1, BasesAreRoots, LengthType
    <2>2. Length(config, p) = Length(base, p)
      BY <1>1
    <2> QED
      BY <2>1, <2>2 DEF GrownAt
  <1>6. Grown = 0
    BY <1>5 DEF Grown, Paths
  <1>7. \A n \in 1..0 : FALSE
    OBVIOUS
  <1> QED
    BY <1>1, <1>2, <1>3, <1>4, <1>6, <1>7 DEF Seen

\* Taking a patch changes nothing of it.
LEMMA SeenTakes ==
  ASSUME Going, Seen, TakePatch
  PROVE  Seen'
  <1> DEFINE q == program[place']
  <1>1. /\ todo = <<>> /\ place' = place + 1 /\ place' \in 1..Len(program) /\ Len(snapshots) = place
        /\ UNCHANGED <<base, program, config, traces, snapshots, alike>>
        /\ config = Before(place') /\ IsPatch(q) /\ Current' = q
        /\ Runs(todo', q)
        /\ \A n \in 1..Len(snapshots) + 1 : Before(n)' = Before(n)
    BY TakeFrame
  <1>2. IsProgram(program) /\ place \in 0..Len(program) /\ Len(program) \in Nat
    BY ProgramFacts DEF Going
  <1>3. Len(todo') = Len(q.ops) /\ Len(q.ops) \in Nat
    BY <1>1, ListFacts DEF Runs, IsPatch
  <1>4. Ends(program, place') = Ends(program, place) + Len(q.ops) /\ Ends(program, place) \in Nat
    <2>1. place' - 1 = place
      BY <1>1, <1>2
    <2> QED
      BY <1>1, <1>2, <2>1, LogHolds
  <1>5. Before(place)' = config
    <2>1. Before(place)' = IF place' = 1 THEN base' ELSE snapshots'[place' - 1]
      BY DEF Before
    <2> QED
      BY <1>1, <2>1 DEF Before
  <1> HIDE DEF q
  <1>6. Len(traces) = Ends(program, place)
    <2>1. Len(todo) = 0
      BY <1>1
    <2> QED
      BY <1>4, <2>1 DEF Seen
  <1>7. Len(traces') = Ends(program', place') - Len(todo')
    BY <1>1, <1>3, <1>4, <1>6
  <1>8. Told(config, config, q)
    BY DEF Told
  <1>9. \A n \in 1..Len(snapshots) :
          /\ Told(Before(n)', snapshots'[n], program'[n])
          /\ Alone(Before(n)', snapshots'[n], traces'[Ends(program', n - 1) + 1], program'[n])
    <2> SUFFICES ASSUME NEW n \in 1..Len(snapshots)
                 PROVE  /\ Told(Before(n)', snapshots'[n], program'[n])
                        /\ Alone(Before(n)', snapshots'[n], traces'[Ends(program', n - 1) + 1], program'[n])
      OBVIOUS
    <2>1. Before(n)' = Before(n)
      BY <1>1 DEF Before
    <2> QED
      BY <1>1, <2>1 DEF Seen
  <1>10. OnlyLists' => AllAdded' - AllRemoved' = Grown'
    BY <1>1 DEF Seen, OnlyLists, AllAdded, AllRemoved, Grown, GrownAt
  <1> QED
    BY <1>1, <1>5, <1>7, <1>8, <1>9, <1>10 DEF Seen

\* The paths are four.
LEMMA FourPaths ==
  /\ <<"rules">> # <<"authentication">> /\ <<"rules">> # <<"dns">> /\ <<"rules">> # <<"dns", "list">>
  /\ <<"authentication">> # <<"dns">> /\ <<"authentication">> # <<"dns", "list">> /\ <<"dns">> # <<"dns", "list">>
  <1>1. /\ <<"rules">>[1] = "rules" /\ <<"dns">>[1] = "dns" /\ <<"dns", "list">>[1] = "dns" /\ <<"authentication">>[1] = "authentication"
        /\ Len(<<"dns">>) = 1 /\ Len(<<"dns", "list">>) = 2
    OBVIOUS
  <1> QED
    BY <1>1

\* The arrays of a configuration, all together.
Lengths(c) == Length(c, <<"rules">>) + Length(c, <<"authentication">>) + Length(c, <<"dns">>) + Length(c, <<"dns", "list">>)
\* An array operation makes them longer by what its trace counts.
LEMMA LengthsGrow ==
  ASSUME NEW c, IsConfig(c), NEW p \in Paths, NEW o, IsOperation(o), o.op \in ListOps
  PROVE  Lengths(Exec(c, p, o)) - Lengths(c) = Summary(c, p, o).added - Summary(c, p, o).removed
  <1> DEFINE e == Exec(c, p, o)
             y == Summary(c, p, o)
  <1>1. IsConfig(e)
    BY ExecIsConfig
  <1>2. \A r \in Paths : Length(e, r) \in Nat /\ Length(c, r) \in Nat
    BY <1>1, LengthType
  <1>3. Length(e, p) - Length(c, p) = y.added - y.removed
    BY SummaryCounts
  <1>4. ASSUME NEW r \in Paths, r # p PROVE Length(e, r) = Length(c, r)
    <2>1. Get(e, r) = Get(c, r) \/ (~IsArray(e, r) /\ ~IsArray(c, r))
      BY <1>4, ListOpElsewhere
    <2> HIDE DEF e
    <2> QED
      BY <2>1 DEF Length, IsArray
  <1>5. y.added \in Nat /\ y.removed \in Nat
    <2>1. y \in TraceRecord
      BY SummaryType
    <2> HIDE DEF y
    <2> QED
      BY <2>1 DEF TraceRecord
  <1> HIDE DEF e, y
  <1>6. Lengths(e) - Lengths(c) = y.added - y.removed
    <2> DEFINE a(r) == Length(e, r)
               b(r) == Length(c, r)
    <2>1. /\ <<"rules">> \in Paths /\ <<"authentication">> \in Paths /\ <<"dns">> \in Paths /\ <<"dns", "list">> \in Paths
          /\ p \in {<<"rules">>, <<"authentication">>, <<"dns">>, <<"dns", "list">>}
      BY DEF Paths
    <2>2. a(p) - b(p) = y.added - y.removed /\ a(p) \in Nat /\ b(p) \in Nat
      BY <1>2, <1>3
    <2>3. \A r \in Paths : a(r) \in Nat /\ b(r) \in Nat /\ (r # p => a(r) = b(r))
      BY <1>2, <1>4
    <2>4. /\ Lengths(e) = a(<<"rules">>) + a(<<"authentication">>) + a(<<"dns">>) + a(<<"dns", "list">>)
          /\ Lengths(c) = b(<<"rules">>) + b(<<"authentication">>) + b(<<"dns">>) + b(<<"dns", "list">>)
      BY DEF Lengths
    <2> HIDE DEF a, b
    <2>5. CASE p = <<"rules">>
      <3>1. a(<<"authentication">>) = b(<<"authentication">>) /\ a(<<"dns">>) = b(<<"dns">>) /\ a(<<"dns", "list">>) = b(<<"dns", "list">>)
        BY <2>1, <2>3, <2>5, FourPaths
      <3>2. b(<<"authentication">>) \in Nat /\ b(<<"dns">>) \in Nat /\ b(<<"dns", "list">>) \in Nat
        BY <2>1, <2>3
      <3> QED
        BY <1>5, <2>2, <2>4, <2>5, <3>1, <3>2
    <2>6. CASE p = <<"authentication">>
      <3>1. a(<<"rules">>) = b(<<"rules">>) /\ a(<<"dns">>) = b(<<"dns">>) /\ a(<<"dns", "list">>) = b(<<"dns", "list">>)
        BY <2>1, <2>3, <2>6, FourPaths
      <3>2. b(<<"rules">>) \in Nat /\ b(<<"dns">>) \in Nat /\ b(<<"dns", "list">>) \in Nat
        BY <2>1, <2>3
      <3> QED
        BY <1>5, <2>2, <2>4, <2>6, <3>1, <3>2
    <2>7. CASE p = <<"dns">>
      <3>1. a(<<"rules">>) = b(<<"rules">>) /\ a(<<"authentication">>) = b(<<"authentication">>) /\ a(<<"dns", "list">>) = b(<<"dns", "list">>)
        BY <2>1, <2>3, <2>7, FourPaths
      <3>2. b(<<"rules">>) \in Nat /\ b(<<"authentication">>) \in Nat /\ b(<<"dns", "list">>) \in Nat
        BY <2>1, <2>3
      <3> QED
        BY <1>5, <2>2, <2>4, <2>7, <3>1, <3>2
    <2>8. CASE p = <<"dns", "list">>
      <3>1. a(<<"rules">>) = b(<<"rules">>) /\ a(<<"authentication">>) = b(<<"authentication">>) /\ a(<<"dns">>) = b(<<"dns">>)
        BY <2>1, <2>3, <2>8, FourPaths
      <3>2. b(<<"rules">>) \in Nat /\ b(<<"authentication">>) \in Nat /\ b(<<"dns">>) \in Nat
        BY <2>1, <2>3
      <3> QED
        BY <1>5, <2>2, <2>4, <2>8, <3>1, <3>2
    <2> QED
      BY <2>1, <2>5, <2>6, <2>7, <2>8
  <1> QED
    BY <1>6 DEF e, y

\* An operation is run: its trace is told with the others.
LEMMA SeenRuns ==
  ASSUME Going, Counted, Counted', Seen, RunOp
  PROVE  Seen'
  <1> DEFINE q == Current
             b == Before(place)
             h == Head(todo)
             y == IF q.matched THEN Summary(config, q.path, h) ELSE Skipped
             N == Len(q.ops)
  <1>1. /\ todo # <<>> /\ Len(todo') = Len(todo) - 1
        /\ UNCHANGED <<base, program, place>>
        /\ place \in 1..Len(program) /\ Len(snapshots) = place - 1 /\ IsPatch(q) /\ Current' = Current
        /\ Len(todo) \in Nat \ {0}
        /\ IsOperation(h) /\ h \in Range(q.ops) /\ q.path \in Paths
        /\ IsConfig(config) /\ IsConfig(config')
        /\ config' = IF q.matched THEN Exec(config, q.path, h) ELSE config
        /\ \A n \in 1..place - 1 : snapshots'[n] = snapshots[n]
        /\ \A n \in 1..place : Before(n)' = Before(n)
        /\ todo' = <<>> <=> Len(todo) = 1
        /\ todo' = <<>> => Len(snapshots') = place /\ snapshots'[place] = config'
        /\ todo' # <<>> => snapshots' = snapshots
    BY RunFrame
  <1>2. IsProgram(program) /\ Len(program) \in Nat /\ Len(todo) <= N
    BY <1>1, ProgramFacts DEF Going
  <1>3. traces' = Append(traces, y)
    BY DEF RunOp
  <1>4. /\ IsList(traces) /\ Len(traces) \in Nat
        /\ Len(traces') = Len(traces) + 1
        /\ \A i \in 1..Len(traces) : traces'[i] = traces[i]
        /\ traces'[Len(traces) + 1] = y
    BY <1>3, AppendList, ListFacts DEF Counted
  <1>5. /\ Ends(program, place) = Ends(program, place - 1) + N /\ Ends(program, place) \in Nat
        /\ Ends(program, place - 1) \in Nat /\ N \in Nat \ {0}
        /\ LogIs(program, place - 1)
    <2>1. place - 1 \in 0..Len(program) /\ place \in 0..Len(program)
      BY <1>1, <1>2
    <2>2. N \in Nat \ {0}
      BY <1>1, ListFacts DEF IsPatch
    <2> QED
      BY <1>1, <1>2, <2>1, <2>2, LogHolds DEF Current
  <1>6. Len(traces) = Ends(program, place) - Len(todo)
    BY DEF Seen
  <1>7. Before(place)' = b
    <2>1. place \in 1..place
      BY <1>1, <1>2
    <2>2. Before(place)' = IF place' = 1 THEN base' ELSE snapshots'[place' - 1]
      BY DEF Before
    <2>3. place # 1 => place - 1 \in 1..place - 1
      BY <1>1, <1>2
    <2> QED
      BY <1>1, <2>2, <2>3 DEF Before
  <1>8. Told(b, config, q) /\ (Len(todo) = N => config = b)
    BY <1>1 DEF Seen
  <1> HIDE DEF b, h, y, N
  <1>9. Told(b, config', q)
    <2>1. CASE q.matched
      <3>1. config' = Exec(config, q.path, h)
        BY <1>1, <2>1
      <3> QED
        BY <1>1, <1>8, <2>1, <3>1, ToldStep
    <2>2. CASE ~q.matched
      BY <1>1, <1>8, <2>2
    <2> QED
      BY <2>1, <2>2
  <1>10. Len(traces') = Ends(program', place') - Len(todo')
    BY <1>1, <1>4, <1>5, <1>6
  <1>11. ~(Len(todo') = N)
    BY <1>1, <1>2, <1>5
  <1>12. \A n \in 1..place - 1 :
           /\ Told(Before(n)', snapshots'[n], program'[n])
           /\ Alone(Before(n)', snapshots'[n], traces'[Ends(program', n - 1) + 1], program'[n])
    <2> SUFFICES ASSUME NEW n \in 1..place - 1
                 PROVE  /\ Told(Before(n)', snapshots'[n], program'[n])
                        /\ Alone(Before(n)', snapshots'[n], traces'[Ends(program', n - 1) + 1], program'[n])
      OBVIOUS
    <2>1. n \in 1..place /\ n \in 1..Len(program)
      BY <1>1, <1>2
    <2>2. Before(n)' = Before(n) /\ snapshots'[n] = snapshots[n] /\ program' = program
      BY <1>1, <2>1
    <2>3. Ends(program, n - 1) + 1 \in 1..Len(traces)
      <3>1. 1 \in 1..Len(program[n].ops)
        BY <1>2, <2>1, TracesOfPatch
      <3>2. Ends(program, n - 1) + 1 \in 1..Ends(program, place - 1)
        BY <1>5, <3>1 DEF LogIs, Ends
      <3>3. Ends(program, place - 1) <= Len(traces)
        BY <1>1, <1>2, <1>5, <1>6
      <3> QED
        BY <1>4, <1>5, <3>2, <3>3
    <2>4. /\ Told(Before(n), snapshots[n], program[n])
          /\ Alone(Before(n), snapshots[n], traces[Ends(program, n - 1) + 1], program[n])
      BY <1>1 DEF Seen
    <2>5. traces'[Ends(program, n - 1) + 1] = traces[Ends(program, n - 1) + 1]
      BY <1>4, <2>3
    <2> QED
      BY <2>2, <2>4, <2>5
  <1>13. ASSUME Len(todo) = 1 PROVE Alone(b, config', traces'[Ends(program, place - 1) + 1], q)
    <2> SUFFICES ASSUME q.matched, N = 1
                 PROVE  IsConfig(b) /\ config' = Exec(b, q.path, q.ops[1]) /\ traces'[Ends(program, place - 1) + 1] = Summary(b, q.path, q.ops[1])
      BY DEF Alone, N
    <2>1. config = b
      BY <1>8, <1>13
    <2>2. h = q.ops[1]
      <3>1. DOMAIN q.ops = 1..1
        BY <1>1, ListFacts DEF IsPatch, N
      <3>2. \A i \in 1..1 : i = 1
        OBVIOUS
      <3> QED
        BY <1>1, <3>1, <3>2 DEF Range
    <2>3. Ends(program, place - 1) + 1 = Len(traces) + 1
      BY <1>5, <1>6, <1>13
    <2>4. y = Summary(config, q.path, h)
      BY DEF y
    <2> QED
      BY <1>1, <1>4, <2>1, <2>2, <2>3, <2>4
  <1>14. OnlyLists' => AllAdded' - AllRemoved' = Grown'
    <2> SUFFICES ASSUME OnlyLists' PROVE AllAdded' - AllRemoved' = Grown'
      OBVIOUS
    <2>1. OnlyLists /\ h.op \in ListOps
      BY <1>1 DEF OnlyLists, Current
    <2>2. AllAdded - AllRemoved = Grown
      BY <2>1 DEF Seen
    <2>3. /\ AllAdded \in Nat /\ AllRemoved \in Nat
          /\ AllAdded' = AllAdded + y.added /\ AllRemoved' = AllRemoved + y.removed
      BY <1>3, AllCounted
    <2>4. y.added \in Nat /\ y.removed \in Nat /\ Lengths(config') - Lengths(config) = y.added - y.removed
      <3>1. \A c : IsConfig(c) => Lengths(c) \in Nat
        BY LengthType DEF Lengths, Paths
      <3>2. CASE q.matched
        <4>1. y = Summary(config, q.path, h) /\ config' = Exec(config, q.path, h)
          BY <1>1, <3>2 DEF y
        <4>2. Summary(config, q.path, h) \in TraceRecord
          BY <1>1, SummaryType
        <4>3. y.added \in Nat /\ y.removed \in Nat
          BY <4>1, <4>2 DEF TraceRecord
        <4>4. Lengths(Exec(config, q.path, h)) - Lengths(config) = Summary(config, q.path, h).added - Summary(config, q.path, h).removed
          BY <1>1, <2>1, LengthsGrow
        <4> QED
          BY <4>1, <4>3, <4>4
      <3>3. CASE ~q.matched
        <4>1. y = Skipped /\ config' = config
          BY <1>1, <3>3 DEF y
        <4>2. y.added = 0 /\ y.removed = 0
          BY <4>1 DEF Skipped
        <4> QED
          BY <1>1, <3>1, <4>1, <4>2
      <3> QED
        BY <3>2, <3>3
    <2>5. Grown \in Int /\ Grown' \in Int /\ Grown' - Grown = Lengths(config') - Lengths(config)
      <3>1. IsConfig(base)
        BY BasesAreRoots DEF Going
      <3>2. \A c : IsConfig(c) => Lengths(c) \in Nat /\ \A p \in Paths : Length(c, p) \in Nat
        BY LengthType DEF Lengths, Paths
      <3>3. ASSUME NEW c, IsConfig(c)
            PROVE  /\ Lengths(c) - Lengths(base) \in Int
                   /\ Lengths(c) - Lengths(base) =
                        (Length(c, <<"rules">>) - Length(base, <<"rules">>))
                        + (Length(c, <<"authentication">>) - Length(base, <<"authentication">>))
                        + (Length(c, <<"dns">>) - Length(base, <<"dns">>))
                        + (Length(c, <<"dns", "list">>) - Length(base, <<"dns", "list">>))
        <4>1. /\ <<"rules">> \in Paths /\ <<"authentication">> \in Paths
              /\ <<"dns">> \in Paths /\ <<"dns", "list">> \in Paths
          BY DEF Paths
        <4> QED
          BY <3>1, <3>2, <3>3, <4>1 DEF Lengths
      <3>4. Grown = Lengths(config) - Lengths(base)
        BY <1>1, <3>3 DEF Grown, GrownAt
      <3>5. Grown' = Lengths(config') - Lengths(base)
        BY <1>1, <3>3 DEF Grown, GrownAt
      <3> QED
        <4>1. Lengths(config) \in Nat /\ Lengths(config') \in Nat /\ Lengths(base) \in Nat
          BY <1>1, <3>1, <3>2
        <4> DEFINE k == Lengths(config)
                   m == Lengths(config')
                   z == Lengths(base)
        <4>2. k \in Nat /\ m \in Nat /\ z \in Nat /\ Grown = k - z /\ Grown' = m - z
          BY <3>4, <3>5, <4>1
        <4> HIDE DEF k, m, z
        <4>3. Grown \in Int /\ Grown' \in Int /\ Grown' - Grown = m - k
          BY <4>2
        <4> QED
          BY <4>3 DEF k, m
    <2>6. Grown' - Grown = y.added - y.removed
      BY <2>4, <2>5
    <2> DEFINE a == y.added
               r == y.removed
    <2>7. a \in Nat /\ r \in Nat /\ AllAdded' = AllAdded + a /\ AllRemoved' = AllRemoved + r /\ Grown' - Grown = a - r
      BY <2>3, <2>4, <2>6
    <2>8. AllAdded \in Nat /\ AllRemoved \in Nat /\ Grown \in Int /\ Grown' \in Int
      BY <2>3, <2>5
    <2> HIDE DEF a, r
    <2>9. (AllAdded + a) - (AllRemoved + r) = Grown'
      <3> DEFINE A == AllAdded
                 R == AllRemoved
                 g == Grown
                 k == Grown'
      <3>1. A \in Nat /\ R \in Nat /\ a \in Nat /\ r \in Nat /\ g \in Int /\ k \in Int
        BY <2>7, <2>8
      <3>2. A - R = g /\ k - g = a - r
        BY <2>2, <2>7
      <3> HIDE DEF A, R, g, k
      <3>3. (A + a) - (R + r) = k
        BY <3>1, <3>2
      <3> QED
        BY <3>3 DEF A, R, k
    <2> QED
      BY <2>7, <2>9, Zenon
  <1>15. CASE todo' # <<>>
    <2>1. snapshots' = snapshots
      BY <1>1, <1>15
    <2> QED
      BY <1>1, <1>2, <1>7, <1>9, <1>10, <1>11, <1>12, <1>14, <1>15, <2>1 DEF Seen, N
  <1>16. CASE todo' = <<>>
    <2>1. Len(snapshots') = place /\ snapshots'[place] = config' /\ Len(todo) = 1
      BY <1>1, <1>16
    <2>2. /\ Told(Before(place)', snapshots'[place], program'[place])
          /\ Alone(Before(place)', snapshots'[place], traces'[Ends(program', place - 1) + 1], program'[place])
      <3>1. program'[place] = q
        BY <1>1 DEF Current
      <3>2. Alone(b, config', traces'[Ends(program, place - 1) + 1], q)
        BY <1>13, <2>1
      <3> HIDE DEF q
      <3> QED
        BY <1>1, <1>7, <1>9, <2>1, <3>1, <3>2
    <2>3. ASSUME NEW n \in 1..place
          PROVE  /\ Told(Before(n)', snapshots'[n], program'[n])
                 /\ Alone(Before(n)', snapshots'[n], traces'[Ends(program', n - 1) + 1], program'[n])
      <3>1. CASE n = place
        <4>1. Before(n)' = Before(place)'
          BY <1>1, <3>1 DEF Before
        <4> QED
          BY <2>2, <3>1, <4>1
      <3>2. CASE n # place
        <4>1. n \in 1..place - 1
          BY <1>1, <1>2, <3>2
        <4> QED
          BY <1>12, <4>1
      <3> QED
        BY <3>1, <3>2
    <2> QED
      BY <1>10, <1>14, <1>16, <2>1, <2>3 DEF Seen
  <1> QED
    BY <1>15, <1>16

\* The account of what is told goes on as the run does.
LEMMA SeenKeeps == Going /\ Counted /\ Counted' /\ Seen /\ [Next]_vars => Seen'
  <1> SUFFICES ASSUME Going, Counted, Counted', Seen, [Next]_vars PROVE Seen'
    OBVIOUS
  <1>1. CASE Finished \/ UNCHANGED vars
    BY <1>1 DEF Finished, vars, Seen, Before, Current, OnlyLists, AllAdded, AllRemoved, Grown, GrownAt
  <1> QED
    BY <1>1, SeenTakes, SeenRuns DEF Next

-----------------------------------------------------------------------------
(* When the run has ended. *)

Over ==
  LET N == Len(program) IN
  /\ IsProgram(program) /\ N \in Nat /\ Len(snapshots) = N /\ IsList(snapshots)
  /\ DOMAIN snapshots = 1..N /\ DOMAIN program = 1..N /\ DOMAIN traces = 1..Len(traces)
  /\ IsList(TraceLog) /\ Len(TraceLog) = Len(traces) /\ Len(traces) \in Nat /\ DOMAIN TraceLog = 1..Len(traces)
  /\ (traces = <<>> <=> Len(traces) = 0)
  /\ LogIs(program, N)
\* There is then a trace in the log for each that was left.
LEMMA OverIs ==
  ASSUME Going, Counted, Seen, Ended
  PROVE  Over
  <1>1. IsProgram(program) /\ Len(program) \in Nat /\ DOMAIN program = 1..Len(program)
    BY ProgramFacts, ListFacts DEF Going, IsProgram
  <1>2. todo = <<>> /\ place = Len(program) /\ Len(snapshots) = place /\ DOMAIN snapshots = 1..place
    BY ListFacts DEF Ended, Going
  <1>3. LogIs(program, Len(program)) /\ Ends(program, Len(program)) \in Nat
    BY <1>1, LogHolds
  <1>4. Len(todo) = 0
    BY <1>2
  <1>5. Len(traces) = Ends(program, Len(program))
    BY <1>2, <1>3, <1>4 DEF Seen
  <1>6. IsList(TraceLog) /\ Len(TraceLog) = Ends(program, Len(program))
    BY <1>3 DEF LogIs, Ends, TraceLog
  <1>7. Len(traces) \in Nat /\ DOMAIN traces = 1..Len(traces) /\ DOMAIN TraceLog = 1..Len(TraceLog) /\ (traces = <<>> <=> Len(traces) = 0)
    BY <1>6, ListFacts DEF Counted
  <1> QED
    BY <1>1, <1>2, <1>3, <1>5, <1>6, <1>7 DEF Over, Going

\* The k-th operation of the n-th patch has its trace.
LEMMA LoggedAt ==
  ASSUME Over, NEW n \in 1..Len(program), NEW k \in 1..Len(program[n].ops)
  PROVE  LET i == Ends(program, n - 1) + k IN
         /\ i \in DOMAIN TraceLog /\ i \in 1..Len(traces)
         /\ TraceLog[i].patch = n /\ TraceLog[i].op = AllOps(program[n].ops)[k]
  <1> DEFINE i == Ends(program, n - 1) + k
  <1>1. i \in 1..Len(TraceLog) /\ TraceLog[i] = [patch |-> n, op |-> AllOps(program[n].ops)[k]]
    BY DEF Over, LogIs, TraceLog
  <1> QED
    BY <1>1 DEF Over

\* Adds, Drops and Rewrites of a trace.
LEMMA ItemsOf ==
  ASSUME Over, Counted, NEW i \in DOMAIN TraceLog, NEW n \in 1..Len(program), TraceLog[i].patch = n,
         NEW o, IsOperation(o), TraceLog[i].op = o, program[n].matched, ~Guarded(program[n].path)
  PROVE  /\ o.op \in {"prepend", "append"} => Adds(i) = NewItems(o.val)
         /\ o.op \notin {"prepend", "append"} => Adds(i) = <<>>
         /\ Len(Drops(i)) = traces[i].removed
         /\ Range(Adds(i)) \subseteq Range(Adds(i) \o Drops(i) \o Rewrites(i))
  <1>1. o.op \in {"prepend", "append"} => Adds(i) = NewItems(o.val)
    BY DEF Adds
  <1>2. o.op \notin {"prepend", "append"} => Adds(i) = <<>>
    BY DEF Adds
  <1>3. traces[i].removed \in Nat /\ traces[i].modified \in Nat
    <2>1. traces[i] \in TraceRecord
      BY DEF Over, Counted
    <2> QED
      BY <2>1 DEF TraceRecord
  <1>4. Drops(i) \in Seq({Unnamed}) /\ Rewrites(i) \in Seq({Unnamed}) /\ Len(Drops(i)) = traces[i].removed
    <2>1. \A m \in Nat : [k \in 1..m |-> Unnamed] \in Seq({Unnamed}) /\ Len([k \in 1..m |-> Unnamed]) = m
      OBVIOUS
    <2> QED
      BY <1>3, <2>1 DEF Drops, Rewrites
  <1>5. IsList(Adds(i))
    <2>1. CASE o.op \in {"prepend", "append"}
      <3>1. NewItems(o.val) \in Seq(Items)
        BY <2>1, NewItemsList
      <3> QED
        BY <1>1, <2>1, <3>1, ListOf
    <2>2. CASE o.op \notin {"prepend", "append"}
      <3>1. <<>> \in Seq({})
        OBVIOUS
      <3> QED
        BY <1>2, <2>2, <3>1, ListOf
    <2> QED
      BY <2>1, <2>2
  <1>6. Range(Adds(i)) \subseteq Range(Adds(i) \o Drops(i) \o Rewrites(i))
    <2> DEFINE a == Adds(i)
               d == Drops(i)
               r == Rewrites(i)
    <2>1. IsList(a) /\ IsList(d) /\ IsList(r)
      BY <1>4, <1>5, ListOf
    <2> HIDE DEF a, d, r
    <2>2. ASSUME NEW s, NEW t, IsList(s), IsList(t) PROVE IsList(s \o t) /\ Range(s) \subseteq Range(s \o t)
      <3>1. IsList(s \o t) /\ Len(s \o t) = Len(s) + Len(t) /\ \A j \in 1..Len(s) : (s \o t)[j] = s[j]
        BY <2>2, ConcatList
      <3>2. Len(s) \in Nat /\ Len(t) \in Nat /\ Range(s) = {s[j] : j \in 1..Len(s)}
            /\ Range(s \o t) = {(s \o t)[j] : j \in 1..Len(s \o t)}
        BY <2>2, <3>1, ListFacts
      <3>3. 1..Len(s) \subseteq 1..Len(s \o t)
        BY <3>1, <3>2
      <3> QED
        BY <3>1, <3>2, <3>3
    <2>3. IsList(a \o d) /\ Range(a) \subseteq Range(a \o d)
      BY <2>1, <2>2
    <2>4. Range(a \o d) \subseteq Range(a \o d \o r)
      BY <2>1, <2>2, <2>3
    <2>5. Range(a) \subseteq Range(a \o d \o r)
      BY <2>3, <2>4
    <2> QED
      BY <2>5 DEF a, d, r
  <1> QED
    BY <1>1, <1>2, <1>4, <1>6

\* Every patch of a file that changed a path, or brought an item, is named.
LEMMA ExplainHolds ==
  ASSUME Over, Counted, Seen
  PROVE  ExplainComplete
  <1> SUFFICES ASSUME NEW p \in Paths, NEW n \in DOMAIN snapshots
      PROVE  /\ Get(Before(n), p) # Get(snapshots[n], p) => \E q \in AffectedPaths : Affects(q, p)
             /\ program[n].filed =>
                  /\ Get(Before(n), p) # Get(snapshots[n], p) => n \in Explain(p, AnyItem)
                  /\ \A x \in ArrayAt(snapshots[n], p) \ ArrayAt(Before(n), p) :
                       (\A o \in Range(program[n].ops) : o.op \in {"prepend", "append", "filter", "remove"}) =>
                         n \in Explain(p, x)
             /\ ~program[n].filed => \A x \in {AnyItem} \cup ArrayAt(snapshots[n], p) : n \notin Explain(p, x)
    BY DEF ExplainComplete
  <1> DEFINE q == program[n]
  <1>1. n \in 1..Len(program) /\ n \in 1..Len(snapshots) /\ n \in DOMAIN program /\ IsPatch(q)
    BY ProgramFacts DEF Over
  <1>2. Told(Before(n), snapshots[n], q)
    BY <1>1 DEF Seen
  <1>3. ASSUME Get(Before(n), p) # Get(snapshots[n], p) PROVE q.matched /\ Affects(q.path, p)
    BY <1>2, <1>3 DEF Told
  <1>4. q.path \in AffectedPaths
    BY <1>1 DEF AffectedPaths
  <1>5. ASSUME NEW k \in 1..Len(q.ops), q.filed, q.matched, Affects(q.path, p),
               NEW x, x \in {AnyItem} \cup Range(Adds(Ends(program, n - 1) + k) \o Drops(Ends(program, n - 1) + k)
                                                  \o Rewrites(Ends(program, n - 1) + k))
        PROVE  n \in Explain(p, x)
    <2> DEFINE i == Ends(program, n - 1) + k
    <2>1. i \in DOMAIN TraceLog /\ TraceLog[i].patch = n
      BY <1>1, LoggedAt
    <2> HIDE DEF i
    <2>2. Succeeded(i) /\ program[TraceLog[i].patch].filed /\ Affects(program[TraceLog[i].patch].path, p)
      BY <1>5, <2>1 DEF Succeeded
    <2>3. x \in {AnyItem} \cup Range(Adds(i) \o Drops(i) \o Rewrites(i))
      BY <1>5 DEF i
    <2> QED
      BY <2>1, <2>2, <2>3 DEF Explain
  <1>6. ASSUME q.filed, Get(Before(n), p) # Get(snapshots[n], p) PROVE n \in Explain(p, AnyItem)
    <2>1. 1 \in 1..Len(q.ops)
      BY <1>1, ListFacts DEF IsPatch
    <2> QED
      BY <1>3, <1>5, <1>6, <2>1
  <1>7. ASSUME q.filed, NEW x \in ArrayAt(snapshots[n], p) \ ArrayAt(Before(n), p),
               \A o \in Range(q.ops) : o.op \in {"prepend", "append", "filter", "remove"}
        PROVE  n \in Explain(p, x)
    <2>1. /\ q.matched /\ ~Guarded(q.path) /\ Affects(q.path, p)
          /\ \E o \in Range(q.ops) : o.op \in {"prepend", "append"} /\ x \in Range(NewItems(o.val))
      BY <1>2, <1>7 DEF Told
    <2>2. PICK o \in Range(q.ops) : o.op \in {"prepend", "append"} /\ x \in Range(NewItems(o.val))
      BY <2>1
    <2>3. Runs(AllOps(q.ops), q)
      BY <1>1, AllOpsRun
    <2>4. PICK k \in 1..Len(q.ops) : AllOps(q.ops)[k] = o
      <3>1. o \in Range(AllOps(q.ops)) /\ IsList(AllOps(q.ops)) /\ Len(AllOps(q.ops)) = Len(q.ops)
        BY <2>3 DEF Runs
      <3> QED
        BY <3>1, ListFacts
    <2>5. IsOperation(o)
      BY <2>3, <2>4 DEF Runs
    <2> DEFINE i == Ends(program, n - 1) + k
    <2>6. i \in DOMAIN TraceLog /\ TraceLog[i].patch = n /\ TraceLog[i].op = o
      BY <1>1, <2>4, LoggedAt
    <2>7. Adds(i) = NewItems(o.val) /\ Range(Adds(i)) \subseteq Range(Adds(i) \o Drops(i) \o Rewrites(i))
      <3> HIDE DEF i
      <3> QED
        BY <1>1, <2>1, <2>2, <2>5, <2>6, ItemsOf
    <2>8. x \in {AnyItem} \cup Range(Adds(i) \o Drops(i) \o Rewrites(i))
      <3> HIDE DEF i
      <3> QED
        BY <2>2, <2>7
    <2> QED
      BY <1>5, <1>7, <2>1, <2>8
  <1>8. ASSUME NEW x, n \in Explain(p, x) PROVE q.filed
    BY <1>8 DEF Explain
  <1> QED
    BY <1>3, <1>4, <1>6, <1>7, <1>8

\* Both count the same traces.
LEMMA StatisticsHold ==
  ASSUME Over, Seen
  PROVE  StatisticsTrue
  <1> DEFINE S == {i \in DOMAIN TraceLog : Succeeded(i)}
             T == {i \in DOMAIN traces : Succeeded(i)}
             F == {i \in DOMAIN traces : ~Succeeded(i)}
             n == Len(traces)
  <1>1. TraceLog \in Seq(Range(TraceLog)) /\ n \in Nat /\ DOMAIN TraceLog = 1..n /\ DOMAIN traces = 1..n
    BY DEF Over, IsList
  <1>2. S = T /\ S \in SUBSET DOMAIN TraceLog /\ F = (1..n) \ T /\ T \subseteq 1..n
    BY <1>1
  <1>3. Len(Chosen(TraceLog, S)) = Cardinality(T)
    BY <1>1, <1>2, ChosenProperties
  <1>4. n - Cardinality(T) = Cardinality(F)
    <2>1. IsFiniteSet(1..n) /\ Cardinality(1..n) = n
      <3> HIDE DEF n
      <3>1. 1 \in Int /\ n \in Int /\ (~(1 > n) => n - 1 + 1 = n) /\ (1 > n => n = 0)
        BY <1>1
      <3>2. IsFiniteSet(1..n) /\ Cardinality(1..n) = IF 1 > n THEN 0 ELSE n - 1 + 1
        BY <3>1, FS_Interval
      <3> QED
        BY <3>1, <3>2
    <2> DEFINE D == 1..n
    <2>2. IsFiniteSet(D) /\ Cardinality(D) = n /\ T \subseteq D /\ F = D \ T
      BY <1>2, <2>1
    <2> HIDE DEF D, T, F, n
    <2>3. IsFiniteSet(T) /\ Cardinality(T) \in Nat
      BY <2>2, FS_Subset, FS_CardinalityType
    <2>4. D \cap T = T
      BY <2>2
    <2>5. Cardinality(F) = Cardinality(D) - Cardinality(D \cap T)
      BY <2>2, FS_Difference
    <2>6. Cardinality(F) = n - Cardinality(T)
      BY <2>2, <2>4, <2>5
    <2> QED
      BY <2>6
  <1>5. CompileStats = Statistics
    <2>1. CompileStats = [total |-> n, succeeded |-> Cardinality(T), skipped |-> n - Cardinality(T), added |-> AllAdded, removed |-> AllRemoved]
      BY <1>3 DEF CompileStats
    <2>2. Statistics = [total |-> n, succeeded |-> Cardinality(T), skipped |-> Cardinality(F), added |-> AllAdded, removed |-> AllRemoved]
      BY DEF Statistics
    <2> QED
      BY <1>4, <2>1, <2>2
  <1>6. Statistics.added = AllAdded /\ Statistics.removed = AllRemoved
    BY DEF Statistics
  <1>7. (\A m \in DOMAIN program : \A o \in Range(program[m].ops) : o.op \in ListOps) => OnlyLists
    BY DEF Over, OnlyLists
  <1>8. OnlyLists => AllAdded - AllRemoved = Grown
    BY DEF Seen
  <1> QED
    BY <1>5, <1>6, <1>7, <1>8 DEF StatisticsTrue, Grown

\* A patch of one operation has one trace, which tells what it did.
LEMMA ShownHolds ==
  ASSUME Over, Counted, Seen
  PROVE  TraceShown
  <1> SUFFICES ASSUME NEW n \in DOMAIN program, program[n].matched, ~Guarded(program[n].path), Len(program[n].ops) = 1,
                      program[n].ops[1].op \in ListOps, IsArray(Before(n), program[n].path)
      PROVE  /\ Length(snapshots[n], program[n].path) - Length(Before(n), program[n].path)
                  = Len(GetTrace(n).added) - Len(GetTrace(n).removed)
             /\ Range(GetTrace(n).added) \subseteq ArrayAt(snapshots[n], program[n].path)
    BY DEF TraceShown
  <1> DEFINE q == program[n]
             o == program[n].ops[1]
             b == Before(n)
             c == snapshots[n]
             i == Ends(program, n - 1) + 1
             p == program[n].path
  <1>1. n \in 1..Len(program) /\ n \in 1..Len(snapshots) /\ IsPatch(q)
    BY ProgramFacts DEF Over
  <1>2. IsConfig(b) /\ c = Exec(b, p, o) /\ traces[i] = Summary(b, p, o)
    <2>1. Alone(b, c, traces[i], q)
      BY <1>1 DEF Seen
    <2> QED
      BY <2>1 DEF Alone
  <1>3. IsOperation(o) /\ p \in Paths /\ AllOps(q.ops)[1] = o
    <2>1. Runs(AllOps(q.ops), q) /\ IsList(q.ops) /\ p \in Paths
      BY <1>1, AllOpsRun DEF IsPatch
    <2>2. Range(AllOps(q.ops)) = {o} /\ 1 \in 1..Len(AllOps(q.ops))
      <3>1. DOMAIN q.ops = 1..1
        BY <2>1, ListFacts
      <3>2. \A j \in 1..1 : j = 1
        OBVIOUS
      <3>3. Range(q.ops) = {o}
        BY <3>1, <3>2 DEF Range
      <3> QED
        BY <2>1, <3>3 DEF Runs
    <2>3. AllOps(q.ops)[1] \in Range(AllOps(q.ops))
      <3> DEFINE l == AllOps(q.ops)
      <3>1. IsList(l) /\ 1 \in 1..Len(l)
        BY <2>1, <2>2 DEF Runs
      <3> HIDE DEF l
      <3>2. 1 \in DOMAIN l
        BY <3>1, ListFacts
      <3>3. l[1] \in Range(l)
        BY <3>2 DEF Range
      <3> QED
        BY <3>3 DEF l
    <2>4. IsOperation(AllOps(q.ops)[1])
      BY <2>1, <2>2 DEF Runs
    <2> QED
      BY <2>1, <2>2, <2>3, <2>4
  <1>4. i \in DOMAIN TraceLog /\ TraceLog[i].patch = n /\ TraceLog[i].op = o /\ i \in 1..Len(traces)
    <2>1. 1 \in 1..Len(q.ops)
      OBVIOUS
    <2> QED
      BY <1>1, <1>3, <2>1, LoggedAt
  <1>5. FirstTrace(n) = i
    <2>1. Ends(program, n - 1) \in Nat /\ \A j \in 1..Ends(program, n - 1) : TraceLog[j].patch # n
      BY <1>1 DEF Over, LogIs, TraceLog
    <2>2. \A j \in 1..i - 1 : TraceLog[j].patch # n
      BY <2>1
    <2>3. ASSUME NEW k \in DOMAIN TraceLog, TraceLog[k].patch = n, \A j \in 1..k - 1 : TraceLog[j].patch # n PROVE k = i
      <3>1. k \in Nat /\ i \in Nat /\ k # 0 /\ i # 0
        BY <1>4 DEF Over
      <3> HIDE DEF i
      <3>2. ~(k < i)
        <4>1. k < i => k \in 1..i - 1
          BY <3>1
        <4> QED
          BY <2>2, <2>3, <4>1
      <3>3. ~(i < k)
        <4>1. i < k => i \in 1..k - 1
          BY <3>1
        <4> QED
          BY <1>4, <2>3, <4>1
      <3> QED
        BY <3>1, <3>2, <3>3
    <2> HIDE DEF i
    <2> QED
      BY <1>4, <2>2, <2>3 DEF FirstTrace
  <1>6. GetTrace(n).added = Adds(i) /\ GetTrace(n).removed = Drops(i)
    BY <1>5 DEF GetTrace
  <1> HIDE DEF i
  <1>7. /\ o.op \in {"prepend", "append"} => Adds(i) = NewItems(o.val)
        /\ o.op \notin {"prepend", "append"} => Adds(i) = <<>>
        /\ Len(Drops(i)) = traces[i].removed
    BY <1>1, <1>3, <1>4, ItemsOf
  <1> HIDE DEF o, b, c, p, q
  <1>8. Length(c, p) - Length(b, p) = Summary(b, p, o).added - Summary(b, p, o).removed
    BY <1>2, <1>3, SummaryCounts DEF o
  <1>9. Summary(b, p, o).added = Len(Adds(i))
    <2>1. Summary(b, p, o).added = Added(b, p, o)
      BY DEF Summary, o, p
    <2>2. IsArray(b, p)
      BY DEF b, p
    <2>3. CASE o.op \in {"prepend", "append"}
      BY <1>7, <2>1, <2>2, <2>3 DEF Added
    <2>4. CASE o.op \notin {"prepend", "append"}
      <3>1. Len(<<>>) = 0
        OBVIOUS
      <3> QED
        BY <1>7, <2>1, <2>4, <3>1 DEF Added
    <2> QED
      BY <2>3, <2>4
  <1>10. Range(Adds(i)) \subseteq ArrayAt(c, p)
    <2>1. CASE o.op \in {"prepend", "append"}
      <3>1. Get(b, p).items \in Seq(Items) /\ Get(c, p) = Arr(OnList(o, Get(b, p).items))
        <4>1. ~Guarded(p) /\ IsArray(b, p) /\ o.op \in ListOps
          BY DEF p, b, o
        <4> QED
          BY <1>2, <1>3, <4>1, ListOpEffect
      <3>2. Made(o, Get(b, p).items, OnList(o, Get(b, p).items))
        <4>1. o.op \in ListOps
          BY DEF o
        <4> QED
          BY <1>3, <3>1, <4>1, OnListMakes
      <3>3. Arr(OnList(o, Get(b, p).items)).items = OnList(o, Get(b, p).items) /\ Arr(OnList(o, Get(b, p).items)).kind = "array"
        BY DEF Arr, JSON
      <3>4. ArrayAt(c, p) = Range(OnList(o, Get(b, p).items))
        BY <3>1, <3>3 DEF ArrayAt, IsArray
      <3>5. Range(NewItems(o.val)) \subseteq Range(OnList(o, Get(b, p).items))
        BY <2>1, <3>2 DEF Made
      <3> QED
        BY <1>7, <2>1, <3>4, <3>5
    <2>2. CASE o.op \notin {"prepend", "append"}
      <3>1. Range(<<>>) = {}
        BY DEF Range
      <3> QED
        BY <1>7, <2>2, <3>1
    <2> QED
      BY <2>1, <2>2
  <1>11. Length(c, p) - Length(b, p) = Len(Adds(i)) - Len(Drops(i))
    BY <1>2, <1>7, <1>8, <1>9
  <1> QED
    BY <1>6, <1>10, <1>11 DEF b, c, p

\* There are as many traces as patches unless some patch has more than one operation.
LEMMA ReportHolds ==
  ASSUME Over
  PROVE  ReportRefused
  <1> DEFINE N == Len(program)
  <1>1. /\ N \in Nat /\ N <= Len(traces) /\ Len(traces) \in Nat /\ (Len(traces) = N <=> \A n \in 1..N : Len(program[n].ops) = 1)
    BY DEF Over, LogIs, TraceLog
  <1>2. \A n \in 1..N : Len(program[n].ops) \in Nat \ {0}
    BY TracesOfPatch DEF Over
  <1>3. (\E n \in DOMAIN program : Len(program[n].ops) > 1) <=> Len(traces) # N
    <2>1. DOMAIN program = 1..N
      BY DEF Over
    <2>2. \A m \in Nat \ {0} : m = 1 <=> ~(m > 1)
      OBVIOUS
    <2> QED
      BY <1>1, <1>2, <2>1, <2>2
  <1>4. CASE traces = <<>>
    <2>1. Len(traces) = 0 /\ N = 0
      BY <1>1, <1>4 DEF Over
    <2> QED
      BY <1>3, <1>4, <2>1 DEF ReportRefused, TraceReport
  <1>5. CASE traces # <<>>
    BY <1>3, <1>5 DEF ReportRefused, TraceReport, Importable
  <1> QED
    BY <1>4, <1>5

\* Whatever program runs, what a user is told of it is so: explain_field names every patch of a file
\* that changed a path or brought an item, the two statistics agree and add up to the growth of the
\* arrays, and a report is refused exactly for patches of several operations.  (trace.rs)
THEOREM ViewsAreTrue == Spec => []ViewsTrue
  <1>1. Init => Begins
    BY ProgramsArePatches DEF Init, Begins
  <1>2. Running => Going /\ Counted
    BY DEF Running
  <1>3. Spec => []Running
    BY <1>1, BeginsWell, RunningStep, PTL DEF Spec
  <1>4. Begins => Seen
    BY SeenBegins
  <1>5. Spec => []Seen
    BY <1>1, <1>2, <1>3, <1>4, SeenKeeps, PTL DEF Spec
  <1>6. Going /\ Counted /\ Seen => ViewsTrue
    <2> SUFFICES ASSUME Going, Counted, Seen, Ended
                 PROVE  ExplainComplete /\ StatisticsTrue /\ TraceShown /\ ReportRefused
      BY DEF ViewsTrue
    <2>1. Over
      BY OverIs
    <2> QED
      BY <2>1, ExplainHolds, StatisticsHold, ShownHolds, ReportHolds
  <1> QED
    BY <1>2, <1>3, <1>5, <1>6, PTL
=============================================================================
