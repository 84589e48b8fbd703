--------------------------- MODULE ExtensionProofs ---------------------------
(***************************************************************************)
(* Proofs about the compile-and-write calls of PrismExtension, for calls   *)
(* that do not overlap: what is remembered is what the host runs, and what *)
(* is inserted lands where it was asked for and stays.                     *)
(***************************************************************************)
EXTENDS PrismExtension, FiniteSetTheorems, SequenceTheorems, FunctionTheorems, WellFoundedInduction, TLAPS

-----------------------------------------------------------------------------
(* Places and rules. *)

LEMMA LeastPlace ==
  ASSUME NEW T \in SUBSET Nat, T # {}
  PROVE  Min(T) \in T /\ \A n \in T : Min(T) <= n
  <1>1. PICK t \in T : \A n \in T : ~(<<n, t>> \in OpToRel(<, Nat))
    BY NatLessThanWellFounded, WFMin, Zenon
  <1>2. ASSUME NEW n \in T PROVE t <= n
    <2>1. n \in Nat /\ t \in Nat /\ <<n, t>> \in Nat \X Nat
      OBVIOUS
    <2>2. ~(<<n, t>>[1] < <<n, t>>[2])
      BY <1>1, <2>1, Zenon DEF OpToRel
    <2> QED
      BY <2>1, <2>2
  <1>3. \E m \in T : \A n \in T : m <= n
    BY <1>2
  <1> QED
    BY <1>3, Zenon DEF Min

LEMMA GreatestPlace ==
  ASSUME NEW T \in SUBSET Nat, T # {}, NEW b \in Nat, \A n \in T : n <= b
  PROVE  Max(T) \in T /\ \A n \in T : n <= Max(T)
  <1> DEFINE below == {b - n : n \in T}
  <1>1. below \in SUBSET Nat /\ below # {}
    <2>1. \A n \in T : b - n \in Nat
      OBVIOUS
    <2> QED
      BY <2>1
  <1>2. Min(below) \in below /\ \A n \in T : Min(below) <= b - n
    <2>1. Min(below) \in below /\ \A k \in below : Min(below) <= k
      BY <1>1, LeastPlace
    <2> QED
      BY <2>1
  <1>3. PICK m \in T : Min(below) = b - m
    BY <1>2
  <1>4. \A n \in T : m >= n
    BY <1>2, <1>3
  <1>5. Max(T) \in T /\ \A n \in T : Max(T) >= n
    BY <1>4, Zenon DEF Max
  <1>6. Max(T) \in Nat
    BY <1>5
  <1> HIDE DEF below
  <1> QED
    BY <1>5, <1>6

\* One rule more, at a place: the others keep their order, the user's are counted.
AddedAt(s, at, rule, t) ==
  /\ t \in Seq(Rules) /\ Len(t) = Len(s) + 1 /\ at \in 1..Len(s) + 1
  /\ \A i \in 1..Len(t) : t[i] = IF i < at THEN s[i] ELSE IF i = at THEN rule ELSE s[i - 1]
LEMMA OneRuleMore ==
  ASSUME NEW s \in Seq(Rules), NEW t, NEW rule, NEW at, AddedAt(s, at, rule, t)
  PROVE  /\ UserRules(t) = UserRules(s) + (IF rule.by = User THEN 1 ELSE 0)
         /\ UserRules(s) \in Nat
         /\ \A i \in DOMAIN s : \E k \in DOMAIN t : t[k] = s[i]
         /\ at \in DOMAIN t /\ t[at] = rule
  <1> DEFINE old == {i \in DOMAIN s : s[i].by = User}
             new == {i \in DOMAIN t : t[i].by = User}
             place == [i \in old |-> IF i < at THEN i ELSE i + 1]
  <1>1. /\ Len(s) \in Nat /\ DOMAIN s = 1..Len(s) /\ DOMAIN t = 1..Len(s) + 1
        /\ at \in Nat /\ 1 <= at /\ at <= Len(s) + 1
    BY LenProperties DEF AddedAt
  <1>2. IsFiniteSet(old) /\ IsFiniteSet(new)
    <2>1. IsFiniteSet(1..Len(s)) /\ IsFiniteSet(1..Len(s) + 1)
      BY <1>1, FS_Interval
    <2>2. old \in SUBSET (1..Len(s)) /\ new \in SUBSET (1..Len(s) + 1)
      BY <1>1
    <2> HIDE DEF old, new
    <2> QED
      BY <2>1, <2>2, FS_Subset
  <1>3. ASSUME NEW i \in DOMAIN s
        PROVE  LET k == IF i < at THEN i ELSE i + 1 IN k \in DOMAIN t /\ k # at /\ t[k] = s[i]
    BY <1>1 DEF AddedAt
  <1>4. place \in Bijection(old, new \ {at})
    <2>1. \A i \in old : place[i] \in new \ {at}
      BY <1>3
    <2>2. \A i, j \in old : place[i] = place[j] => i = j
      BY <1>1
    <2>3. ASSUME NEW k \in new \ {at} PROVE \E i \in old : place[i] = k
      <3>1. CASE k < at
        <4>1. k \in 1..Len(s) + 1 /\ t[k].by = User
          BY <1>1, <2>3
        <4>2. k \in DOMAIN s /\ t[k] = s[k]
          BY <1>1, <3>1, <4>1 DEF AddedAt
        <4> QED
          BY <3>1, <4>1, <4>2
      <3>2. CASE k > at
        <4>1. k \in 1..Len(s) + 1 /\ t[k].by = User
          BY <1>1, <2>3
        <4>2. k - 1 \in DOMAIN s /\ t[k] = s[k - 1] /\ ~(k - 1 < at) /\ k - 1 + 1 = k
          BY <1>1, <3>2, <4>1 DEF AddedAt
        <4>3. k - 1 \in old
          BY <4>1, <4>2
        <4> QED
          BY <4>2, <4>3
      <3>3. k \in 1..Len(s) + 1 /\ k # at
        BY <1>1, <2>3
      <3>4. k < at \/ k > at
        BY <1>1, <3>3
      <3> QED
        BY <3>1, <3>2, <3>4
    <2>4. place \in [old -> new \ {at}]
      BY <2>1
    <2> HIDE DEF place, old, new
    <2>5. place \in Surjection(old, new \ {at})
      BY <2>3, <2>4, Fun_IsSurj
    <2>6. place \in Injection(old, new \ {at})
      BY <2>2, <2>4, Fun_IsInj
    <2> QED
      BY <2>5, <2>6 DEF Bijection
  <1>5. at \in DOMAIN t /\ t[at] = rule
    BY <1>1 DEF AddedAt
  <1>6. at \in new <=> rule.by = User
    BY <1>5
  <1>7. UserRules(s) = Cardinality(old) /\ UserRules(t) = Cardinality(new)
    BY DEF UserRules
  <1>8. \A i \in DOMAIN s : \E k \in DOMAIN t : t[k] = s[i]
    BY <1>3
  <1> HIDE DEF old, new, place
  <1>9. Cardinality(new \ {at}) = Cardinality(old)
    BY <1>2, <1>4, FS_Bijection DEF ExistsBijection
  <1>10. Cardinality(new \ {at}) = IF at \in new THEN Cardinality(new) - 1 ELSE Cardinality(new)
    BY <1>2, FS_RemoveElement
  <1>11. Cardinality(old) \in Nat /\ Cardinality(new) \in Nat
    BY <1>2, FS_CardinalityType
  <1> QED
    BY <1>5, <1>6, <1>7, <1>8, <1>9, <1>10, <1>11

LEMMA Inserted ==
  ASSUME NEW s \in Seq(Rules), NEW rule \in Rules, NEW at \in 1..Len(s) + 1
  PROVE  AddedAt(s, at, rule, InsertAt(s, at, rule))
  <1> DEFINE a == SubSeq(s, 1, at - 1)
             b == SubSeq(s, at, Len(s))
             t == (a \o <<rule>>) \o b
  <1>1. Len(s) \in Nat /\ \A i \in 1..Len(s) : s[i] \in Rules
    BY LenProperties
  <1>2. /\ a \in Seq(Rules) /\ Len(a) = at - 1 /\ \A i \in 1..at - 1 : a[i] = s[i]
        /\ b \in Seq(Rules) /\ Len(b) = Len(s) - at + 1 /\ \A i \in 1..Len(s) - at + 1 : b[i] = s[at + i - 1]
    <2>1. at - 1 \in Int /\ at \in Int /\ \A i \in 1..at - 1 : s[i] \in Rules
      BY <1>1
    <2>2. \A i \in at..Len(s) : s[i] \in Rules
      BY <1>1
    <2>3. /\ a \in Seq(Rules) /\ Len(a) = (IF 1 <= at - 1 THEN at - 1 - 1 + 1 ELSE 0)
          /\ \A i \in 1..at - 1 - 1 + 1 : a[i] = s[1 + i - 1]
      BY <2>1, SubSeqProperties
    <2>4. /\ b \in Seq(Rules) /\ Len(b) = (IF at <= Len(s) THEN Len(s) - at + 1 ELSE 0)
          /\ \A i \in 1..Len(s) - at + 1 : b[i] = s[at + i - 1]
      BY <1>1, <2>1, <2>2, SubSeqProperties
    <2>5. at - 1 - 1 + 1 = at - 1 /\ at \in Nat /\ 1 <= at /\ at <= Len(s) + 1
      BY <1>1
    <2> HIDE DEF a, b
    <2>6. Len(a) = at - 1 /\ \A i \in 1..at - 1 : a[i] = s[i]
      <3>1. \A i \in 1..at - 1 : 1 + i - 1 = i
        BY <2>5
      <3>2. \A i \in 1..at - 1 : a[i] = s[1 + i - 1]
        BY <2>3, <2>5
      <3>3. Len(a) = at - 1
        BY <2>3, <2>5
      <3> QED
        BY <3>1, <3>2, <3>3
    <2>7. Len(b) = Len(s) - at + 1
      BY <1>1, <2>4, <2>5
    <2> QED
      BY <2>3, <2>4, <2>6, <2>7
  <1> HIDE DEF a, b
  <1>3. <<rule>> \in Seq(Rules) /\ Len(<<rule>>) = 1 /\ <<rule>>[1] = rule
    OBVIOUS
  <1>4. /\ a \o <<rule>> \in Seq(Rules) /\ Len(a \o <<rule>>) = at
        /\ \A i \in 1..at : (a \o <<rule>>)[i] = IF i < at THEN s[i] ELSE rule
    <2>1. /\ a \o <<rule>> \in Seq(Rules) /\ Len(a \o <<rule>>) = Len(a) + Len(<<rule>>)
          /\ \A i \in 1..Len(a) + Len(<<rule>>) :
               (a \o <<rule>>)[i] = IF i <= Len(a) THEN a[i] ELSE <<rule>>[i - Len(a)]
      BY <1>2, <1>3, ConcatProperties
    <2>2. at \in Nat /\ 1 <= at /\ Len(a) + Len(<<rule>>) = at
      BY <1>1, <1>2, <1>3
    <2>3. ASSUME NEW i \in 1..at PROVE (a \o <<rule>>)[i] = IF i < at THEN s[i] ELSE rule
      <3>1. (a \o <<rule>>)[i] = IF i <= at - 1 THEN a[i] ELSE <<rule>>[i - (at - 1)]
        BY <1>2, <2>1, <2>2
      <3>2. CASE i < at
        BY <1>2, <2>2, <3>1, <3>2
      <3>3. CASE i = at
        BY <1>3, <2>2, <3>1, <3>3
      <3> QED
        BY <2>2, <3>2, <3>3
    <2> QED
      BY <2>1, <2>2, <2>3
  <1> DEFINE c == a \o <<rule>>
  <1> HIDE DEF c
  <1>5. /\ c \o b \in Seq(Rules) /\ Len(c \o b) = at + (Len(s) - at + 1)
        /\ \A i \in 1..at + (Len(s) - at + 1) : (c \o b)[i] = IF i <= at THEN c[i] ELSE b[i - at]
    <2>1. c \in Seq(Rules) /\ Len(c) = at
      BY <1>4 DEF c
    <2>2. b \in Seq(Rules) /\ Len(b) = Len(s) - at + 1
      BY <1>2
    <2>3. /\ c \o b \in Seq(Rules) /\ Len(c \o b) = Len(c) + Len(b)
          /\ \A i \in 1..Len(c) + Len(b) : (c \o b)[i] = IF i <= Len(c) THEN c[i] ELSE b[i - Len(c)]
      BY <2>1, <2>2, ConcatProperties
    <2> QED
      BY <2>1, <2>2, <2>3
  <1>6. InsertAt(s, at, rule) = c \o b
    BY DEF InsertAt, a, b, c
  <1>7. ASSUME NEW i \in 1..Len(s) + 1
        PROVE  (c \o b)[i] = IF i < at THEN s[i] ELSE IF i = at THEN rule ELSE s[i - 1]
    <2>1. CASE i <= at
      BY <1>1, <1>4, <1>5, <2>1 DEF c
    <2>2. CASE i > at
      <3>1. i - at \in 1..Len(s) - at + 1 /\ at + (i - at) - 1 = i - 1
        BY <1>1, <2>2
      <3>2. b[i - at] = s[i - 1]
        BY <1>2, <3>1
      <3>3. at \in Nat /\ i \in Nat /\ i \in 1..at + (Len(s) - at + 1)
        BY <1>1
      <3>4. (c \o b)[i] = b[i - at]
        BY <1>5, <2>2, <3>3
      <3>5. ~(i < at) /\ i # at
        BY <2>2, <3>3
      <3> QED
        BY <3>2, <3>4, <3>5
    <2>3. i <= at \/ i > at
      BY <1>1
    <2> QED
      BY <2>1, <2>2, <2>3
  <1>8. Len(c \o b) = Len(s) + 1
    BY <1>1, <1>5
  <1> QED
    BY <1>5, <1>6, <1>7, <1>8 DEF AddedAt

\* A patch of a file adds its rule and takes none away.
LEMMA ExecutedAdds ==
  ASSUME NEW j \in Jobs, j.out \in Seq(Rules), NEW f \in Files
  PROVE  LET t == Executed(j, f) IN
         /\ t \in Seq(Rules) /\ UserRules(t) = UserRules(j.out)
         /\ \A i \in DOMAIN j.out : \E k \in DOMAIN t : t[k] = j.out[i]
         /\ f \in Scanned(j) => \E k \in DOMAIN t : t[k] = RuleOf(j, f)
  <1> DEFINE rule == RuleOf(j, f)
             s == j.out
  <1>1. f \in Nat /\ f <= NumFiles /\ NumFiles \in Nat /\ j.pats[f] \in 0..MaxVersion
    BY ExtensionAssumption DEF Files, Jobs, Contents
  <1>2. rule \in Rules /\ rule.by # User
    BY <1>1 DEF RuleOf, Rule, Rules, User
  <1>3. Len(s) \in Nat /\ DOMAIN s = 1..Len(s) /\ s \in Seq(Rules)
    BY LenProperties
  <1> HIDE DEF s, rule
  <1>4. CASE f \notin Scanned(j)
    <2>1. Executed(j, f) = s
      BY <1>4 DEF Executed, s
    <2> QED
      BY <1>3, <1>4, <2>1 DEF s
  <1>5. CASE f \in Scanned(j) /\ f \in Appends
    <2> DEFINE t == Append(s, rule)
    <2>1. t \in Seq(Rules) /\ Len(t) = Len(s) + 1 /\ t[Len(s) + 1] = rule /\ \A i \in 1..Len(s) : t[i] = s[i]
      BY <1>2, <1>3, AppendProperties
    <2> HIDE DEF t
    <2>2. \A i \in 1..Len(t) : t[i] = IF i < Len(s) + 1 THEN s[i] ELSE IF i = Len(s) + 1 THEN rule ELSE s[i - 1]
      BY <1>3, <2>1
    <2>3. AddedAt(s, Len(s) + 1, rule, t)
      BY <1>3, <2>1, <2>2 DEF AddedAt
    <2>4. /\ UserRules(t) = UserRules(s) + (IF rule.by = User THEN 1 ELSE 0)
          /\ UserRules(s) \in Nat /\ \A i \in DOMAIN s : \E k \in DOMAIN t : t[k] = s[i]
          /\ Len(s) + 1 \in DOMAIN t /\ t[Len(s) + 1] = rule
      BY <1>3, <2>3, OneRuleMore
    <2>5. UserRules(t) = UserRules(s)
      BY <1>2, <2>4
    <2>6. Executed(j, f) = t
      BY <1>5 DEF Executed, t, rule, s
    <2> QED
      BY <2>1, <2>4, <2>5, <2>6 DEF s, rule
  <1>6. CASE f \in Scanned(j) /\ f \notin Appends
    <2> DEFINE t == <<rule>> \o s
    <2>1. <<rule>> \in Seq(Rules) /\ Len(<<rule>>) = 1 /\ <<rule>>[1] = rule
      BY <1>2
    <2>2. /\ t \in Seq(Rules) /\ Len(t) = Len(<<rule>>) + Len(s)
          /\ \A i \in 1..Len(<<rule>>) + Len(s) : t[i] = IF i <= Len(<<rule>>) THEN <<rule>>[i] ELSE s[i - Len(<<rule>>)]
      BY <1>3, <2>1, ConcatProperties
    <2> HIDE DEF t
    <2>3. 1 \in 1..Len(s) + 1 /\ Len(t) = Len(s) + 1
      BY <1>3, <2>1, <2>2
    <2>4. ASSUME NEW i \in 1..Len(t) PROVE t[i] = IF i < 1 THEN s[i] ELSE IF i = 1 THEN rule ELSE s[i - 1]
      <3>1. t[i] = IF i <= 1 THEN <<rule>>[i] ELSE s[i - 1]
        BY <2>1, <2>2
      <3>2. i \in Nat /\ i >= 1
        BY <1>3, <2>3
      <3>3. CASE i = 1
        BY <2>1, <3>1, <3>3
      <3>4. CASE i > 1
        BY <3>1, <3>4, <3>2
      <3>5. i = 1 \/ i > 1
        BY <3>2
      <3> QED
        BY <3>3, <3>4, <3>5
    <2>5. /\ UserRules(t) = UserRules(s) + (IF rule.by = User THEN 1 ELSE 0)
          /\ UserRules(s) \in Nat /\ \A i \in DOMAIN s : \E k \in DOMAIN t : t[k] = s[i]
          /\ 1 \in DOMAIN t /\ t[1] = rule
      <3>1. AddedAt(s, 1, rule, t)
        BY <2>2, <2>3, <2>4 DEF AddedAt
      <3> QED
        BY <1>3, <3>1, OneRuleMore
    <2>6. UserRules(t) = UserRules(s)
      BY <1>2, <2>5
    <2>7. Executed(j, f) = t
      BY <1>6 DEF Executed, t, rule, s
    <2> QED
      BY <2>2, <2>5, <2>6, <2>7 DEF s, rule
  <1> QED
    BY <1>4, <1>5, <1>6

\* Annotations that point at rules of their own files.
Sound(out, anns) == \A n \in anns : out # NoSeq /\ n.idx \in DOMAIN out /\ out[n.idx].by = n.by

LEMMA SequencesAreSomething == \A s \in Seq(Rules) : s # NoSeq
  BY ExtensionAssumption

LEMMA AnnotateSound ==
  ASSUME NEW j \in Jobs, NEW out \in Seq(Rules),
         \A f \in Scanned(j) : \E k \in DOMAIN out : out[k] = RuleOf(j, f)
  PROVE  Annotate(j, out) \in SUBSET Annotations /\ Sound(out, Annotate(j, out))
  <1>1. Len(out) \in Nat /\ DOMAIN out = 1..Len(out) /\ out # NoSeq
    BY LenProperties, SequencesAreSomething
  <1>2. ASSUME NEW f \in Scanned(j)
        PROVE  LastPlace(out, RuleOf(j, f)) \in DOMAIN out /\ out[LastPlace(out, RuleOf(j, f))] = RuleOf(j, f)
    <2> DEFINE T == {i \in DOMAIN out : out[i] = RuleOf(j, f)}
    <2>1. T \in SUBSET Nat /\ T # {} /\ \A n \in T : n <= Len(out)
      BY <1>1, <1>2
    <2>2. Max(T) \in T
      <3> HIDE DEF T
      <3> QED
        BY <1>1, <2>1, GreatestPlace
    <2> QED
      BY <2>2 DEF LastPlace
  <1>3. \A f \in Scanned(j) : f \in Files /\ RuleOf(j, f).by = f
    BY DEF Scanned, RuleOf, Rule
  <1>4. ASSUME NEW n \in Annotate(j, out)
        PROVE  n \in Annotations /\ n.idx \in DOMAIN out /\ out[n.idx].by = n.by
    <2>1. PICK f \in Scanned(j) : n = [idx |-> LastPlace(out, RuleOf(j, f)), by |-> f]
      BY DEF Annotate
    <2> QED
      BY <1>1, <1>2, <1>3, <2>1 DEF Annotations
  <1> QED
    BY <1>1, <1>4 DEF Sound

\* The index an insertion takes is a place, and behind the group where there is one.
LEMMA InsertIndexFits ==
  ASSUME NEW j \in Jobs, NEW out \in Seq(Rules), Sound(out, j.anns)
  PROVE  /\ InsertIndex(j, out) \in 1..Len(out) + 1
         /\ j.pos = "AfterGroup" /\ Indices(j.anns, {j.group}) # {} =>
              InsertIndex(j, out) - 1 \in DOMAIN out /\ out[InsertIndex(j, out) - 1].by = j.group
  <1> DEFINE all == Indices(j.anns, Files)
             group == Indices(j.anns, {j.group})
             last == Len(out) + 1
             at == InsertIndex(j, out)
  <1>1. Len(out) \in Nat /\ DOMAIN out = 1..Len(out)
    BY LenProperties
  <1>2. \A i \in all \cup group : i \in 1..Len(out)
    BY <1>1 DEF Indices, Sound
  <1>3. \A i \in group : out[i].by = j.group
    BY DEF Indices, Sound
  <1>4. at = (LET place == IF j.pos = "AfterPrism" THEN (IF all = {} THEN last ELSE Max(all) + 1)
                           ELSE IF j.pos = "AfterGroup" THEN (IF group = {} THEN last ELSE Max(group) + 1)
                           ELSE IF all = {} THEN 1 ELSE Min(all)
              IN IF place < last THEN place ELSE last)
    BY DEF InsertIndex
  <1> HIDE DEF all, group, at
  <1>5. all # {} => Max(all) \in 1..Len(out) /\ Min(all) \in 1..Len(out)
    <2>1. all \in SUBSET Nat /\ \A i \in all : i <= Len(out)
      BY <1>1, <1>2
    <2>2. all # {} => Max(all) \in all /\ Min(all) \in all
      BY <1>1, <2>1, GreatestPlace, LeastPlace
    <2> QED
      BY <1>2, <2>2
  <1>6. group # {} => Max(group) \in 1..Len(out) /\ Max(group) \in group
    <2>1. group \in SUBSET Nat /\ \A i \in group : i <= Len(out)
      BY <1>1, <1>2
    <2>2. group # {} => Max(group) \in group
      BY <1>1, <2>1, GreatestPlace
    <2> QED
      BY <1>2, <2>2
  <1>7. at \in 1..last
    BY <1>1, <1>4, <1>5, <1>6
  <1>8. ASSUME j.pos = "AfterGroup", group # {} PROVE at - 1 = Max(group)
    BY <1>1, <1>4, <1>6, <1>8
  <1>9. ASSUME j.pos = "AfterGroup", group # {} PROVE at - 1 \in DOMAIN out /\ out[at - 1].by = j.group
    BY <1>1, <1>3, <1>6, <1>8, <1>9
  <1> QED
    BY <1>7, <1>9 DEF at, group

-----------------------------------------------------------------------------
(* The invariant. *)

OneCall == \A a, b \in Actors : pc[a] # "idle" /\ pc[b] # "idle" => a = b
Kept == Sound(state.out, state.anns) /\ Sound(wr.out, wr.anns)
\* What is remembered is what runs, but between the write of a call and its last note of it.
Noting(a) == pc[a] \in {"state", "publish", "insState", "insClear"}
Settled ==
  /\ CurrentOutput # NoSeq => CurrentOutput = config
  /\ wr = Nothing => state.anns = {}
\* A running call has lost nothing, and has the rules of the files it has been through.
Ran(j) ==
  /\ j.out \in Seq(Rules) /\ UserRules(j.out) = UserRules(j.base)
  /\ \A f \in Scanned(j) : f < j.next => \E k \in DOMAIN j.out : j.out[k] = RuleOf(j, f)
Placed(j) ==
  /\ j.out \in Seq(Rules) /\ Sound(j.out, j.anns) /\ j.at \in 1..Len(j.out) + 1
  /\ j.pos = "AfterGroup" /\ Indices(j.anns, {j.group}) # {} =>
       j.at - 1 \in DOMAIN j.out /\ j.out[j.at - 1].by = j.group
CallFits(a) ==
  /\ pc[a] = "idle" => job[a] = NoJob
  /\ pc[a] = "scan" => job[a].pats = NoFiles
  /\ pc[a] \in {"scan", "snap", "parse", "run"} => job[a].base = config
  /\ pc[a] \in {"snap", "parse"} => job[a].out = config
  /\ pc[a] = "parse" => job[a].snap = cache
  /\ pc[a] = "run" => Ran(job[a])
  /\ pc[a] \in {"state", "publish"} => job[a].out = config /\ Sound(config, job[a].anns)
  /\ pc[a] = "insOut" => job[a].anns = CurrentAnnotations
  /\ pc[a] = "insWrite" => job[a].out = config /\ Placed(job[a])
  /\ pc[a] = "insState" => job[a].out = config
  /\ pc[a] = "insClear" => state.out = config /\ state.anns = {}
  /\ \A f \in Files : job[a].pats[f] # 0 => job[a].pats[f] = job[a].scan[f]
ExtInv ==
  /\ TypeOK /\ OneCall /\ Kept
  /\ \A a \in Actors : CallFits(a)
  /\ (\A a \in Actors : ~Noting(a)) => Settled

LEMMA NothingTyped ==
  /\ NoJob \in Jobs /\ Nothing \in [out : Outputs, anns : SUBSET Annotations]
  /\ NoFiles \in Contents /\ BaseRule \in Rules /\ UserRule \in Rules /\ UserRule.by = User
  <1>1. NumFiles \in Nat /\ MaxVersion \in Nat
    BY ExtensionAssumption
  <1> QED
    BY <1>1 DEF NoJob, Jobs, Nothing, Outputs, NoFiles, Contents, Positions, BaseRule, UserRule, Rule, Rules, User, Base

LEMMA ExtStarts == Init => ExtInv
  <1> SUFFICES ASSUME Init PROVE ExtInv
    OBVIOUS
  <1>1. <<BaseRule>> \in Seq(Rules)
    BY NothingTyped
  <1>2. TypeOK
    <2>1. 1 \in Versions
      BY ExtensionAssumption DEF Versions
    <2>2. NoSeq \in Outputs
      BY DEF Outputs
    <2> QED
      BY <1>1, <2>1, <2>2, NothingTyped DEF Init, TypeOK, PCs
  <1>3. Kept
    BY DEF Init, Kept, Sound, Nothing
  <1>4. \A a \in Actors : CallFits(a)
    BY DEF Init, CallFits, NoJob, NoFiles
  <1> QED
    BY <1>2, <1>3, <1>4 DEF Init, ExtInv, OneCall, Settled, CurrentOutput, Nothing

\* While a call is under way the others have none.
OthersIdle(a) == \A b \in Actors \ {a} : pc[b] = "idle" /\ job[b] = NoJob
LEMMA CallIsAlone ==
  ASSUME ExtInv, NEW a \in Actors, pc[a] # "idle" \/ Quiet
  PROVE  OthersIdle(a)
  <1>1. \A b \in Actors \ {a} : pc[b] = "idle"
    BY DEF ExtInv, OneCall, Quiet
  <1> QED
    BY <1>1 DEF ExtInv, CallFits, OthersIdle

\* What a step of a call has to show.
LEMMA StepKeeps ==
  ASSUME NEW a \in Actors, OthersIdle(a), TypeOK', Kept', CallFits(a)',
         \A b \in Actors \ {a} : pc'[b] = pc[b] /\ job'[b] = job[b],
         ~Noting(a)' => Settled'
  PROVE  ExtInv'
  <1>1. \A b \in Actors \ {a} : pc'[b] = "idle" /\ job'[b] = NoJob
    BY DEF OthersIdle
  <1>2. ASSUME NEW b \in Actors \ {a} PROVE CallFits(b)'
    <2>1. pc'[b] = "idle" /\ job'[b] = NoJob
      BY <1>1
    <2> QED
      BY <2>1 DEF CallFits, NoJob, NoFiles
  <1>3. OneCall'
    BY <1>1 DEF OneCall
  <1> QED
    BY <1>2, <1>3 DEF ExtInv

\* The steps of a call that change nothing but the locals of the call.
LEMMA LocalStepKeeps ==
  ASSUME ExtInv, NEW a \in Actors, OthersIdle(a), NEW l \in PCs, NEW j \in Jobs,
         Goto(a, l), job' = [job EXCEPT ![a] = j], UNCHANGED <<files, config, cache, state, wr>>,
         ~Noting(a), l \notin {"state", "publish", "insState", "insClear"}, CallFits(a)'
  PROVE  ExtInv'
  <1>1. /\ pc' = [pc EXCEPT ![a] = l] /\ UNCHANGED <<ver, on, config, cache, state, wr>>
        /\ pc \in [Actors -> PCs] /\ job \in [Actors -> Jobs]
    BY DEF Goto, files, ExtInv, TypeOK
  <1>2. TypeOK'
    BY <1>1 DEF ExtInv, TypeOK
  <1>3. Kept'
    BY <1>1 DEF ExtInv, Kept
  <1>4. Settled'
    <2>1. \A b \in Actors : ~Noting(b)
      BY DEF OthersIdle, Noting
    <2>2. Settled
      BY <2>1 DEF ExtInv
    <2> QED
      BY <1>1, <2>2 DEF Settled, CurrentOutput
  <1>5. \A b \in Actors \ {a} : pc'[b] = pc[b] /\ job'[b] = job[b]
    BY <1>1
  <1> QED
    BY <1>2, <1>3, <1>4, <1>5, StepKeeps

LEMMA IdleFits == \A a \in Actors : pc[a] = "idle" /\ job[a] = NoJob => CallFits(a)
  BY DEF CallFits, NoJob, NoFiles

LEMMA ReadKeeps == ASSUME ExtInv, ~Overlap, NEW a \in Actors, ApplyRead(a) PROVE ExtInv'
  <1>1. /\ pc[a] = "idle" /\ Quiet /\ job[a] = NoJob /\ Goto(a, "scan")
        /\ UNCHANGED <<files, config, cache, state, wr>>
        /\ job' = [job EXCEPT ![a].base = config]
    BY DEF ApplyRead, MayCall, ExtInv, CallFits
  <1> DEFINE j == [NoJob EXCEPT !.base = config]
  <1>2. job' = [job EXCEPT ![a] = j]
    BY <1>1
  <1>3. j \in Jobs /\ j.base = config /\ j.pats = NoFiles /\ NoFiles = [f \in Files |-> 0]
    <2>1. config \in Outputs
      BY DEF ExtInv, TypeOK, Outputs
    <2> QED
      BY <2>1, NothingTyped DEF Jobs, NoJob, NoFiles
  <1> HIDE DEF j
  <1>4. pc'[a] = "scan" /\ job'[a] = j /\ config' = config
    BY <1>1, <1>2 DEF Goto, ExtInv, TypeOK
  <1>5. CallFits(a)'
    BY <1>3, <1>4 DEF CallFits
  <1>6. OthersIdle(a) /\ ~Noting(a) /\ "scan" \in PCs
    BY <1>1, CallIsAlone DEF Noting, PCs
  <1> QED
    BY <1>1, <1>2, <1>3, <1>5, <1>6, LocalStepKeeps

LEMMA ScanKeeps == ASSUME ExtInv, NEW a \in Actors, ApplyScan(a) PROVE ExtInv'
  <1> DEFINE scan == [f \in Files |-> IF on[f] THEN ver[f] ELSE 0]
             j == [job[a] EXCEPT !.scan = scan, !.out = job[a].base]
             l == IF \E f \in Files : on[f] THEN "snap" ELSE "run"
  <1>1. /\ pc[a] = "scan" /\ Goto(a, l) /\ UNCHANGED <<files, config, cache, state, wr>>
        /\ job' = [job EXCEPT ![a] = j]
    BY DEF ApplyScan
  <1>2. job[a] \in Jobs /\ job[a].pats = NoFiles /\ job[a].base = config /\ config \in Seq(Rules)
    BY <1>1 DEF ExtInv, TypeOK, CallFits
  <1>3. scan \in Contents
    BY ExtensionAssumption DEF ExtInv, TypeOK, Contents, Versions
  <1>4. j \in Jobs /\ j.base = config /\ j.out = config /\ j.pats = NoFiles /\ j.scan = scan
    BY <1>2, <1>3 DEF Jobs
  <1>5. l = "run" => Scanned(j) = {}
    BY <1>4 DEF Scanned
  <1> HIDE DEF j
  <1>6. l \in {"snap", "run"}
    OBVIOUS
  <1> HIDE DEF l
  <1>7. pc'[a] = l /\ job'[a] = j /\ config' = config
    BY <1>1, <1>4 DEF Goto, ExtInv, TypeOK
  <1>8. l = "run" => Ran(j)
    BY <1>2, <1>4, <1>5 DEF Ran
  <1>9. CallFits(a)'
    BY <1>4, <1>6, <1>7, <1>8 DEF CallFits, NoFiles
  <1>10. OthersIdle(a) /\ ~Noting(a) /\ l \in PCs /\ l \notin {"state", "publish", "insState", "insClear"}
    BY <1>1, <1>6, CallIsAlone DEF Noting, PCs
  <1> QED
    BY <1>1, <1>4, <1>9, <1>10, LocalStepKeeps

LEMMA SnapshotKeeps == ASSUME ExtInv, NEW a \in Actors, ApplySnapshot(a) PROVE ExtInv'
  <1> DEFINE j == [job[a] EXCEPT !.snap = cache]
  <1>1. /\ pc[a] = "snap" /\ Goto(a, "parse") /\ UNCHANGED <<files, config, cache, state, wr>>
        /\ job' = [job EXCEPT ![a] = j]
    BY DEF ApplySnapshot
  <1>2. job[a] \in Jobs /\ job[a].base = config /\ job[a].out = config /\ cache \in Contents
    BY <1>1 DEF ExtInv, TypeOK, CallFits
  <1>3. /\ j \in Jobs /\ j.base = config /\ j.out = config /\ j.pats = job[a].pats /\ j.scan = job[a].scan
        /\ j.snap = cache
    BY <1>2 DEF Jobs
  <1> HIDE DEF j
  <1>4. pc'[a] = "parse" /\ job'[a] = j /\ config' = config /\ cache' = cache
    BY <1>1, <1>3 DEF Goto, ExtInv, TypeOK
  <1>5. CallFits(a)'
    BY <1>3, <1>4 DEF CallFits, ExtInv
  <1>6. OthersIdle(a) /\ ~Noting(a) /\ "parse" \in PCs
    BY <1>1, CallIsAlone DEF Noting, PCs
  <1> QED
    BY <1>1, <1>3, <1>5, <1>6, LocalStepKeeps

LEMMA ParseKeeps == ASSUME ExtInv, NEW a \in Actors, ApplyParse(a) PROVE ExtInv'
  <1> DEFINE f == job[a].next
             j == job[a]
  <1>1. /\ pc[a] = "parse" /\ f \in Files /\ j \in Jobs /\ j.base = config /\ j.out = config /\ j.snap = cache /\ cache \in Contents
        /\ UNCHANGED <<files, config, cache, state, wr, pc>>
    BY DEF ApplyParse, ExtInv, TypeOK, CallFits
  <1>2. f + 1 \in 1..NumFiles + 1
    BY <1>1, ExtensionAssumption DEF Files
  <1>3. PICK k \in Jobs : /\ job' = [job EXCEPT ![a] = k] /\ k.base = j.base /\ k.out = j.out /\ k.snap = j.snap /\ k.scan = j.scan
                          /\ \A g \in Files : k.pats[g] = j.pats[g] \/ k.pats[g] = k.scan[g]
    <2>1. CASE j.scan[f] = 0 /\ job' = [job EXCEPT ![a].next = f + 1]
      <3> DEFINE k == [j EXCEPT !.next = f + 1]
      <3>1. job' = [job EXCEPT ![a] = k]
        BY <2>1
      <3>2. k \in Jobs /\ k.base = j.base /\ k.out = j.out /\ k.snap = j.snap /\ k.scan = j.scan /\ k.pats = j.pats
        BY <1>1, <1>2 DEF Jobs
      <3> HIDE DEF k, j
      <3> QED
        BY <3>1, <3>2
    <2>2. CASE Hit(a, f) /\ job' = [job EXCEPT ![a].next = f + 1, ![a].pats[f] = cache[f]]
      <3> DEFINE k == [j EXCEPT !.next = f + 1, !.pats[f] = cache[f]]
      <3>1. job' = [job EXCEPT ![a] = k]
        BY <2>2
      <3>2. /\ k \in Jobs /\ k.base = j.base /\ k.out = j.out /\ k.snap = j.snap /\ k.scan = j.scan
            /\ k.pats = [j.pats EXCEPT ![f] = cache[f]] /\ j.pats \in Contents
        BY <1>1, <1>2 DEF Jobs, Contents
      <3>3. cache[f] = j.scan[f]
        BY <1>1, <2>2 DEF Hit
      <3> HIDE DEF k, j
      <3> QED
        BY <3>1, <3>2, <3>3 DEF Contents
    <2>3. CASE job' = [job EXCEPT ![a].next = f + 1, ![a].pats[f] = j.scan[f], ![a].fresh = @ \cup {f}]
      <3> DEFINE k == [j EXCEPT !.next = f + 1, !.pats[f] = j.scan[f], !.fresh = @ \cup {f}]
      <3>1. job' = [job EXCEPT ![a] = k]
        BY <2>3
      <3>2. /\ k \in Jobs /\ k.base = j.base /\ k.out = j.out /\ k.snap = j.snap /\ k.scan = j.scan
            /\ k.pats = [j.pats EXCEPT ![f] = j.scan[f]] /\ j.pats \in Contents
        BY <1>1, <1>2 DEF Jobs, Contents
      <3> HIDE DEF k, j
      <3> QED
        BY <3>1, <3>2 DEF Contents
    <2> QED
      BY <2>1, <2>2, <2>3 DEF ApplyParse
  <1>4. pc'[a] = "parse" /\ job'[a] = k /\ config' = config /\ cache' = cache /\ Goto(a, "parse")
    BY <1>1, <1>3 DEF Goto, ExtInv, TypeOK
  <1>5. \A g \in Files : k.pats[g] # 0 => k.pats[g] = k.scan[g]
    BY <1>3 DEF ExtInv, CallFits
  <1>6. CallFits(a)'
    BY <1>1, <1>3, <1>4, <1>5 DEF CallFits
  <1>7. OthersIdle(a) /\ ~Noting(a) /\ "parse" \in PCs
    BY <1>1, CallIsAlone DEF Noting, PCs
  <1>8. UNCHANGED <<files, config, cache, state, wr>>
    BY <1>1
  <1> HIDE DEF j, f
  <1> QED
    BY <1>3, <1>4, <1>6, <1>7, <1>8, LocalStepKeeps

LEMMA CacheKeeps == ASSUME ExtInv, NEW a \in Actors, ApplyCache(a) PROVE ExtInv'
  <1> DEFINE j == [job[a] EXCEPT !.next = 1]
  <1>1. /\ pc[a] = "parse" /\ Goto(a, "run") /\ UNCHANGED <<files, config, state, wr>>
        /\ job' = [job EXCEPT ![a] = j] /\ job[a] \in Jobs /\ job[a].base = config /\ job[a].out = config
        /\ cache' = [f \in Files |-> IF f \in job[a].fresh THEN job[a].scan[f] ELSE cache[f]]
        /\ pc \in [Actors -> PCs] /\ job \in [Actors -> Jobs] /\ config \in Seq(Rules)
    BY DEF ApplyCache, ExtInv, TypeOK, CallFits
  <1>2. cache' \in Contents
    <2>1. job[a].scan \in Contents /\ cache \in Contents
      BY <1>1 DEF ExtInv, TypeOK, Jobs
    <2>2. \A f \in Files : (IF f \in job[a].fresh THEN job[a].scan[f] ELSE cache[f]) \in 0..MaxVersion
      BY <2>1 DEF Contents
    <2> QED
      BY <1>1, <2>2 DEF Contents
  <1>3. /\ j \in Jobs /\ j.base = config /\ j.out = config /\ j.next = 1 /\ j.pats = job[a].pats
        /\ j.scan = job[a].scan
    <2>1. 1 \in 1..NumFiles + 1
      BY ExtensionAssumption
    <2> QED
      BY <1>1, <2>1 DEF Jobs
  <1> HIDE DEF j
  <1>4. pc'[a] = "run" /\ job'[a] = j /\ config' = config /\ "run" \in PCs
    BY <1>1 DEF Goto, PCs
  <1>5. TypeOK'
    BY <1>1, <1>2, <1>3, <1>4 DEF ExtInv, TypeOK, Goto, files
  <1>6. Kept' /\ ~Noting(a) /\ OthersIdle(a)
    BY <1>1, CallIsAlone DEF ExtInv, Kept, Noting
  <1>7. Settled'
    <2>1. Settled
      BY <1>6 DEF ExtInv, OthersIdle, Noting
    <2> QED
      BY <1>1, <2>1 DEF Settled, CurrentOutput
  <1>8. Ran(j)
    <2>1. \A f \in Scanned(j) : ~(f < 1)
      BY DEF Scanned, Files
    <2> QED
      BY <1>1, <1>3, <2>1 DEF Ran
  <1>9. CallFits(a)'
    BY <1>1, <1>3, <1>4, <1>8 DEF CallFits, ExtInv
  <1>10. \A b \in Actors \ {a} : pc'[b] = pc[b] /\ job'[b] = job[b]
    BY <1>1 DEF Goto
  <1> QED
    BY <1>5, <1>6, <1>7, <1>9, <1>10, StepKeeps

LEMMA RunKeeps == ASSUME ExtInv, NEW a \in Actors, ApplyRun(a) PROVE ExtInv'
  <1> DEFINE j == job[a]
             f == j.next
             out == Executed(j, f)
             k == [j EXCEPT !.next = f + 1, !.out = out]
  <1>1. /\ pc[a] = "run" /\ f \in Files /\ j \in Jobs /\ j.base = config /\ Ran(j)
        /\ UNCHANGED <<files, config, cache, state, wr, pc>> /\ job' = [job EXCEPT ![a] = k]
    BY DEF ApplyRun, ExtInv, TypeOK, CallFits
  <1>2. f \in Nat /\ f + 1 \in 1..NumFiles + 1 /\ \A g \in Files : g \in Nat
    BY <1>1, ExtensionAssumption DEF Files
  <1>3. /\ out \in Seq(Rules) /\ UserRules(out) = UserRules(j.out)
        /\ \A i \in DOMAIN j.out : \E n \in DOMAIN out : out[n] = j.out[i]
        /\ f \in Scanned(j) => \E n \in DOMAIN out : out[n] = RuleOf(j, f)
    <2>1. j.out \in Seq(Rules)
      BY <1>1 DEF Ran
    <2> HIDE DEF j, f
    <2> QED
      BY <1>1, <2>1, ExecutedAdds
  <1> HIDE DEF out
  <1>4. /\ k \in Jobs /\ k.base = config /\ k.out = out /\ k.next = f + 1 /\ k.pats = j.pats
        /\ k.scan = j.scan /\ k.fresh = j.fresh
    BY <1>1, <1>2, <1>3 DEF Jobs, Outputs
  <1> HIDE DEF k
  <1>5. Scanned(k) = Scanned(j) /\ \A g : RuleOf(k, g) = RuleOf(j, g)
    BY <1>4 DEF Scanned, RuleOf
  <1>6. Ran(k)
    <2>1. ASSUME NEW g \in Scanned(k), g < k.next PROVE \E n \in DOMAIN k.out : k.out[n] = RuleOf(k, g)
      <3>1. g \in Scanned(j) /\ RuleOf(k, g) = RuleOf(j, g) /\ g \in Nat /\ g < f + 1
        BY <1>2, <1>4, <1>5, <2>1 DEF Scanned
      <3>2. CASE g = f
        BY <1>3, <1>4, <3>1, <3>2
      <3>3. CASE g < f
        <4>1. PICK i \in DOMAIN j.out : j.out[i] = RuleOf(j, g)
          BY <1>1, <3>1, <3>3 DEF Ran
        <4> QED
          BY <1>3, <1>4, <3>1, <4>1
      <3>4. g = f \/ g < f
        BY <1>2, <3>1
      <3> QED
        BY <3>2, <3>3, <3>4
    <2> QED
      BY <1>1, <1>3, <1>4, <2>1 DEF Ran
  <1>7. pc'[a] = "run" /\ job'[a] = k /\ config' = config /\ Goto(a, "run")
    BY <1>1, <1>4 DEF Goto, ExtInv, TypeOK
  <1>8. CallFits(a)'
    BY <1>4, <1>6, <1>7 DEF CallFits, ExtInv
  <1>9. OthersIdle(a) /\ ~Noting(a) /\ "run" \in PCs
    BY <1>1, CallIsAlone DEF Noting, PCs
  <1>10. UNCHANGED <<files, config, cache, state, wr>>
    BY <1>1
  <1> HIDE DEF j, f
  <1> QED
    BY <1>1, <1>4, <1>7, <1>8, <1>9, <1>10, LocalStepKeeps

\* The compiled output has all rules of the user and of the files scanned.
LEMMA CompiledFits ==
  ASSUME ExtInv, NEW a \in Actors, Compiled(a)
  PROVE  /\ job[a].out \in Seq(Rules) /\ UserRules(job[a].out) = UserRules(config)
         /\ Annotate(job[a], job[a].out) \in SUBSET Annotations
         /\ Sound(job[a].out, Annotate(job[a], job[a].out))
  <1>1. pc[a] = "run" /\ job[a].next \notin Files /\ job[a] \in Jobs /\ job[a].base = config /\ Ran(job[a])
    BY DEF Compiled, ExtInv, TypeOK, CallFits
  <1>2. job[a].next \in 1..NumFiles + 1
    BY <1>1 DEF Jobs
  <1>3. \A f \in Scanned(job[a]) : f < job[a].next
    BY <1>1, <1>2, ExtensionAssumption DEF Scanned, Files
  <1>4. job[a].out \in Seq(Rules) /\ \A f \in Scanned(job[a]) : \E k \in DOMAIN job[a].out : job[a].out[k] = RuleOf(job[a], f)
    BY <1>1, <1>3 DEF Ran
  <1> QED
    BY <1>1, <1>4, AnnotateSound DEF Ran

LEMMA WriteKeeps == ASSUME ExtInv, NEW a \in Actors, ApplyWrite(a) PROVE ExtInv'
  <1> DEFINE anns == Annotate(job[a], job[a].out)
             j == [job[a] EXCEPT !.anns = anns]
             l == IF a \in Mains THEN "state" ELSE "publish"
  <1>1. /\ Compiled(a) /\ pc[a] = "run" /\ Goto(a, l) /\ UNCHANGED <<files, cache, state, wr>>
        /\ config' = job[a].out /\ job' = [job EXCEPT ![a] = j] /\ job[a] \in Jobs
        /\ pc \in [Actors -> PCs] /\ job \in [Actors -> Jobs]
    BY DEF ApplyWrite, Compiled, ExtInv, TypeOK
  <1>2. job[a].out \in Seq(Rules) /\ anns \in SUBSET Annotations /\ Sound(job[a].out, anns)
    BY <1>1, CompiledFits
  <1> HIDE DEF anns
  <1>3. j \in Jobs /\ j.out = job[a].out /\ j.anns = anns /\ j.pats = job[a].pats /\ j.scan = job[a].scan
    BY <1>1, <1>2 DEF Jobs
  <1> HIDE DEF j
  <1>4. l \in {"state", "publish"} /\ l \in PCs
    BY DEF PCs
  <1> HIDE DEF l
  <1>5. pc'[a] = l /\ job'[a] = j
    BY <1>1 DEF Goto
  <1>6. TypeOK'
    BY <1>1, <1>2, <1>3, <1>4 DEF ExtInv, TypeOK, Goto, files
  <1>7. Kept' /\ OthersIdle(a) /\ Noting(a)'
    BY <1>1, <1>4, <1>5, CallIsAlone DEF ExtInv, Kept, Noting
  <1>8. CallFits(a)'
    BY <1>1, <1>2, <1>3, <1>4, <1>5 DEF CallFits, ExtInv
  <1>9. \A b \in Actors \ {a} : pc'[b] = pc[b] /\ job'[b] = job[b]
    BY <1>1 DEF Goto
  <1> QED
    BY <1>6, <1>7, <1>8, <1>9, StepKeeps

LEMMA FailKeepsExt == ASSUME ExtInv, NEW a \in Actors, Fail(a), ~Noting(a), pc[a] # "idle" PROVE ExtInv'
  <1>1. /\ Goto(a, "idle") /\ job' = [job EXCEPT ![a] = NoJob] /\ UNCHANGED <<files, config, cache, wr>>
        /\ pc \in [Actors -> PCs] /\ job \in [Actors -> Jobs]
    BY DEF Fail, Finish, ExtInv, TypeOK
  <1>2. /\ state' \in [out : Outputs, anns : SUBSET Annotations, ok : BOOLEAN, user : BOOLEAN]
        /\ state'.out = state.out /\ state'.anns = state.anns
    BY DEF Fail, ExtInv, TypeOK
  <1>3. pc'[a] = "idle" /\ job'[a] = NoJob
    BY <1>1 DEF Goto
  <1>4. TypeOK'
    <2>1. "idle" \in PCs
      BY DEF PCs
    <2> QED
      BY <1>1, <1>2, <2>1, NothingTyped DEF ExtInv, TypeOK, Goto, files
  <1>5. Kept' /\ OthersIdle(a)
    BY <1>1, <1>2, CallIsAlone DEF ExtInv, Kept
  <1>6. Settled'
    <2>1. Settled
      BY <1>5 DEF ExtInv, OthersIdle, Noting
    <2> QED
      BY <1>1, <1>2, <2>1 DEF Settled, CurrentOutput
  <1>7. CallFits(a)'
    BY <1>3 DEF CallFits, NoJob, NoFiles
  <1>8. \A b \in Actors \ {a} : pc'[b] = pc[b] /\ job'[b] = job[b]
    BY <1>1 DEF Goto
  <1> QED
    BY <1>4, <1>5, <1>6, <1>7, <1>8, StepKeeps

LEMMA StateKeeps == ASSUME ExtInv, NEW a \in Actors, ApplyState(a) PROVE ExtInv'
  <1>1. /\ pc[a] = "state" /\ Goto(a, "publish") /\ UNCHANGED <<files, config, cache, wr, job>>
        /\ state' = [out |-> job[a].out, anns |-> job[a].anns, ok |-> TRUE, user |-> FALSE]
        /\ job[a].out = config /\ Sound(config, job[a].anns) /\ job[a] \in Jobs
        /\ pc \in [Actors -> PCs] /\ job \in [Actors -> Jobs]
    BY DEF ApplyState, ExtInv, TypeOK, CallFits
  <1>2. pc'[a] = "publish" /\ "publish" \in PCs
    BY <1>1 DEF Goto, PCs
  <1>3. TypeOK'
    <2>1. state' \in [out : Outputs, anns : SUBSET Annotations, ok : BOOLEAN, user : BOOLEAN]
      BY <1>1 DEF Jobs
    <2> QED
      BY <1>1, <1>2, <2>1 DEF ExtInv, TypeOK, Goto, files
  <1>4. Kept' /\ OthersIdle(a) /\ Noting(a)'
    BY <1>1, <1>2, CallIsAlone DEF ExtInv, Kept, Noting
  <1>5. CallFits(a)'
    BY <1>1, <1>2 DEF CallFits, ExtInv
  <1>6. \A b \in Actors \ {a} : pc'[b] = pc[b] /\ job'[b] = job[b]
    BY <1>1 DEF Goto
  <1> QED
    BY <1>3, <1>4, <1>5, <1>6, StepKeeps

LEMMA PublishKeeps == ASSUME ExtInv, NEW a \in Actors, ApplyPublish(a) PROVE ExtInv'
  <1>1. /\ pc[a] = "publish" /\ Goto(a, "idle") /\ job' = [job EXCEPT ![a] = NoJob]
        /\ UNCHANGED <<files, config, cache, state>>
        /\ wr' = [out |-> job[a].out, anns |-> job[a].anns]
        /\ job[a].out = config /\ Sound(config, job[a].anns) /\ job[a] \in Jobs /\ config \in Seq(Rules)
        /\ pc \in [Actors -> PCs] /\ job \in [Actors -> Jobs]
    BY DEF ApplyPublish, Finish, ExtInv, TypeOK, CallFits
  <1>2. pc'[a] = "idle" /\ job'[a] = NoJob /\ "idle" \in PCs
    BY <1>1 DEF Goto, PCs
  <1>3. TypeOK'
    <2>1. wr' \in [out : Outputs, anns : SUBSET Annotations]
      BY <1>1 DEF Jobs
    <2> QED
      BY <1>1, <1>2, <2>1, NothingTyped DEF ExtInv, TypeOK, Goto, files
  <1>4. Kept' /\ OthersIdle(a)
    BY <1>1, CallIsAlone DEF ExtInv, Kept
  <1>5. Settled'
    <2>1. wr'.out = config /\ wr'.out # NoSeq
      BY <1>1, SequencesAreSomething
    <2>2. wr' # Nothing
      BY <2>1 DEF Nothing
    <2> QED
      BY <1>1, <2>1, <2>2 DEF Settled, CurrentOutput
  <1>6. CallFits(a)'
    BY <1>2 DEF CallFits, NoJob, NoFiles
  <1>7. \A b \in Actors \ {a} : pc'[b] = pc[b] /\ job'[b] = job[b]
    BY <1>1 DEF Goto
  <1> QED
    BY <1>3, <1>4, <1>5, <1>6, <1>7, StepKeeps

LEMMA RememberedTyped ==
  ASSUME ExtInv
  PROVE  CurrentOutput \in Outputs /\ CurrentAnnotations \in SUBSET Annotations
         /\ Sound(CurrentOutput, CurrentAnnotations)
  BY DEF ExtInv, TypeOK, Kept, CurrentOutput, CurrentAnnotations

LEMMA AnnotationsKeep ==
  ASSUME ExtInv, ~Overlap, NEW a \in Actors, NEW p \in Positions, NEW g \in Files, InsertAnnotations(a, p, g)
  PROVE  ExtInv'
  <1> DEFINE j == [NoJob EXCEPT !.anns = CurrentAnnotations, !.pos = p, !.group = g]
  <1>1. /\ pc[a] = "idle" /\ Quiet /\ job[a] = NoJob /\ Goto(a, "insOut")
        /\ UNCHANGED <<files, config, cache, state, wr>> /\ pc \in [Actors -> PCs] /\ job \in [Actors -> Jobs]
        /\ job' = [job EXCEPT ![a] = j]
    BY DEF InsertAnnotations, MayCall, ExtInv, TypeOK, CallFits
  <1>2. j \in Jobs /\ j.anns = CurrentAnnotations /\ j.pats = NoFiles
    <2>1. CurrentAnnotations \in SUBSET Annotations /\ g \in Nat
      BY RememberedTyped DEF Files
    <2> HIDE DEF CurrentAnnotations
    <2> QED
      BY <2>1, NothingTyped DEF Jobs, NoJob
  <1> HIDE DEF j
  <1>3. pc'[a] = "insOut" /\ job'[a] = j /\ CurrentAnnotations' = CurrentAnnotations
    BY <1>1 DEF Goto, CurrentAnnotations
  <1>4. CallFits(a)'
    BY <1>2, <1>3 DEF CallFits, NoFiles
  <1>5. OthersIdle(a) /\ ~Noting(a) /\ "insOut" \in PCs
    BY <1>1, CallIsAlone DEF Noting, PCs
  <1> QED
    BY <1>1, <1>2, <1>4, <1>5, LocalStepKeeps

LEMMA OutputKeeps == ASSUME ExtInv, NEW a \in Actors, InsertOutput(a) PROVE ExtInv'
  <1> DEFINE j == [job[a] EXCEPT !.out = CurrentOutput, !.at = InsertIndex(job[a], CurrentOutput)]
  <1>1. /\ pc[a] = "insOut" /\ CurrentOutput # NoSeq /\ Goto(a, "insWrite")
        /\ UNCHANGED <<files, config, cache, state, wr>> /\ job' = [job EXCEPT ![a] = j]
        /\ job[a] \in Jobs /\ job[a].anns = CurrentAnnotations /\ config \in Seq(Rules)
        /\ pc \in [Actors -> PCs] /\ job \in [Actors -> Jobs]
    BY DEF InsertOutput, ExtInv, TypeOK, CallFits
  <1>2. OthersIdle(a) /\ ~Noting(a) /\ "insWrite" \in PCs
    BY <1>1, CallIsAlone DEF Noting, PCs
  <1>3. CurrentOutput = config /\ Sound(config, job[a].anns)
    <2>1. Settled
      BY <1>2 DEF ExtInv, OthersIdle, Noting
    <2> QED
      BY <1>1, <2>1, RememberedTyped DEF Settled
  <1> DEFINE at == InsertIndex(job[a], config)
  <1>4. /\ at \in 1..Len(config) + 1
        /\ job[a].pos = "AfterGroup" /\ Indices(job[a].anns, {job[a].group}) # {} =>
             at - 1 \in DOMAIN config /\ config[at - 1].by = job[a].group
    BY <1>1, <1>3, InsertIndexFits
  <1>5. j = [job[a] EXCEPT !.out = config, !.at = at]
    BY <1>3
  <1> HIDE DEF at, j
  <1>6. /\ j \in Jobs /\ j.out = config /\ j.at = at /\ j.anns = job[a].anns /\ j.pos = job[a].pos
        /\ j.group = job[a].group /\ j.pats = job[a].pats /\ j.scan = job[a].scan
    <2>1. at \in Nat /\ config \in Outputs
      BY <1>1, <1>4, LenProperties DEF Outputs
    <2> QED
      BY <1>1, <1>5, <2>1 DEF Jobs
  <1>7. Placed(j)
    BY <1>1, <1>3, <1>4, <1>6 DEF Placed
  <1>8. pc'[a] = "insWrite" /\ job'[a] = j /\ config' = config
    BY <1>1 DEF Goto
  <1>9. CallFits(a)'
    BY <1>6, <1>7, <1>8 DEF CallFits, ExtInv
  <1> QED
    BY <1>1, <1>2, <1>6, <1>9, LocalStepKeeps

\* An insertion that is refused, or whose write fails.
LEMMA GiveUpKeeps ==
  ASSUME ExtInv, NEW a \in Actors, Finish(a), pc[a] # "idle", ~Noting(a),
         UNCHANGED <<files, config, cache, state, wr>>
  PROVE  ExtInv'
  <1>1. Goto(a, "idle") /\ job' = [job EXCEPT ![a] = NoJob] /\ pc \in [Actors -> PCs] /\ job \in [Actors -> Jobs]
    BY DEF Finish, ExtInv, TypeOK
  <1>2. pc'[a] = "idle" /\ job'[a] = NoJob /\ "idle" \in PCs
    BY <1>1 DEF Goto, PCs
  <1>3. CallFits(a)'
    BY <1>2 DEF CallFits, NoJob, NoFiles
  <1>4. OthersIdle(a)
    BY CallIsAlone
  <1> QED
    BY <1>1, <1>2, <1>3, <1>4, NothingTyped, LocalStepKeeps

LEMMA InsertWriteFits ==
  ASSUME ExtInv, NEW a \in Actors, InsertWrite(a)
  PROVE  /\ config' \in Seq(Rules) /\ UserRules(config') = UserRules(config) + 1
         /\ job[a].pos = "AfterGroup" /\ Indices(job[a].anns, {job[a].group}) # {} =>
              config'[job[a].at - 1].by = job[a].group
  <1> DEFINE at == job[a].at
             t == InsertAt(config, at, UserRule)
  <1>1. /\ pc[a] = "insWrite" /\ job[a].out = config /\ Placed(job[a]) /\ config' = t /\ config \in Seq(Rules)
    BY DEF InsertWrite, ExtInv, TypeOK, CallFits
  <1>2. at \in 1..Len(config) + 1 /\ Len(config) \in Nat
    BY <1>1, LenProperties DEF Placed
  <1> HIDE DEF at, t
  <1>3. AddedAt(config, at, UserRule, t)
    BY <1>1, <1>2, NothingTyped, Inserted DEF t
  <1>4. UserRules(t) = UserRules(config) + (IF UserRule.by = User THEN 1 ELSE 0)
    BY <1>1, <1>3, OneRuleMore
  <1>5. ASSUME at - 1 \in DOMAIN config PROVE t[at - 1] = config[at - 1]
    <2>1. at - 1 \in 1..Len(t) /\ at - 1 < at
      BY <1>1, <1>2, <1>3, <1>5, LenProperties DEF AddedAt
    <2> QED
      BY <1>3, <2>1 DEF AddedAt
  <1>6. ASSUME job[a].pos = "AfterGroup", Indices(job[a].anns, {job[a].group}) # {}
        PROVE  t[at - 1].by = job[a].group
    BY <1>1, <1>5, <1>6 DEF Placed, at
  <1> QED
    BY <1>1, <1>3, <1>4, <1>6, NothingTyped DEF AddedAt, at

LEMMA InsertWriteKeeps == ASSUME ExtInv, NEW a \in Actors, InsertWrite(a) PROVE ExtInv'
  <1> DEFINE j == [job[a] EXCEPT !.out = config']
  <1>1. /\ pc[a] = "insWrite" /\ Goto(a, "insState") /\ UNCHANGED <<files, cache, state, wr>>
        /\ job' = [job EXCEPT ![a] = j] /\ job[a] \in Jobs
        /\ pc \in [Actors -> PCs] /\ job \in [Actors -> Jobs]
    BY DEF InsertWrite, ExtInv, TypeOK
  <1>2. config' \in Seq(Rules)
    BY InsertWriteFits
  <1>3. j \in Jobs /\ j.out = config' /\ j.pats = job[a].pats /\ j.scan = job[a].scan
    BY <1>1, <1>2 DEF Jobs, Outputs
  <1> HIDE DEF j
  <1>4. pc'[a] = "insState" /\ job'[a] = j /\ "insState" \in PCs
    BY <1>1 DEF Goto, PCs
  <1>5. TypeOK'
    BY <1>1, <1>2, <1>3, <1>4 DEF ExtInv, TypeOK, Goto, files
  <1>6. Kept' /\ OthersIdle(a) /\ Noting(a)'
    BY <1>1, <1>4, CallIsAlone DEF ExtInv, Kept, Noting
  <1>7. CallFits(a)'
    BY <1>3, <1>4 DEF CallFits, ExtInv
  <1>8. \A b \in Actors \ {a} : pc'[b] = pc[b] /\ job'[b] = job[b]
    BY <1>1 DEF Goto
  <1> QED
    BY <1>5, <1>6, <1>7, <1>8, StepKeeps

LEMMA InsertStateKeeps == ASSUME ExtInv, NEW a \in Actors, InsertState(a) PROVE ExtInv'
  <1>1. /\ pc[a] = "insState" /\ Goto(a, "insClear") /\ UNCHANGED <<files, config, cache, wr, job>>
        /\ job[a].out = config /\ job[a] \in Jobs /\ pc \in [Actors -> PCs] /\ job \in [Actors -> Jobs]
    BY DEF InsertState, ExtInv, TypeOK, CallFits
  <1>2. /\ state' \in [out : Outputs, anns : SUBSET Annotations, ok : BOOLEAN, user : BOOLEAN]
        /\ state'.out = config /\ state'.anns = {}
    <2>1. state \in [out : Outputs, anns : SUBSET Annotations, ok : BOOLEAN, user : BOOLEAN] /\ config \in Outputs
      BY DEF ExtInv, TypeOK, Outputs
    <2> QED
      BY <1>1, <2>1 DEF InsertState
  <1>3. pc'[a] = "insClear" /\ "insClear" \in PCs
    BY <1>1 DEF Goto, PCs
  <1>4. TypeOK'
    BY <1>1, <1>2, <1>3 DEF ExtInv, TypeOK, Goto, files
  <1>5. Kept' /\ OthersIdle(a) /\ Noting(a)'
    BY <1>1, <1>2, <1>3, CallIsAlone DEF ExtInv, Kept, Sound, Noting
  <1>6. CallFits(a)'
    BY <1>1, <1>2, <1>3 DEF CallFits, ExtInv
  <1>7. \A b \in Actors \ {a} : pc'[b] = pc[b] /\ job'[b] = job[b]
    BY <1>1 DEF Goto
  <1> QED
    BY <1>4, <1>5, <1>6, <1>7, StepKeeps

LEMMA ClearKeeps == ASSUME ExtInv, NEW a \in Actors, InsertClear(a) PROVE ExtInv'
  <1>1. /\ pc[a] = "insClear" /\ Goto(a, "idle") /\ job' = [job EXCEPT ![a] = NoJob]
        /\ UNCHANGED <<files, config, cache, state>> /\ wr' = Nothing
        /\ state.out = config /\ state.anns = {}
        /\ pc \in [Actors -> PCs] /\ job \in [Actors -> Jobs]
    BY DEF InsertClear, Finish, ExtInv, TypeOK, CallFits
  <1>2. pc'[a] = "idle" /\ job'[a] = NoJob /\ "idle" \in PCs
    BY <1>1 DEF Goto, PCs
  <1>3. TypeOK'
    BY <1>1, <1>2, NothingTyped DEF ExtInv, TypeOK, Goto, files
  <1>4. Kept' /\ OthersIdle(a)
    BY <1>1, CallIsAlone DEF ExtInv, Kept, Sound, Nothing
  <1>5. Settled'
    BY <1>1 DEF Settled, CurrentOutput
  <1>6. CallFits(a)'
    BY <1>2 DEF CallFits, NoJob, NoFiles
  <1>7. \A b \in Actors \ {a} : pc'[b] = pc[b] /\ job'[b] = job[b]
    BY <1>1 DEF Goto
  <1> QED
    BY <1>3, <1>4, <1>5, <1>6, <1>7, StepKeeps

LEMMA ExtKeeps == ~Overlap /\ ExtInv /\ [Next]_vars => ExtInv'
  <1> SUFFICES ASSUME ~Overlap, ExtInv, [Next]_vars PROVE ExtInv'
    OBVIOUS
  <1>1. ASSUME NEW a \in Actors, Apply(a) PROVE ExtInv'
    <2>1. CASE ApplyScanFails(a) \/ ApplyParseFails(a) \/ ApplyWriteFails(a)
      <3>1. Fail(a) /\ pc[a] \in {"scan", "parse", "run"}
        BY <2>1 DEF ApplyScanFails, ApplyParseFails, ApplyWriteFails, Compiled
      <3> QED
        BY <3>1, FailKeepsExt DEF Noting
    <2> QED
      BY <1>1, <2>1, ReadKeeps, ScanKeeps, SnapshotKeeps, ParseKeeps, CacheKeeps, RunKeeps, WriteKeeps,
         StateKeeps, PublishKeeps DEF Apply
  <1>2. ASSUME NEW a \in Actors, Insert(a) PROVE ExtInv'
    <2>1. CASE InsertRefused(a) \/ InsertWriteFails(a)
      <3>1. /\ Finish(a) /\ pc[a] \in {"insOut", "insWrite"}
            /\ UNCHANGED <<files, config, cache, state, wr>>
        BY <2>1 DEF InsertRefused, InsertWriteFails
      <3> QED
        BY <3>1, GiveUpKeeps DEF Noting
    <2> QED
      BY <1>2, <2>1, AnnotationsKeep, OutputKeeps, InsertWriteKeeps, InsertStateKeeps, ClearKeeps DEF Insert
  <1>3. ASSUME /\ UNCHANGED <<config, cache, state, wr, pc, job>>
               /\ ver' \in [Files -> Versions] /\ on' \in [Files -> BOOLEAN]
        PROVE  ExtInv'
    <2>1. TypeOK' /\ Kept' /\ OneCall'
      BY <1>3 DEF ExtInv, TypeOK, Kept, OneCall
    <2>2. CurrentOutput' = CurrentOutput /\ CurrentAnnotations' = CurrentAnnotations
      BY <1>3 DEF CurrentOutput, CurrentAnnotations
    <2>3. \A a \in Actors : CallFits(a)'
      BY <1>3, <2>2 DEF ExtInv, CallFits
    <2>4. (\A a \in Actors : ~Noting(a))' => Settled'
      BY <1>3, <2>2 DEF ExtInv, Noting, Settled
    <2> QED
      BY <2>1, <2>3, <2>4 DEF ExtInv
  <1>4. ASSUME NEW f \in Files, NEW enabled \in BOOLEAN, ToggleGroup(f, enabled) PROVE ExtInv'
    BY <1>3, <1>4 DEF ToggleGroup, ExtInv, TypeOK
  <1>5. ASSUME NEW f \in Files, NEW v \in Versions, EditFile(f, v) PROVE ExtInv'
    BY <1>3, <1>5 DEF EditFile, ExtInv, TypeOK
  <1>6. CASE UNCHANGED vars
    BY <1>3, <1>6 DEF vars, files, ExtInv, TypeOK
  <1> QED
    BY <1>1, <1>2, <1>4, <1>5, <1>6 DEF Next

-----------------------------------------------------------------------------
(* What follows. *)

LEMMA GroupsCounted == TypeOK => Status.patch_count = Cardinality(ListRules)
  <1> SUFFICES ASSUME TypeOK PROVE Status.patch_count = Cardinality(ListRules)
    OBVIOUS
  <1> DEFINE G == {n.by : n \in CurrentAnnotations}
             shown(f) == [group |-> f, enabled |-> on[f], rules |-> Indices(CurrentAnnotations, {f})]
             show == [f \in G |-> shown(f)]
  <1>1. Status.patch_count = Cardinality(G)
    BY DEF Status, CurrentAnnotations
  <1>2. IsFiniteSet(G)
    <2>1. G \in SUBSET Files
      BY DEF TypeOK, CurrentAnnotations, Annotations
    <2>2. IsFiniteSet(Files)
      BY ExtensionAssumption, FS_Interval DEF Files
    <2> HIDE DEF G
    <2> QED
      BY <2>1, <2>2, FS_Subset
  <1>3. ListRules = {shown(f) : f \in G}
    BY DEF ListRules
  <1>4. \A f, g : shown(f) = shown(g) => f = g
    <2>1. \A f : shown(f).group = f
      OBVIOUS
    <2> HIDE DEF shown
    <2> QED
      BY <2>1
  <1> HIDE DEF G, shown
  <1>5. show \in [G -> ListRules]
    BY <1>3
  <1>6. show \in Injection(G, ListRules)
    BY <1>4, <1>5, Fun_IsInj
  <1>7. show \in Surjection(G, ListRules)
    BY <1>3, <1>5, Fun_IsSurj
  <1>8. Cardinality(ListRules) = Cardinality(G)
    BY <1>2, <1>6, <1>7, FS_Bijection DEF ExistsBijection, Bijection
  <1> QED
    BY <1>1, <1>8

LEMMA ExtInvSuffices == ExtInv => RememberedExact
  <1> SUFFICES ASSUME ExtInv PROVE RememberedExact
    OBVIOUS
  <1>1. Quiet => Settled
    BY DEF ExtInv, Quiet, Noting
  <1>2. OutputMatchesConfig
    BY <1>1 DEF OutputMatchesConfig, Settled
  <1>3. AnnotationsSound
    BY DEF ExtInv, Kept, Sound, AnnotationsSound
  <1>4. PatchesMatchContent
    BY DEF ExtInv, CallFits, PatchesMatchContent
  <1>5. ASSUME Quiet, NEW g \in ListRules, NEW i \in g.rules PROVE config[i].by = g.group
    <2>1. PICK n \in CurrentAnnotations : n.by = g.group /\ n.idx = i
      BY DEF ListRules, Indices
    <2>2. CurrentOutput # NoSeq /\ CurrentOutput[i].by = g.group
      BY <2>1, RememberedTyped DEF Sound
    <2> QED
      BY <1>1, <1>5, <2>2 DEF Settled
  <1>6. ASSUME state.out = config, NEW i \in DOMAIN config, IsPrismRule(i).is_prism
        PROVE  config[i].by = IsPrismRule(i).group
    <2> DEFINE here == {n \in state.anns : n.idx = i}
    <2>1. here # {} /\ IsPrismRule(i).group = (CHOOSE n \in here : TRUE).by
      BY <1>6 DEF IsPrismRule
    <2>2. (CHOOSE n \in here : TRUE) \in here
      BY <2>1
    <2> DEFINE first == CHOOSE n \in here : TRUE
    <2>3. first \in state.anns /\ first.idx = i
      BY <2>2
    <2> HIDE DEF first
    <2>4. config[i].by = first.by
      BY <1>6, <2>3 DEF ExtInv, Kept, Sound
    <2> QED
      BY <2>1, <2>4 DEF first
  <1>7. ASSUME Quiet, ~Status.success PROVE ListRules = {}
    <2>1. wr = Nothing
      BY <1>7 DEF Status
    <2>2. CurrentAnnotations = {}
      BY <1>1, <1>7, <2>1 DEF Settled, CurrentAnnotations
    <2> QED
      BY <2>2 DEF ListRules
  <1>8. ViewsFit
    BY <1>5, <1>6, <1>7, GroupsCounted DEF ViewsFit, ExtInv
  <1> QED
    BY <1>2, <1>3, <1>4, <1>8 DEF RememberedExact, ExtInv

\* For any number of files, contents, rules and watcher instances, whatever fails and whatever the
\* user renames or edits meanwhile: as long as calls do not overlap, the extension remembers the
\* output that runs, and its annotations, its cache and its views fit it.
THEOREM RememberedStaysExact ==
  ASSUME ~Overlap
  PROVE  Spec => []RememberedExact
  <1>1. ExtInv /\ [Next]_vars => ExtInv'
    BY ExtKeeps
  <1> QED
    BY <1>1, ExtStarts, ExtInvSuffices, PTL DEF Spec

\* Only the write of an insertion inserts; every other step leaves the config or compiles it.
LEMMA OnlyWritesInsert ==
  ASSUME ExtInv, [Next]_vars
  PROVE  /\ \A a \in Actors : Inserting(a) => InsertWrite(a)
         /\ \/ config' = config /\ \A a \in Actors : ~Inserting(a)
            \/ \E a \in Actors : ApplyWrite(a) /\ \A b \in Actors : ~Inserting(b)
            \/ \E a \in Actors : InsertWrite(a) /\ Inserting(a)
  <1>1. pc \in [Actors -> PCs]
    BY DEF ExtInv, TypeOK
  <1>2. ASSUME NEW a \in Actors, Apply(a)
        PROVE  (config' = config \/ ApplyWrite(a)) /\ \A b \in Actors : ~Inserting(b)
    <2>1. pc[a] # "insWrite" /\ \A b \in Actors \ {a} : pc'[b] = pc[b]
      BY <1>1, <1>2 DEF Apply, ApplyRead, MayCall, ApplyScan, ApplyScanFails, ApplySnapshot, ApplyParse,
         ApplyParseFails, ApplyCache, ApplyRun, ApplyWrite, ApplyWriteFails, ApplyState, ApplyPublish,
         Compiled, Fail, Finish, Goto
    <2>2. config' = config \/ ApplyWrite(a)
      BY <1>2 DEF Apply, ApplyRead, ApplyScan, ApplyScanFails, ApplySnapshot, ApplyParse,
         ApplyParseFails, ApplyCache, ApplyRun, ApplyWriteFails, ApplyState, ApplyPublish, Fail
    <2> QED
      BY <2>1, <2>2 DEF Inserting
  <1>3. ASSUME NEW a \in Actors, Insert(a)
        PROVE  \/ config' = config /\ \A b \in Actors : ~Inserting(b)
               \/ InsertWrite(a) /\ Inserting(a) /\ \A b \in Actors \ {a} : ~Inserting(b)
    <2>1. CASE InsertWrite(a)
      BY <1>1, <2>1 DEF InsertWrite, Goto, Inserting
    <2>2. CASE InsertWriteFails(a)
      BY <1>1, <2>2 DEF InsertWriteFails, Finish, Goto, Inserting
    <2>3. CASE ~InsertWrite(a) /\ ~InsertWriteFails(a)
      <3>1. pc[a] # "insWrite" /\ config' = config /\ \A b \in Actors \ {a} : pc'[b] = pc[b]
        BY <1>1, <1>3, <2>3 DEF Insert, InsertAnnotations, MayCall, InsertOutput, InsertRefused, InsertState,
           InsertClear, Finish, Goto
      <3> QED
        BY <3>1 DEF Inserting
    <2> QED
      BY <2>1, <2>2, <2>3
  <1>4. CASE UNCHANGED <<config, pc>>
    BY <1>4 DEF Inserting
  <1>5. CASE \E f \in Files, enabled \in BOOLEAN : ToggleGroup(f, enabled)
    BY <1>4, <1>5 DEF ToggleGroup
  <1>6. CASE \E f \in Files, v \in Versions : EditFile(f, v)
    BY <1>4, <1>6 DEF EditFile
  <1>7. CASE UNCHANGED vars
    BY <1>4, <1>7 DEF vars
  <1> QED
    BY <1>2, <1>3, <1>5, <1>6, <1>7 DEF Next

LEMMA InsertionStep ==
  ASSUME ExtInv, [Next]_vars
  PROVE  /\ UserRules(config') = UserRules(config) + (IF \E a \in Actors : Inserting(a) THEN 1 ELSE 0)
         /\ \A a \in Actors :
              Inserting(a) /\ job[a].pos = "AfterGroup" /\ Indices(job[a].anns, {job[a].group}) # {} =>
                config'[job[a].at - 1].by = job[a].group
  <1>1. UserRules(config) \in Nat
    <2>1. Len(config) \in Nat /\ DOMAIN config = 1..Len(config)
      BY LenProperties DEF ExtInv, TypeOK
    <2> DEFINE T == {i \in DOMAIN config : config[i].by = User}
    <2>2. IsFiniteSet(1..Len(config)) /\ T \in SUBSET (1..Len(config))
      BY <2>1, FS_Interval
    <2> HIDE DEF T
    <2>3. Cardinality(T) \in Nat
      BY <2>2, FS_Subset, FS_CardinalityType
    <2> QED
      BY <2>3 DEF T, UserRules
  <1>2. CASE config' = config /\ \A a \in Actors : ~Inserting(a)
    BY <1>1, <1>2
  <1>3. ASSUME NEW a \in Actors, ApplyWrite(a), \A b \in Actors : ~Inserting(b)
        PROVE  UserRules(config') = UserRules(config)
    BY <1>3, CompiledFits DEF ApplyWrite
  <1>4. ASSUME NEW a \in Actors, InsertWrite(a), Inserting(a)
        PROVE  UserRules(config') = UserRules(config) + 1
    BY <1>4, InsertWriteFits
  <1>5. \A a \in Actors :
          Inserting(a) /\ job[a].pos = "AfterGroup" /\ Indices(job[a].anns, {job[a].group}) # {} =>
            config'[job[a].at - 1].by = job[a].group
    BY OnlyWritesInsert, InsertWriteFits
  <1>6. UserRules(config') = UserRules(config) + (IF \E a \in Actors : Inserting(a) THEN 1 ELSE 0)
    BY <1>1, <1>2, <1>3, <1>4, OnlyWritesInsert
  <1> QED
    BY <1>5, <1>6

\* Under the same conditions, what the user inserts lands behind the group it was asked for and no
\* later call loses it.
THEOREM InsertionsDoLand ==
  ASSUME ~Overlap
  PROVE  Spec => InsertionsLand
  <1>1. ExtInv /\ [Next]_vars => ExtInv'
    BY ExtKeeps
  <1>2. ExtInv /\ [Next]_vars =>
          /\ [UserRules(config') = UserRules(config) + (IF \E a \in Actors : Inserting(a) THEN 1 ELSE 0)]_vars
          /\ [\A a \in Actors :
                Inserting(a) /\ job[a].pos = "AfterGroup" /\ Indices(job[a].anns, {job[a].group}) # {} =>
                  config'[job[a].at - 1].by = job[a].group]_vars
    BY InsertionStep
  <1> QED
    BY <1>1, <1>2, ExtStarts, PTL DEF Spec, InsertionsLand, UserRulesKept, AfterGroupLands
=============================================================================
