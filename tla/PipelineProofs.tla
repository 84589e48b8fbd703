---------------------------- MODULE PipelineProofs ----------------------------
(***************************************************************************)
(* The patch pipeline for any number of patches, files, references and     *)
(* profiles: patches run in the order their files and references demand    *)
(* (OrderKept), a cycle is reported exactly when there is one, and as it   *)
(* is (CyclesFound), and sorting, threads and merges lose and repeat       *)
(* nothing (NothingLost).                                                  *)
(*                                                                         *)
(* The invariant has a part for each phase.  SortInv: the in-degree of a   *)
(* patch counts the edges nothing sorted has taken away.  SearchInv: a     *)
(* cycle through the candidate leaves the stack at a branch not yet looked *)
(* at, so that an exhausted candidate is on no cycle.  ExecInv: a patch is *)
(* in its list until it is applied.                                        *)
(***************************************************************************)
EXTENDS PatchPipeline, FunctionTheorems, FiniteSetTheorems, SequenceTheorems, TLAPS

Given ==
  /\ mode \in {"ordered", "pipeline"} /\ file \in FileMaps
  /\ scope \in [Patches -> Scopes] /\ (mode = "ordered" => \A p \in Patches : scope[p] = "global")
  /\ after \subseteq Refs /\ IsFiniteSet(after)

------------------------------------------------------------------------------
(* The sort. *)

Graphed == pc \notin {"index", "graph"} /\ error \notin {"ambiguous", "missing"}
Compiled == pc \in {"check", "profiles", "run", "done"} \/ error \in {"cross", "exec"}
\* The edges from q that no patch of S has taken away.
Waits(q, S) == {e \in after \X Patches : e[1].from = q /\ e[2] \in Targets(e[1]) /\ e[2] \notin S}
Circle(S) == \A p \in S : \E q \in S : DependsOn(p, q)

SortTypes ==
  /\ pc \in {"index", "graph", "sort", "cycle", "check", "profiles", "run", "done", "failed"}
  /\ error \in {"none", "ambiguous", "missing", "cycle", "cross", "exec"}
  /\ (error = "none") = (pc # "failed")
  /\ degree \in [Patches -> Nat]
  /\ sorted \in Seq(Patches) /\ IsInjective(sorted)
DegreeExact == IF Graphed THEN \A q \in Patches : degree[q] = Cardinality(Waits(q, Range(sorted))) ELSE sorted = <<>>
\* What a patch waits for is sorted before it.
DepsFirst ==
  \A j \in DOMAIN sorted, q \in Patches :
    DependsOn(sorted[j], q) => \E i \in DOMAIN sorted : i < j /\ sorted[i] = q
\* No patch of a circle is ever sorted.
CirclesWait == \A S \in SUBSET Patches : Circle(S) => S \cap Range(sorted) = {}
\* A patch that was passed over by one of a later file waited then, and for what was sorted since.
PassedOver ==
  Graphed => \A q \in Unsorted : \A i \in DOMAIN sorted : file[sorted[i]] > file[q] =>
    degree[q] > 0 \/ \E k \in i..Len(sorted) : DependsOn(q, sorted[k])
Ends ==
  /\ pc = "cycle" \/ error = "cycle" => Unsorted # {} /\ Queue = {}
  /\ Compiled => Unsorted = {}
SortInv == SortTypes /\ DegreeExact /\ DepsFirst /\ CirclesWait /\ PassedOver /\ FileOrder /\ Ends

\* The input never changes, nor what its references stand for.
LEMMA SameReferences ==
    ASSUME UNCHANGED <<file, stem, after>>
    PROVE  /\ \A r : Targets(r)' = Targets(r)
           /\ \A q, p : Edges(q, p)' = Edges(q, p) /\ (DependsOn(q, p)' <=> DependsOn(q, p))
           /\ \A q, S : Waits(q, S)' = Waits(q, S)
           /\ \A S : Circle(S)' <=> Circle(S)
  <1>1. \A r : Targets(r)' = Targets(r)
    BY DEF Targets
  <1>2. \A q, p : Edges(q, p)' = Edges(q, p)
    BY <1>1 DEF Edges
  <1>3. \A q, p : DependsOn(q, p)' <=> DependsOn(q, p)
    BY <1>2 DEF DependsOn
  <1>4. \A q, S : Waits(q, S)' = Waits(q, S)
    BY <1>1 DEF Waits
  <1> QED
    BY <1>1, <1>2, <1>3, <1>4 DEF Circle

\* Sorting p takes its edges to q away.
LEMMA FewerWaits ==
    ASSUME Given, NEW q \in Patches, NEW p \in Patches, NEW S, p \notin S
    PROVE  /\ Cardinality(Waits(q, S)) \in Nat /\ Cardinality(Waits(q, S \cup {p})) \in Nat
           /\ Decrement(q, p) \in Nat
           /\ Cardinality(Waits(q, S \cup {p})) = Cardinality(Waits(q, S)) - Decrement(q, p)
           /\ ~DependsOn(q, p) => Decrement(q, p) = 0
           /\ Cardinality(Waits(q, S)) = 0 => Waits(q, S) = {}
  <1> DEFINE E == Edges(q, p) \X {p}
             W == Waits(q, S)
  <1>1. IsFiniteSet(after) /\ IsFiniteSet(Patches)
    BY PatchesAreNumbers DEF Given
  <1>2. IsFiniteSet(W) /\ IsFiniteSet(Edges(q, p)) /\ IsFiniteSet({p}) /\ Cardinality({p}) = 1
    <2>1. IsFiniteSet(after \X Patches)
      BY <1>1, FS_Product
    <2> QED
      BY <1>1, <2>1, FS_Subset, FS_Singleton DEF Waits, Edges
  <1>3. Cardinality(W) \in Nat /\ Cardinality(Edges(q, p)) \in Nat
    BY <1>2, FS_CardinalityType
  <1>4. IsFiniteSet(E) /\ Cardinality(E) = Cardinality(Edges(q, p))
    <2>1. IsFiniteSet(E) /\ Cardinality(E) = Cardinality(Edges(q, p)) * Cardinality({p})
      BY <1>2, FS_Product
    <2> QED
      BY <1>2, <1>3, <2>1
  <1>5. E \subseteq W
    BY DEF Waits, Edges
  <1>6. Waits(q, S \cup {p}) = W \ E
    BY DEF Waits, Edges
  <1>7. IsFiniteSet(W \ E) /\ Cardinality(W \ E) = Cardinality(W) - Cardinality(W \cap E)
    BY <1>2, FS_Difference
  <1>8. W \cap E = E
    BY <1>5
  <1>9. Cardinality(W \ E) \in Nat
    BY <1>7, FS_CardinalityType
  <1>10. ~DependsOn(q, p) => Cardinality(Edges(q, p)) = 0
    BY FS_EmptySet DEF DependsOn
  <1>11. Cardinality(W) = 0 => W = {}
    BY <1>2, FS_EmptySet
  <1> HIDE DEF E, W
  <1> QED
    BY <1>3, <1>4, <1>6, <1>7, <1>8, <1>9, <1>10, <1>11 DEF Decrement, W

\* Who waits for nothing unsorted has nothing left to wait for, and conversely.
LEMMA NothingToWaitFor ==
    ASSUME Given, SortInv, Graphed, NEW q \in Patches
    PROVE  /\ degree[q] = 0 => \A p \in Patches : DependsOn(q, p) => p \in Range(sorted)
           /\ degree[q] # 0 => \E p \in Unsorted : DependsOn(q, p)
  <1>1. degree[q] = Cardinality(Waits(q, Range(sorted)))
    BY DEF SortInv, DegreeExact
  <1>2. Cardinality(Waits(q, Range(sorted))) = 0 <=> Waits(q, Range(sorted)) = {}
    <2>1. IsFiniteSet(after \X Patches)
      BY FS_Product, PatchesAreNumbers DEF Given
    <2>2. IsFiniteSet(Waits(q, Range(sorted)))
      BY <2>1, FS_Subset DEF Waits
    <2> QED
      BY <2>2, FS_EmptySet
  <1>3. ASSUME NEW p \in Patches, DependsOn(q, p), p \notin Range(sorted)
        PROVE  Waits(q, Range(sorted)) # {}
    <2>1. PICK r \in after : r.from = q /\ p \in Targets(r)
      BY <1>3 DEF DependsOn, Edges
    <2>2. <<r, p>> \in Waits(q, Range(sorted))
      BY <1>3, <2>1 DEF Waits
    <2> QED
      BY <2>2
  <1>4. ASSUME Waits(q, Range(sorted)) # {} PROVE \E p \in Unsorted : DependsOn(q, p)
    <2>1. PICK e \in Waits(q, Range(sorted)) : TRUE
      BY <1>4
    <2>2. e[2] \in Patches \ Range(sorted) /\ e[1] \in after /\ e[1].from = q /\ e[2] \in Targets(e[1])
      BY <2>1 DEF Waits
    <2>3. e[1] \in Edges(q, e[2])
      BY <2>2 DEF Edges
    <2> QED
      BY <2>2, <2>3 DEF Unsorted, DependsOn
  <1> QED
    BY <1>1, <1>2, <1>3, <1>4

\* What is appended to a sequence.
LEMMA Appended ==
    ASSUME NEW S, NEW s \in Seq(S), NEW e \in S
    PROVE  /\ Append(s, e) \in Seq(S) /\ Len(Append(s, e)) = Len(s) + 1
           /\ Len(s) \in Nat /\ DOMAIN s = 1..Len(s) /\ DOMAIN Append(s, e) = 1..Len(s) + 1
           /\ Append(s, e)[Len(s) + 1] = e
           /\ \A i \in DOMAIN s : Append(s, e)[i] = s[i]
           /\ Range(Append(s, e)) = Range(s) \cup {e}
           /\ IsInjective(s) /\ e \notin Range(s) => IsInjective(Append(s, e))
  <1> DEFINE t == Append(s, e)
  <1>1. /\ t \in Seq(S) /\ Len(t) = Len(s) + 1 /\ Len(s) \in Nat
        /\ DOMAIN s = 1..Len(s) /\ DOMAIN t = 1..Len(s) + 1
        /\ t[Len(s) + 1] = e /\ \A i \in DOMAIN s : t[i] = s[i]
    BY AppendProperties, LenProperties
  <1> HIDE DEF t
  <1>2. Range(t) = Range(s) \cup {e}
    BY <1>1 DEF Range
  <1>3. ASSUME IsInjective(s), e \notin Range(s) PROVE IsInjective(t)
    <2> SUFFICES ASSUME NEW i \in DOMAIN t, NEW j \in DOMAIN t, t[i] = t[j] PROVE i = j
      BY DEF IsInjective
    <2>1. \A k \in DOMAIN s : s[k] \in Range(s)
      BY DEF Range
    <2> QED
      BY <1>1, <1>3, <2>1 DEF IsInjective
  <1> QED
    BY <1>1, <1>2, <1>3 DEF t

LEMMA InitSort == Init => Given /\ SortInv
  <1> SUFFICES ASSUME Init PROVE Given /\ SortInv
    OBVIOUS
  <1>1. after \subseteq Refs /\ IsFiniteSet(after)
    <2>1. PICK n : after \in SmallSets(Refs, n)
      BY DEF Init
    <2>2. after = {} \/ (\E r \in Refs : after = {r}) \/ (\E r, s \in Refs : after = {r, s})
      BY <2>1 DEF SmallSets
    <2>3. \A r, s \in Refs : IsFiniteSet({r, s}) /\ IsFiniteSet({r})
      <3> SUFFICES ASSUME NEW r \in Refs, NEW s \in Refs PROVE IsFiniteSet({r, s}) /\ IsFiniteSet({r})
        OBVIOUS
      <3>1. IsFiniteSet({r}) /\ IsFiniteSet({r} \cup {s})
        BY FS_Singleton, FS_AddElement
      <3>2. {r} \cup {s} = {r, s}
        OBVIOUS
      <3> QED
        BY <3>1, <3>2
    <2>4. after \subseteq Refs
      BY <2>2
    <2> QED
      BY <2>2, <2>3, <2>4, FS_EmptySet
  <1>2. scope \in [Patches -> Scopes] /\ (mode = "ordered" => \A p \in Patches : scope[p] = "global")
    BY DEF Init, Scopes, Shared
  <1>3. Given
    BY <1>1, <1>2 DEF Init, Given
  <1>4. sorted = <<>> /\ pc = "index" /\ error = "none" /\ degree = [p \in Patches |-> 0]
    BY DEF Init
  <1>5. SortTypes
    BY <1>4, EmptySeq DEF SortTypes, IsInjective
  <1>6. Range(sorted) = {} /\ DOMAIN sorted = {}
    BY <1>4 DEF Range
  <1> QED
    BY <1>3, <1>4, <1>5, <1>6
    DEF SortInv, DegreeExact, Graphed, DepsFirst, CirclesWait, PassedOver, FileOrder, Ends, Compiled

LEMMA GivenKept ==
    ASSUME Given, UNCHANGED input
    PROVE  Given'
  BY DEF Given, input

\* Steps that leave the graph and the sorted patches alone.
LEMMA SortKept ==
    ASSUME SortInv, UNCHANGED <<file, stem, after, kahn>>,
           SortTypes', Graphed' <=> Graphed, Compiled' => Compiled,
           pc' = "cycle" \/ error' = "cycle" => pc = "cycle" \/ error = "cycle"
    PROVE  SortInv'
  <1>1. UNCHANGED <<degree, sorted, file>>
    BY DEF kahn
  <1>2. DegreeExact'
    BY <1>1, SameReferences DEF SortInv, DegreeExact
  <1>3. DepsFirst' /\ CirclesWait'
    BY <1>1, SameReferences DEF SortInv, DepsFirst, CirclesWait
  <1>4. PassedOver' /\ FileOrder'
    BY <1>1, SameReferences DEF SortInv, PassedOver, FileOrder, Unsorted
  <1>5. Ends'
    BY <1>1 DEF SortInv, Ends, Unsorted, Queue
  <1> QED
    BY <1>2, <1>3, <1>4, <1>5 DEF SortInv

LEMMA IndexSort ==
    ASSUME Given, SortInv, Index
    PROVE  SortInv'
  <1>1. pc = "index" /\ UNCHANGED <<file, stem, after, kahn>> /\ UNCHANGED <<degree, sorted>>
    BY DEF Index, input, kahn
  <1>2. \/ pc' = "graph" /\ error' = error
        \/ pc' = "failed" /\ error' = "ambiguous"
    BY DEF Index, Fail
  <1>3. SortTypes'
    BY <1>1, <1>2 DEF SortInv, SortTypes
  <1>4. /\ ~Graphed /\ ~Graphed' /\ ~Compiled'
        /\ pc' # "cycle" /\ error' # "cycle"
    BY <1>1, <1>2 DEF Graphed, Compiled, SortInv, SortTypes
  <1> QED
    BY <1>1, <1>3, <1>4, SortKept

\* With the graph nothing is sorted yet, and the degrees are those of the references.
LEMMA GraphSort ==
    ASSUME Given, SortInv, BuildGraph
    PROVE  SortInv'
  <1>1. pc = "graph" /\ error = "none" /\ UNCHANGED <<file, stem, after, sorted>> /\ sorted = <<>>
    BY DEF BuildGraph, input, SortInv, SortTypes, DegreeExact, Graphed
  <1>2. Range(sorted') = {} /\ DOMAIN sorted' = {}
    BY <1>1 DEF Range
  <1>3. CASE pc' = "sort"
    <2>1. error' = "none" /\ degree' = [q \in Patches |-> InDegree(q)]
      BY <1>1, <1>3 DEF BuildGraph, Fail
    <2>2. ASSUME NEW q \in Patches
          PROVE  degree'[q] = Cardinality(Waits(q, Range(sorted))) /\ degree'[q] \in Nat
      <3>1. {e \in after \X Patches : e[1].from = q /\ e[2] \in Targets(e[1])} = Waits(q, Range(sorted))
        BY <1>1, <1>2 DEF Waits
      <3>2. IsFiniteSet(after \X Patches)
        BY FS_Product, PatchesAreNumbers DEF Given
      <3>3. Cardinality(Waits(q, Range(sorted))) \in Nat
        BY <3>2, FS_Subset, FS_CardinalityType DEF Waits
      <3> QED
        BY <2>1, <3>1, <3>3 DEF InDegree
    <2>3. SortTypes'
      <3>1. degree' \in [Patches -> Nat]
        BY <2>1, <2>2
      <3> QED
        BY <1>1, <1>3, <2>1, <3>1 DEF SortInv, SortTypes
    <2>4. DegreeExact'
      BY <1>1, <2>2, SameReferences DEF DegreeExact
    <2> QED
      BY <1>2, <1>3, <2>1, <2>3, <2>4
      DEF SortInv, DepsFirst, CirclesWait, PassedOver, FileOrder, Ends, Compiled
  <1>4. CASE pc' # "sort"
    <2>1. pc' = "failed" /\ error' = "missing" /\ UNCHANGED degree
      BY <1>4 DEF BuildGraph, Fail
    <2>2. SortTypes'
      BY <1>1, <2>1 DEF SortInv, SortTypes
    <2> QED
      BY <1>1, <2>1, <2>2, SortKept DEF kahn, Graphed, Compiled
  <1> QED
    BY <1>3, <1>4

\* The patch that is sorted next waits for nothing unsorted, is on no circle, and passes
\* over patches of earlier files only if these still wait.
LEMMA PopSort ==
    ASSUME Given, SortInv, NEW p \in Patches, Pop(p)
    PROVE  SortInv'
  <1>1. /\ pc = "sort" /\ First(p) /\ sorted' = Append(sorted, p)
        /\ degree' = [q \in Patches |-> degree[q] - Decrement(q, p)]
        /\ UNCHANGED <<file, stem, after, pc, error>>
    BY DEF Pop, input
  <1>2. Graphed /\ sorted \in Seq(Patches) /\ degree \in [Patches -> Nat] /\ IsInjective(sorted)
        /\ error = "none" /\ file \in [Patches -> Nat]
    BY <1>1, FilesAreNumbers DEF SortInv, SortTypes, Graphed, Given
  <1>3. degree[p] = 0 /\ p \notin Range(sorted) /\ \A q \in Queue : file[p] <= file[q]
    BY <1>1 DEF First, Queue
  <1>4. /\ sorted' \in Seq(Patches) /\ Len(sorted') = Len(sorted) + 1 /\ Len(sorted) \in Nat
        /\ DOMAIN sorted = 1..Len(sorted) /\ DOMAIN sorted' = 1..Len(sorted) + 1
        /\ sorted'[Len(sorted) + 1] = p
        /\ \A i \in DOMAIN sorted : sorted'[i] = sorted[i]
        /\ Range(sorted') = Range(sorted) \cup {p}
        /\ IsInjective(sorted')
    BY <1>1, <1>2, <1>3, Appended
  <1>5. ASSUME NEW q \in Patches
        PROVE  /\ degree'[q] = Cardinality(Waits(q, Range(sorted'))) /\ degree'[q] \in Nat
               /\ ~DependsOn(q, p) => degree'[q] = degree[q]
    <2>1. degree[q] = Cardinality(Waits(q, Range(sorted)))
      BY <1>2 DEF SortInv, DegreeExact
    <2>2. degree'[q] = degree[q] - Decrement(q, p)
      BY <1>1
    <2>3. /\ Cardinality(Waits(q, Range(sorted))) \in Nat /\ Cardinality(Waits(q, Range(sorted) \cup {p})) \in Nat
          /\ Cardinality(Waits(q, Range(sorted) \cup {p})) = Cardinality(Waits(q, Range(sorted))) - Decrement(q, p)
          /\ ~DependsOn(q, p) => Decrement(q, p) = 0
      BY <1>3, FewerWaits
    <2>4. Waits(q, Range(sorted')) = Waits(q, Range(sorted) \cup {p})
      BY <1>4
    <2> QED
      BY <2>1, <2>2, <2>3, <2>4
  <1>6. SortTypes'
    <2>1. degree' \in [Patches -> Nat]
      BY <1>1, <1>5
    <2> QED
      BY <1>1, <1>4, <2>1 DEF SortInv, SortTypes
  <1>7. DegreeExact'
    BY <1>1, <1>2, <1>5, SameReferences DEF DegreeExact, Graphed
  <1>8. \A q \in Patches : DependsOn(p, q) => \E i \in DOMAIN sorted : sorted[i] = q
    BY <1>2, <1>3, NothingToWaitFor DEF Range
  <1>9. DepsFirst'
    <2> SUFFICES ASSUME NEW j \in DOMAIN sorted', NEW q \in Patches, DependsOn(sorted'[j], q)
                 PROVE  \E i \in DOMAIN sorted' : i < j /\ sorted'[i] = q
      BY <1>1, SameReferences DEF DepsFirst
    <2>1. CASE j \in DOMAIN sorted
      BY <1>4, <2>1 DEF SortInv, DepsFirst
    <2>2. CASE j = Len(sorted) + 1
      BY <1>4, <1>8, <2>2
    <2> QED
      BY <1>4, <2>1, <2>2
  <1>10. CirclesWait'
    <2> SUFFICES ASSUME NEW S \in SUBSET Patches, Circle(S) PROVE S \cap Range(sorted') = {}
      BY <1>1, SameReferences DEF CirclesWait
    <2>1. S \cap Range(sorted) = {}
      BY DEF SortInv, CirclesWait
    <2>2. p \notin S
      <3> SUFFICES ASSUME p \in S PROVE FALSE
        OBVIOUS
      <3>1. PICK q \in S : DependsOn(p, q)
        BY DEF Circle
      <3>2. q \in Range(sorted)
        BY <1>8, <3>1 DEF Range
      <3> QED
        BY <2>1, <3>2
    <2> QED
      BY <1>4, <2>1, <2>2
  <1>11. PassedOver'
    <2> SUFFICES ASSUME NEW q \in Patches, q \notin Range(sorted'), NEW i \in DOMAIN sorted', file[sorted'[i]] > file[q]
                 PROVE  degree'[q] > 0 \/ \E k \in i..Len(sorted') : DependsOn(q, sorted'[k])
      BY <1>1, SameReferences DEF PassedOver, Unsorted
    <2>1. q \in Unsorted
      BY <1>4 DEF Unsorted
    <2>2. CASE DependsOn(q, p)
      BY <1>4, <2>2
    <2>3. CASE ~DependsOn(q, p)
      <3>1. degree'[q] = degree[q]
        BY <1>5, <2>3
      <3>2. CASE i \in DOMAIN sorted
        <4>1. degree[q] > 0 \/ \E k \in i..Len(sorted) : DependsOn(q, sorted[k])
          BY <1>2, <1>4, <2>1, <3>2 DEF SortInv, PassedOver
        <4> QED
          BY <1>4, <3>1, <3>2, <4>1
      <3>3. CASE i = Len(sorted) + 1
        <4>1. file[p] \in Nat /\ file[q] \in Nat /\ file[p] > file[q]
          BY <1>2, <1>4, <3>3
        <4>2. degree[q] # 0
          BY <1>3, <2>1, <4>1 DEF Queue, Unsorted
        <4> QED
          BY <1>2, <3>1, <4>2
      <3> QED
        BY <1>4, <3>2, <3>3
    <2> QED
      BY <2>2, <2>3
  <1>12. FileOrder'
    <2> SUFFICES ASSUME NEW i \in DOMAIN sorted', NEW j \in DOMAIN sorted', i < j,
                        file[sorted'[i]] > file[sorted'[j]]
                 PROVE  \E k \in i..(j - 1) : DependsOn(sorted'[j], sorted'[k])
      BY <1>1, SameReferences DEF FileOrder
    <2>1. CASE j \in DOMAIN sorted
      <3>1. i \in DOMAIN sorted /\ sorted'[i] = sorted[i] /\ sorted'[j] = sorted[j]
        BY <1>4, <2>1
      <3>2. PICK k \in i..(j - 1) : DependsOn(sorted[j], sorted[k])
        BY <2>1, <3>1 DEF SortInv, FileOrder
      <3> QED
        BY <1>4, <2>1, <3>1, <3>2
    <2>2. CASE j = Len(sorted) + 1
      <3>1. i \in DOMAIN sorted /\ sorted'[i] = sorted[i] /\ sorted'[j] = p
        BY <1>4, <2>2
      <3>2. p \in Unsorted
        BY <1>3 DEF Unsorted
      <3>3. degree[p] > 0 \/ \E k \in i..Len(sorted) : DependsOn(p, sorted[k])
        BY <1>2, <3>1, <3>2 DEF SortInv, PassedOver
      <3>4. PICK k \in i..Len(sorted) : DependsOn(p, sorted[k])
        BY <1>3, <3>3
      <3> QED
        BY <1>4, <2>2, <3>1, <3>4
    <2> QED
      BY <1>4, <2>1, <2>2
  <1>13. Ends'
    BY <1>1, <1>2 DEF Ends, Compiled
  <1> QED
    BY <1>6, <1>7, <1>9, <1>10, <1>11, <1>12, <1>13 DEF SortInv

LEMMA SortedSort ==
    ASSUME Given, SortInv, Sorted
    PROVE  SortInv'
  <1>1. /\ pc = "sort" /\ Queue = {} /\ UNCHANGED <<file, stem, after, degree, sorted, error>>
        /\ pc' = IF Unsorted # {} THEN "cycle" ELSE IF mode = "ordered" THEN "run" ELSE "check"
    BY DEF Sorted, input, kahn
  <1>2. error = "none"
    BY <1>1 DEF SortInv, SortTypes
  <1>3. SortTypes'
    BY <1>1, <1>2 DEF SortInv, SortTypes
  <1>4. DegreeExact' /\ DepsFirst' /\ CirclesWait' /\ PassedOver' /\ FileOrder'
    BY <1>1, <1>2, SameReferences
    DEF SortInv, DegreeExact, DepsFirst, CirclesWait, PassedOver, FileOrder, Graphed, Unsorted
  <1>5. Ends'
    BY <1>1, <1>2 DEF Ends, Compiled, Unsorted, Queue
  <1> QED
    BY <1>3, <1>4, <1>5 DEF SortInv

Searching == Backtrack \/ \E p \in Patches : StartAt(p) \/ LookAt(p)
Executing == \/ Check \/ Join \/ RunStep \/ RunFails \/ Finish
             \/ \E g \in Groups : ProfileStep(g) \/ ProfileFails(g) \/ ProfileEnds(g)
LEMMA LaterSort ==
    ASSUME SortInv, Searching \/ Executing \/ UNCHANGED vars
    PROVE  SortInv'
  <1>1. UNCHANGED <<file, stem, after, kahn>> /\ UNCHANGED <<degree, sorted>>
    BY DEF Searching, Executing, Backtrack, StartAt, LookAt, Check, Join, RunStep, RunFails, Finish,
           ProfileStep, ProfileFails, ProfileEnds, vars, input, kahn
  <1>2. CASE Searching
    <2>1. /\ pc = "cycle"
          /\ \/ pc' = pc /\ error' = error
             \/ pc' = "failed" /\ error' = "cycle"
      BY <1>2 DEF Searching, Backtrack, StartAt, LookAt, Fail
    <2>2. SortTypes'
      BY <1>1, <2>1 DEF SortInv, SortTypes
    <2> QED
      BY <1>1, <2>1, <2>2, SortKept DEF Graphed, Compiled, SortInv, SortTypes
  <1>3. CASE Executing
    <2>1. /\ pc \in {"check", "profiles", "run"}
          /\ \/ pc' \in {"check", "profiles", "run", "done"} /\ error' = error
             \/ pc' = "failed" /\ error' \in {"cross", "exec"}
      BY <1>3 DEF Executing, Check, Join, RunStep, RunFails, Finish, ProfileStep, ProfileFails, ProfileEnds, Fail
    <2>2. SortTypes'
      BY <1>1, <2>1 DEF SortInv, SortTypes
    <2> QED
      BY <1>1, <2>1, <2>2, SortKept DEF Graphed, Compiled, SortInv, SortTypes
  <1>4. CASE UNCHANGED vars
    <2>1. UNCHANGED <<pc, error>>
      BY <1>4 DEF vars
    <2>2. SortTypes'
      BY <1>1, <2>1 DEF SortInv, SortTypes
    <2> QED
      BY <1>1, <2>1, <2>2, SortKept DEF Graphed, Compiled
  <1> QED
    BY <1>2, <1>3, <1>4
------------------------------------------------------------------------------
(* The search for a cycle. *)

Linked(c, n) == \A i \in 1..n - 1 : DependsOn(c[i], c[i + 1])
Ring(c) ==
  /\ c \in Seq(Unsorted) /\ Len(c) > 1 /\ c[1] = c[Len(c)]
  /\ \A i, j \in 1..Len(c) - 1 : c[i] = c[j] => i = j
  /\ Linked(c, Len(c))
\* The stack is a path of patches that wait for one another.
StackIsPath ==
  /\ stack \in Seq([node : Unsorted, deps : SUBSET Unsorted])
  /\ \A i \in DOMAIN stack : stack[i].deps \subseteq CycleDeps(stack[i].node)
  /\ \A i, j \in DOMAIN stack : stack[i].node = stack[j].node => i = j
  /\ \A i \in 1..Len(stack) - 1 : DependsOn(stack[i].node, stack[i + 1].node)
  /\ tried \subseteq Unsorted
  /\ stack # <<>> => stack[1].node \in tried
\* A ring leaves the stack at a branch that has not been looked at.
Branches(c) == \E j \in DOMAIN stack :
  /\ j < Len(c) /\ c[j + 1] \in stack[j].deps
  /\ \A i \in 1..j : stack[i].node = c[i]
RingsAhead == pc = "cycle" => \A c \in Seq(Unsorted) :
  Ring(c) /\ c[1] \in tried => stack # <<>> /\ stack[1].node = c[1] /\ Branches(c)
CycleFound ==
  IF error = "cycle" THEN Ring(cycle) ELSE cycle = <<>>
Unsearched == pc \in {"index", "graph", "sort"} => stack = <<>> /\ tried = {}
SearchInv == StackIsPath /\ RingsAhead /\ CycleFound /\ Unsearched


\* A set of numbers with a bound has a greatest element.
LEMMA HasLeast ==
    ASSUME NEW T \in SUBSET Nat, T # {}
    PROVE  \E t \in T : \A n \in T : t <= n
  <1>1. PICK t \in T : \A n \in T : ~(<<n, t>> \in OpToRel(<, Nat))
    BY NatLessThanWellFounded, WFMin, Zenon
  <1>2. T \subseteq Nat /\ t \in Nat
    OBVIOUS
  <1>3. ASSUME NEW n \in T PROVE t <= n
    <2>1. n \in Nat /\ <<n, t>> \in Nat \X Nat
      BY <1>2
    <2>2. ~(<<n, t>>[1] < <<n, t>>[2])
      BY <1>1, <2>1, Zenon DEF OpToRel
    <2>3. ~(n < t)
      BY <2>2
    <2> QED
      BY <1>2, <2>1, <2>3
  <1> QED
    BY <1>3
LEMMA HasGreatest ==
    ASSUME NEW S \in SUBSET Nat, S # {}, NEW b \in Nat, \A n \in S : n <= b
    PROVE  \E m \in S : \A n \in S : n <= m
  <1> DEFINE T == {b - n : n \in S}
  <1>1. \A n \in S : n \in Nat /\ b - n \in Nat
    OBVIOUS
  <1>2. T \subseteq Nat /\ T # {}
    BY <1>1
  <1> HIDE DEF T
  <1>3. PICK t \in T : \A n \in T : t <= n
    BY <1>2, HasLeast
  <1> USE DEF T
  <1>4. PICK m \in S : t = b - m
    OBVIOUS
  <1>5. \A n \in S : b - n \in T
    OBVIOUS
  <1>6. \A n \in S : t <= b - n
    BY <1>3, <1>5
  <1> QED
    BY <1>4, <1>6

\* Among finitely many patches each of which waits for another there is a cycle: a longest
\* path has nowhere to go but back.
LEMMA RingExists ==
    ASSUME Given, Unsorted # {}, \A p \in Unsorted : \E q \in Unsorted : DependsOn(p, q)
    PROVE  \E c \in Seq(Unsorted) : Ring(c)
  <1> DEFINE IsPath(s, n) == /\ s \in Seq(Unsorted) /\ Len(s) = n /\ IsInjective(s) /\ Linked(s, n)
             N == {n \in Nat : \E s \in Seq(Unsorted) : IsPath(s, n)}
  <1>1. IsFiniteSet(Unsorted)
    BY PatchesAreNumbers, FS_Subset DEF Unsorted
  <1>2. Cardinality(Unsorted) \in Nat
    BY <1>1, FS_CardinalityType
  <1>3. ASSUME NEW n \in N PROVE n <= Cardinality(Unsorted)
    <2>1. PICK s \in Seq(Unsorted) : IsPath(s, n)
      OBVIOUS
    <2>2. s \in [1..n -> Unsorted] /\ \A i, j \in 1..n : s[i] = s[j] => i = j
      BY <2>1, LenProperties DEF IsInjective
    <2>3. s \in Injection(1..n, Unsorted)
      BY <2>2, Fun_IsInj
    <2>4. Cardinality(1..n) <= Cardinality(Unsorted) /\ Cardinality(1..n) = n
      BY <1>1, <2>3, FS_Injection, FS_Interval
    <2> QED
      BY <2>4
  <1>4. 1 \in N
    <2>1. PICK p \in Unsorted : TRUE
      OBVIOUS
    <2>2. <<p>> \in Seq(Unsorted) /\ Len(<<p>>) = 1 /\ DOMAIN <<p>> = {1}
      OBVIOUS
    <2>3. IsPath(<<p>>, 1)
      BY <2>2 DEF IsInjective, Linked
    <2> QED
      BY <2>2, <2>3
  <1>5. PICK n \in N : \A m \in N : m <= n
    <2>1. N \subseteq Nat /\ N # {}
      BY <1>4
    <2> HIDE DEF N
    <2> QED
      BY <1>2, <1>3, <2>1, HasGreatest
  <1>6. PICK s \in Seq(Unsorted) : IsPath(s, n)
    OBVIOUS
  <1>7. n \in Nat /\ n >= 1 /\ Len(s) = n /\ DOMAIN s = 1..n /\ \A i \in 1..n : s[i] \in Unsorted
    BY <1>4, <1>5, <1>6, LenProperties
  <1>8. PICK q \in Unsorted : DependsOn(s[n], q)
    BY <1>7
  <1>9. q \in Range(s)
    <2> SUFFICES ASSUME q \notin Range(s) PROVE FALSE
      OBVIOUS
    <2> DEFINE t == Append(s, q)
    <2>1. /\ t \in Seq(Unsorted) /\ Len(t) = n + 1 /\ t[n + 1] = q
          /\ \A i \in 1..n : t[i] = s[i]
          /\ IsInjective(t)
      BY <1>6, <1>7, Appended
    <2> HIDE DEF t
    <2>2. Linked(t, n + 1)
      BY <1>6, <1>7, <1>8, <2>1 DEF Linked
    <2>3. n + 1 \in N
      BY <1>7, <2>1, <2>2
    <2> QED
      BY <1>5, <1>7, <2>3
  <1>10. PICK i \in 1..n : s[i] = q
    BY <1>7, <1>9 DEF Range
  <1> DEFINE m == n - i + 1
             r == SubSeq(s, i, n)
             c == Append(r, q)
  <1>11. m \in Nat /\ m >= 1 /\ r \in Seq(Unsorted) /\ Len(r) = m /\ \A k \in 1..m : r[k] = s[i + k - 1]
    BY <1>7, <1>10, SubSeqProperties
  <1> HIDE DEF r
  <1>12. /\ c \in Seq(Unsorted) /\ Len(c) = m + 1 /\ c[m + 1] = q
         /\ \A k \in 1..m : c[k] = s[i + k - 1]
    <2>1. c \in Seq(Unsorted) /\ Len(c) = Len(r) + 1 /\ c[Len(r) + 1] = q /\ DOMAIN r = 1..Len(r)
          /\ \A k \in DOMAIN r : c[k] = r[k]
      <3>1. r \in Seq(Unsorted) /\ q \in Unsorted
        BY <1>11
      <3> HIDE DEF m
      <3> QED
        BY <3>1, Appended
    <2> HIDE DEF c, m
    <2> QED
      BY <1>11, <2>1
  <1> HIDE DEF c
  <1>13. c[1] = q
    BY <1>10, <1>11, <1>12
  <1>14. \A j, k \in 1..m : c[j] = c[k] => j = k
    <2> SUFFICES ASSUME NEW j \in 1..m, NEW k \in 1..m, c[j] = c[k] PROVE j = k
      OBVIOUS
    <2>1. i + j - 1 \in 1..n /\ i + k - 1 \in 1..n /\ s[i + j - 1] = s[i + k - 1]
      BY <1>7, <1>10, <1>11, <1>12
    <2>2. i + j - 1 = i + k - 1
      BY <1>6, <1>7, <2>1 DEF IsInjective
    <2> QED
      BY <1>10, <1>11, <2>2
  <1>15. Linked(c, m + 1)
    <2> SUFFICES ASSUME NEW k \in 1..m PROVE DependsOn(c[k], c[k + 1])
      BY <1>11 DEF Linked
    <2>1. CASE k = m
      <3>1. c[k] = s[n] /\ c[k + 1] = q
        BY <1>7, <1>10, <1>12, <2>1
      <3> QED
        BY <1>8, <3>1
    <2>2. CASE k # m
      <3>1. k + 1 \in 1..m /\ i + k - 1 \in 1..n - 1 /\ i + (k + 1) - 1 = (i + k - 1) + 1
        BY <1>7, <1>10, <1>11, <2>2
      <3>2. c[k] = s[i + k - 1] /\ c[k + 1] = s[i + (k + 1) - 1]
        BY <1>12, <3>1
      <3>3. DependsOn(s[i + k - 1], s[(i + k - 1) + 1])
        BY <1>6, <3>1 DEF Linked
      <3> QED
        BY <3>1, <3>2, <3>3
    <2> QED
      BY <2>1, <2>2
  <1>16. Len(c) - 1 = m /\ Len(c) > 1 /\ c[Len(c)] = q
    BY <1>11, <1>12
  <1> HIDE DEF m
  <1> QED
    BY <1>12, <1>13, <1>14, <1>15, <1>16 DEF Ring

LEMMA SameRings ==
    ASSUME UNCHANGED <<file, stem, after, sorted>>
    PROVE  /\ Unsorted' = Unsorted
           /\ \A c : Ring(c)' <=> Ring(c)
           /\ \A p : CycleDeps(p)' = CycleDeps(p)
  BY SameReferences DEF Unsorted, Ring, Linked, CycleDeps

LEMMA InitSearch == Init => SearchInv
  <1> SUFFICES ASSUME Init PROVE SearchInv
    OBVIOUS
  <1>1. stack = <<>> /\ tried = {} /\ cycle = <<>> /\ pc = "index" /\ error = "none"
    BY DEF Init
  <1>2. stack \in Seq([node : Unsorted, deps : SUBSET Unsorted]) /\ DOMAIN stack = {} /\ Len(stack) = 0
    BY <1>1, EmptySeq
  <1> QED
    BY <1>1, <1>2 DEF SearchInv, StackIsPath, RingsAhead, CycleFound, Unsearched

\* Before the search nothing is tried, after it nothing moves.
LEMMA BeforeSearch ==
    ASSUME SortInv, SearchInv, Index \/ BuildGraph \/ Sorted \/ \E p \in Patches : Pop(p)
    PROVE  SearchInv'
  <1>1. /\ pc \in {"index", "graph", "sort"} /\ error = "none"
        /\ UNCHANGED search /\ error' # "cycle"
        /\ pc' \in {"graph", "sort", "cycle", "run", "check", "failed"}
    BY DEF Index, BuildGraph, Sorted, Pop, Fail, SortInv, SortTypes
  <1>2. stack' = <<>> /\ tried' = {} /\ cycle' = <<>>
    BY <1>1 DEF search, SearchInv, Unsearched, CycleFound
  <1>3. stack' \in Seq([node : Unsorted', deps : SUBSET Unsorted']) /\ DOMAIN stack' = {} /\ Len(stack') = 0
    BY <1>2, EmptySeq
  <1>4. StackIsPath'
    BY <1>2, <1>3 DEF StackIsPath
  <1> QED
    BY <1>1, <1>2, <1>4 DEF SearchInv, RingsAhead, CycleFound, Unsearched
LEMMA AfterSearch ==
    ASSUME SortInv, SearchInv, Executing \/ UNCHANGED vars
    PROVE  SearchInv'
  <1>1. UNCHANGED <<file, stem, after, sorted>> /\ UNCHANGED <<stack, tried, cycle>>
    BY DEF Executing, Check, Join, RunStep, RunFails, Finish, ProfileStep, ProfileFails, ProfileEnds,
           vars, input, kahn, search
  <1>2. \/ UNCHANGED <<pc, error>>
        \/ pc' \notin {"index", "graph", "sort", "cycle"} /\ error # "cycle" /\ error' # "cycle"
    <2>1. CASE Executing
      <3>1. /\ pc \in {"check", "profiles", "run"}
            /\ \/ pc' \in {"check", "profiles", "run", "done"} /\ error' = error
               \/ pc' = "failed" /\ error' \in {"cross", "exec"}
        BY <2>1 DEF Executing, Check, Join, RunStep, RunFails, Finish, ProfileStep, ProfileFails, ProfileEnds, Fail
      <3> QED
        BY <3>1 DEF SortInv, SortTypes
    <2> QED
      BY <2>1 DEF vars
  <1>3. StackIsPath'
    BY <1>1, SameRings, SameReferences DEF SearchInv, StackIsPath
  <1>4. RingsAhead'
    BY <1>1, <1>2, SameRings DEF SearchInv, RingsAhead, Branches
  <1>5. CycleFound' /\ Unsearched'
    BY <1>1, <1>2, SameRings DEF SearchInv, CycleFound, Unsearched
  <1> QED
    BY <1>3, <1>4, <1>5 DEF SearchInv

\* A candidate is pushed with all it waits for.
LEMMA StartSearch ==
    ASSUME SearchInv, NEW p \in Patches, StartAt(p)
    PROVE  SearchInv'
  <1> DEFINE x == [node |-> p, deps |-> CycleDeps(p)]
  <1>1. /\ pc = "cycle" /\ stack = <<>> /\ p \in Unsorted \ tried
        /\ stack' = <<x>> /\ tried' = tried \cup {p}
        /\ UNCHANGED <<file, stem, after, sorted>> /\ UNCHANGED <<pc, error, cycle>>
    BY DEF StartAt, input, kahn
  <1>2. x \in [node : Unsorted, deps : SUBSET Unsorted] /\ x.node = p /\ x.deps = CycleDeps(p)
    BY <1>1 DEF CycleDeps
  <1> HIDE DEF x
  <1>3. /\ stack' \in Seq([node : Unsorted, deps : SUBSET Unsorted]) /\ Len(stack') = 1
        /\ DOMAIN stack' = {1} /\ stack'[1] = x /\ stack' # <<>>
    BY <1>1, <1>2
  <1>4. StackIsPath'
    BY <1>1, <1>2, <1>3, SameRings, SameReferences DEF SearchInv, StackIsPath
  <1>5. RingsAhead'
    <2> SUFFICES ASSUME NEW c \in Seq(Unsorted), Ring(c), c[1] \in tried'
                 PROVE  stack'[1].node = c[1] /\ Branches(c)'
      BY <1>1, <1>3, SameRings DEF RingsAhead
    <2>1. c[1] \notin tried
      BY <1>1 DEF SearchInv, RingsAhead
    <2>2. c[1] = p
      BY <1>1, <2>1
    <2>3. Len(c) \in Nat /\ Len(c) > 1 /\ DependsOn(c[1], c[2]) /\ c[2] \in Unsorted
      BY LenProperties DEF Ring, Linked
    <2>4. c[2] \in CycleDeps(p)
      BY <2>2, <2>3 DEF CycleDeps
    <2> QED
      BY <1>2, <1>3, <2>2, <2>3, <2>4 DEF Branches
  <1> QED
    BY <1>1, <1>4, <1>5, SameRings DEF SearchInv, CycleFound, Unsearched

\* Looking at a neighbour takes it from the top of the stack, and nothing else changes.
LEMMA SeenLess ==
    ASSUME SearchInv, stack # <<>>, NEW q
    PROVE  LET L == Len(stack)
               s == Seen(Last(stack), q) IN
           /\ L \in Nat /\ L >= 1 /\ DOMAIN stack = 1..L /\ Last(stack) = stack[L]
           /\ s \in Seq([node : Unsorted, deps : SUBSET Unsorted]) /\ Len(s) = L /\ DOMAIN s = 1..L
           /\ \A i \in 1..L : s[i].node = stack[i].node
           /\ \A i \in 1..L - 1 : s[i].deps = stack[i].deps
           /\ s[L].deps = stack[L].deps \ {q}
  <1> DEFINE R == [node : Unsorted, deps : SUBSET Unsorted]
             L == Len(stack)
             top == stack[L]
             x == [node |-> top.node, deps |-> top.deps \ {q}]
             s == Seen(top, q)
  <1>1. stack \in Seq(R) /\ L \in Nat /\ L >= 1 /\ DOMAIN stack = 1..L /\ Last(stack) = stack[L]
    BY EmptySeq, LenProperties DEF SearchInv, StackIsPath, Last
  <1>2. top \in R
    <2> HIDE DEF R
    <2> QED
      BY <1>1
  <1>3. x \in R /\ x.node = top.node /\ x.deps = top.deps \ {q}
    BY <1>2
  <1> HIDE DEF R
  <1>4. s \in Seq(R) /\ Len(s) = L /\ \A i \in 1..L : s[i] = IF i = L THEN x ELSE stack[i]
    <2> HIDE DEF x
    <2>1. s = [stack EXCEPT ![L] = x]
      BY DEF Seen, x
    <2> QED
      BY <1>1, <1>3, <2>1, ExceptSeq
  <1> HIDE DEF x, s
  <1>5. DOMAIN s = 1..L
    BY <1>4, LenProperties
  <1> HIDE DEF L
  <1>6. /\ \A i \in 1..L : s[i].node = stack[i].node
        /\ \A i \in 1..L - 1 : s[i].deps = stack[i].deps
        /\ s[L].deps = stack[L].deps \ {q}
    <2>1. s[L] = x /\ \A i \in 1..L - 1 : s[i] = stack[i]
      BY <1>1, <1>4
    <2>2. \A i \in 1..L : i = L \/ i \in 1..L - 1
      BY <1>1
    <2> QED
      BY <1>3, <2>1, <2>2
  <1>7. Seen(Last(stack), q) = s
    BY <1>1 DEF s, Seen
  <1> QED
    BY <1>1, <1>4, <1>5, <1>6, <1>7 DEF R, L

\* A branch that leads back to the candidate closes a ring; any other ring through the
\* candidate leaves the stack at another branch, or at the node that is pushed.
LEMMA LookSearch ==
    ASSUME Given, SortInv, SearchInv, NEW q \in Patches, LookAt(q)
    PROVE  SearchInv'
  <1> DEFINE L == Len(stack)
             s == Seen(Last(stack), q)
             R == [node : Unsorted, deps : SUBSET Unsorted]
  <1>1. /\ pc = "cycle" /\ stack # <<>> /\ q \in Last(stack).deps
        /\ UNCHANGED <<file, stem, after, sorted>> /\ UNCHANGED tried
    BY DEF LookAt, input, kahn
  <1>2. error = "none" /\ cycle = <<>>
    BY <1>1 DEF SortInv, SortTypes, SearchInv, CycleFound
  <1>3. /\ L \in Nat /\ L >= 1 /\ DOMAIN stack = 1..L /\ Last(stack) = stack[L]
        /\ s \in Seq(R) /\ Len(s) = L /\ DOMAIN s = 1..L
        /\ \A i \in 1..L : s[i].node = stack[i].node
        /\ \A i \in 1..L - 1 : s[i].deps = stack[i].deps
        /\ s[L].deps = stack[L].deps \ {q}
    BY <1>1, SeenLess
  <1>4. /\ \A i \in 1..L : stack[i].node \in Unsorted /\ stack[i].deps \subseteq CycleDeps(stack[i].node)
        /\ \A i, j \in 1..L : stack[i].node = stack[j].node => i = j
        /\ \A i \in 1..L - 1 : DependsOn(stack[i].node, stack[i + 1].node)
        /\ tried \subseteq Unsorted /\ stack[1].node \in tried
    <2>1. stack \in Seq(R)
      BY DEF SearchInv, StackIsPath
    <2>2. \A i \in 1..L : stack[i] \in R
      <3> HIDE DEF R
      <3> QED
        BY <2>1
    <2> HIDE DEF L
    <2> QED
      BY <1>1, <1>3, <2>2 DEF SearchInv, StackIsPath, L
  <1>5. q \in Unsorted /\ DependsOn(stack[L].node, q) /\ q \in CycleDeps(stack[L].node)
    <2>1. q \in CycleDeps(stack[L].node)
      BY <1>1, <1>3, <1>4
    <2> QED
      BY <2>1 DEF CycleDeps
  <1>6. Head(stack) = stack[1]
    BY <1>1 DEF SearchInv, StackIsPath
  <1> HIDE DEF s, L
  <1>7. CASE q = Head(stack).node
    <2> DEFINE n == [i \in DOMAIN stack |-> stack[i].node]
    <2>1. /\ pc' = "failed" /\ error' = "cycle" /\ stack' = stack
          /\ cycle' = Append(n, q)
      BY <1>7 DEF LookAt, Fail
    <2>2. n \in Seq(Unsorted) /\ Len(n) = L /\ \A i \in 1..L : n[i] = stack[i].node
      <3>1. n \in [1..L -> Unsorted] /\ \A i \in 1..L : n[i] = stack[i].node
        BY <1>3, <1>4
      <3> HIDE DEF n
      <3> QED
        BY <1>3, <3>1, SeqDef, LenProperties
    <2> HIDE DEF n
    <2>3. /\ cycle' \in Seq(Unsorted) /\ Len(cycle') = L + 1 /\ cycle'[L + 1] = q
          /\ \A i \in 1..L : cycle'[i] = stack[i].node
      <3>1. DOMAIN n = 1..L
        BY <2>2, LenProperties
      <3> QED
        BY <1>5, <2>1, <2>2, <3>1, Appended
    <2>4. Linked(cycle', L + 1)
      <3> SUFFICES ASSUME NEW i \in 1..L PROVE DependsOn(cycle'[i], cycle'[i + 1])
        BY <1>3 DEF Linked
      <3>1. CASE i = L
        BY <1>3, <1>5, <2>3, <3>1
      <3>2. CASE i # L
        <4>1. i \in 1..L - 1 /\ i + 1 \in 1..L
          BY <1>3, <3>2
        <4> QED
          BY <1>4, <2>3, <4>1
      <3> QED
        BY <3>1, <3>2
    <2>5. Ring(cycle')
      BY <1>3, <1>4, <1>6, <1>7, <2>3, <2>4 DEF Ring
    <2>6. Ring(cycle)'
      BY <1>1, <2>5, SameReferences DEF Ring, Linked, Unsorted
    <2>7. StackIsPath'
      BY <1>1, <2>1, SameRings, SameReferences DEF SearchInv, StackIsPath
    <2> QED
      BY <2>1, <2>6, <2>7 DEF SearchInv, RingsAhead, CycleFound, Unsearched
  <1>8. CASE q # Head(stack).node
    <2> DEFINE x == [node |-> q, deps |-> CycleDeps(q)]
    <2>1. /\ UNCHANGED <<pc, error, cycle>>
          /\ stack' = IF q \in OnPath THEN s ELSE Append(s, x)
      BY <1>8 DEF LookAt, s
    <2>2. x \in R /\ x.node = q /\ x.deps = CycleDeps(q)
      BY <1>5 DEF CycleDeps
    <2> HIDE DEF x, R
    <2>3. q \in OnPath <=> \E i \in 1..L : stack[i].node = q
      BY <1>3 DEF OnPath
    <2>4. /\ stack' \in Seq(R) /\ stack' # <<>>
          /\ Len(stack') = IF q \in OnPath THEN L ELSE L + 1
          /\ DOMAIN stack' = 1..Len(stack')
          /\ \A i \in 1..L : stack'[i] = s[i]
          /\ q \notin OnPath => stack'[L + 1] = x
      <3>1. CASE q \in OnPath
        <4>1. stack' = s
          BY <2>1, <3>1
        <4>2. s # <<>>
          BY <1>3
        <4> QED
          BY <1>3, <3>1, <4>1, <4>2
      <3>2. CASE q \notin OnPath
        <4>1. stack' = Append(s, x)
          BY <2>1, <3>2
        <4>2. /\ stack' \in Seq(R) /\ Len(stack') = L + 1 /\ DOMAIN stack' = 1..L + 1
              /\ stack'[L + 1] = x /\ \A i \in 1..L : stack'[i] = s[i]
          BY <1>3, <2>2, <4>1, Appended
        <4> QED
          BY <1>3, <3>2, <4>2
      <3> QED
        BY <3>1, <3>2
    <2>5. /\ \A i \in 1..L : stack'[i].node = stack[i].node
          /\ \A i \in 1..L - 1 : stack'[i].deps = stack[i].deps
          /\ stack'[L].deps = stack[L].deps \ {q}
      BY <1>3, <2>4
    <2>6. StackIsPath'
      <3>1. \A i \in 1..Len(stack') : i \in 1..L \/ (q \notin OnPath /\ i = L + 1)
        BY <1>3, <2>4
      <3>2. ASSUME NEW i \in 1..Len(stack')
            PROVE  stack'[i].deps \subseteq CycleDeps(stack'[i].node)
        <4>1. CASE i \in 1..L - 1
          BY <1>3, <1>4, <2>5, <4>1
        <4>2. CASE i = L
          BY <1>3, <1>4, <2>5, <4>2
        <4>3. CASE i = L + 1 /\ q \notin OnPath
          BY <2>2, <2>4, <4>3
        <4> QED
          BY <1>3, <3>1, <4>1, <4>2, <4>3
      <3>3. ASSUME NEW i \in 1..Len(stack'), NEW j \in 1..Len(stack'), stack'[i].node = stack'[j].node
            PROVE  i = j
        <4>1. CASE i \in 1..L /\ j \in 1..L
          BY <1>4, <2>5, <3>3, <4>1
        <4>2. CASE i = L + 1 /\ j \in 1..L /\ q \notin OnPath
          BY <2>2, <2>3, <2>4, <2>5, <3>3, <4>2
        <4>3. CASE j = L + 1 /\ i \in 1..L /\ q \notin OnPath
          BY <2>2, <2>3, <2>4, <2>5, <3>3, <4>3
        <4> QED
          BY <3>1, <4>1, <4>2, <4>3
      <3>4. ASSUME NEW i \in 1..Len(stack') - 1
            PROVE  DependsOn(stack'[i].node, stack'[i + 1].node)
        <4>1. CASE i \in 1..L - 1
          <5>1. i \in 1..L /\ i + 1 \in 1..L
            BY <1>3, <4>1
          <5> QED
            BY <1>4, <2>5, <4>1, <5>1
        <4>2. CASE i = L /\ q \notin OnPath
          BY <1>3, <1>5, <2>2, <2>4, <2>5, <4>2
        <4> QED
          BY <1>3, <2>4, <4>1, <4>2
      <3>5. stack'[1].node \in tried
        BY <1>3, <1>4, <2>5
      <3> QED
        BY <1>1, <1>4, <2>4, <3>2, <3>3, <3>4, <3>5, SameRings, SameReferences DEF StackIsPath, R
    <2>7. RingsAhead'
      <3> SUFFICES ASSUME NEW c \in Seq(Unsorted), Ring(c), c[1] \in tried
                   PROVE  stack'[1].node = c[1] /\ Branches(c)'
        BY <1>1, <2>4, SameRings DEF RingsAhead
      <3>1. stack[1].node = c[1] /\ Branches(c)
        BY <1>1 DEF SearchInv, RingsAhead
      <3>2. PICK j \in 1..L : /\ j < Len(c) /\ c[j + 1] \in stack[j].deps
                              /\ \A i \in 1..j : stack[i].node = c[i]
        BY <1>3, <3>1 DEF Branches
      <3>3. Len(c) \in Nat /\ c[1] = c[Len(c)] /\ \A i, k \in 1..Len(c) - 1 : c[i] = c[k] => i = k
        BY LenProperties DEF Ring
      <3>4. CASE j # L \/ c[j + 1] # q
        <4>1. c[j + 1] \in stack'[j].deps
          BY <1>3, <2>5, <3>2, <3>4
        <4>2. \A i \in 1..j : stack'[i].node = c[i]
          BY <1>3, <2>5, <3>2
        <4>3. j \in DOMAIN stack'
          BY <1>3, <2>4
        <4> QED
          BY <1>3, <2>5, <3>1, <3>2, <4>1, <4>2, <4>3 DEF Branches
      <3>5. CASE j = L /\ c[j + 1] = q
        <4>1. L + 1 < Len(c)
          BY <1>3, <1>6, <1>8, <3>1, <3>2, <3>3, <3>5
        <4>2. q \notin OnPath
          <5> SUFFICES ASSUME NEW i \in 1..L, stack[i].node = q PROVE FALSE
            BY <2>3
          <5>1. c[i] = c[L + 1] /\ i \in 1..Len(c) - 1 /\ L + 1 \in 1..Len(c) - 1
            BY <1>3, <3>2, <3>3, <3>5, <4>1
          <5> QED
            BY <1>3, <3>3, <5>1
        <4>3. DependsOn(c[L + 1], c[L + 2]) /\ c[L + 2] \in Unsorted
          <5>1. L + 1 \in 1..Len(c) - 1 /\ L + 2 \in 1..Len(c) /\ (L + 1) + 1 = L + 2
            BY <1>3, <3>3, <4>1
          <5>2. c[L + 2] \in Unsorted
            BY <5>1
          <5> QED
            BY <5>1, <5>2 DEF Ring, Linked
        <4>4. c[L + 2] \in CycleDeps(q)
          BY <3>5, <4>3 DEF CycleDeps
        <4>5. c[(L + 1) + 1] \in stack'[L + 1].deps
          BY <1>3, <2>2, <2>4, <4>2, <4>4
        <4>6. ASSUME NEW i \in 1..L + 1 PROVE stack'[i].node = c[i]
          <5>1. CASE i \in 1..L
            BY <2>5, <3>2, <3>5, <5>1
          <5>2. CASE i = L + 1
            BY <2>2, <2>4, <3>5, <4>2, <5>2
          <5> QED
            BY <1>3, <5>1, <5>2
        <4>7. L + 1 \in DOMAIN stack'
          BY <1>3, <2>4, <4>2
        <4>8. Branches(c)'
          BY <4>1, <4>5, <4>6, <4>7 DEF Branches
        <4> QED
          BY <1>3, <2>5, <3>1, <4>8
      <3> QED
        BY <3>4, <3>5
    <2> QED
      BY <1>1, <1>2, <2>1, <2>6, <2>7 DEF SearchInv, CycleFound, Unsearched
  <1> QED
    BY <1>7, <1>8

\* Patches that cannot be sorted wait for one another.
LEMMA StuckWait ==
    ASSUME Given, SortInv, pc = "cycle" \/ error = "cycle"
    PROVE  /\ Graphed /\ Unsorted # {}
           /\ \A p \in Unsorted : \E q \in Unsorted : DependsOn(p, q)
  <1>1. Graphed /\ Unsorted # {} /\ Queue = {}
    BY DEF SortInv, SortTypes, Graphed, Ends
  <1>2. ASSUME NEW p \in Unsorted PROVE \E q \in Unsorted : DependsOn(p, q)
    <2>1. p \in Patches /\ degree[p] # 0
      BY <1>1 DEF Queue, Unsorted
    <2> QED
      BY <1>1, <2>1, NothingToWaitFor
  <1> QED
    BY <1>1, <1>2

\* An exhausted node is on no ring, and a search that ends has found one.
LEMMA BackSearch ==
    ASSUME Given, SortInv, SearchInv, Backtrack
    PROVE  SearchInv'
  <1> DEFINE L == Len(stack)
             R == [node : Unsorted, deps : SUBSET Unsorted]
  <1>1. /\ pc = "cycle" /\ stack # <<>> /\ Last(stack).deps = {} /\ stack' = Front(stack)
        /\ UNCHANGED <<file, stem, after, sorted>> /\ UNCHANGED <<tried, cycle>>
    BY DEF Backtrack, input, kahn
  <1>2. error = "none" /\ cycle = <<>>
    BY <1>1 DEF SortInv, SortTypes, SearchInv, CycleFound
  <1>3. stack \in Seq(R) /\ L \in Nat /\ L >= 1 /\ DOMAIN stack = 1..L
    BY <1>1, SeenLess DEF SearchInv, StackIsPath
  <1>4. stack[L].deps = {}
    BY <1>1, SeenLess
  <1>5. /\ stack' \in Seq(R) /\ Len(stack') = L - 1 /\ DOMAIN stack' = 1..L - 1
        /\ \A i \in 1..L - 1 : stack'[i] = stack[i]
    <2> HIDE DEF R
    <2>1. stack' = SubSeq(stack, 1, L - 1)
      BY <1>1 DEF Front
    <2>2. stack' \in Seq(R) /\ Len(stack') = L - 1 /\ \A i \in 1..L - 1 : stack'[i] = stack[i]
      BY <1>3, <2>1, SubSeqProperties
    <2> QED
      BY <2>2, LenProperties
  <1> HIDE DEF L
  <1>6. ASSUME NEW c \in Seq(Unsorted), Ring(c), c[1] \in tried
        PROVE  L > 1 /\ stack'[1].node = c[1] /\ Branches(c)'
    <2>1. stack[1].node = c[1] /\ Branches(c)
      BY <1>1, <1>6 DEF SearchInv, RingsAhead
    <2>2. PICK j \in 1..L : /\ j < Len(c) /\ c[j + 1] \in stack[j].deps
                            /\ \A i \in 1..j : stack[i].node = c[i]
      BY <1>3, <2>1 DEF Branches
    <2>3. j \in 1..L - 1
      BY <1>3, <1>4, <2>2
    <2>4. stack'[j] = stack[j] /\ j \in DOMAIN stack' /\ \A i \in 1..j : stack'[i].node = c[i]
      BY <1>3, <1>5, <2>2, <2>3
    <2>5. c[j + 1] \in stack'[j].deps
      BY <2>2, <2>4
    <2>6. Branches(c)'
      BY <2>2, <2>4, <2>5 DEF Branches
    <2>7. L > 1 /\ stack'[1] = stack[1]
      BY <1>3, <1>5, <2>3
    <2> QED
      BY <2>1, <2>6, <2>7
  <1>7. ~(L = 1 /\ MayGiveUp)
    <2> SUFFICES ASSUME L = 1, tried = Unsorted PROVE FALSE
      BY DEF MayGiveUp
    <2>1. PICK c \in Seq(Unsorted) : Ring(c)
      BY <1>1, StuckWait, RingExists
    <2>2. c[1] \in Unsorted
      BY <2>1 DEF Ring
    <2> QED
      BY <1>3, <1>6, <2>1, <2>2
  <1>8. UNCHANGED <<pc, error>>
    BY <1>7 DEF Backtrack, L
  <1>9. StackIsPath'
    <2>1. \A i \in 1..L - 1 : i \in 1..L /\ (i + 1 \in 1..L - 1 => i \in 1..L - 1)
      BY <1>3
    <2>2. /\ \A i \in 1..L : stack[i].deps \subseteq CycleDeps(stack[i].node)
          /\ \A i, j \in 1..L : stack[i].node = stack[j].node => i = j
          /\ \A i \in 1..L - 1 : DependsOn(stack[i].node, stack[i + 1].node)
          /\ tried \subseteq Unsorted /\ stack[1].node \in tried
      BY <1>1, <1>3 DEF SearchInv, StackIsPath, L
    <2>3. \A i \in 1..(L - 1) - 1 : i \in 1..L - 1 /\ i + 1 \in 1..L - 1
      BY <1>3
    <2>4. stack' # <<>> => 1 \in 1..L - 1
      BY <1>3, <1>5
    <2> QED
      BY <1>1, <1>5, <2>1, <2>2, <2>3, <2>4, SameRings, SameReferences DEF StackIsPath, R
  <1>10. RingsAhead'
    <2> SUFFICES ASSUME NEW c \in Seq(Unsorted), Ring(c), c[1] \in tried
                 PROVE  stack' # <<>> /\ stack'[1].node = c[1] /\ Branches(c)'
      BY <1>1, SameRings DEF RingsAhead
    <2>1. L > 1 /\ stack'[1].node = c[1] /\ Branches(c)'
      BY <1>6
    <2> QED
      BY <1>3, <1>5, <2>1
  <1> QED
    BY <1>1, <1>2, <1>8, <1>9, <1>10 DEF SearchInv, CycleFound, Unsearched

------------------------------------------------------------------------------
(* The execution. *)

ExecTypes ==
  /\ left \in [Lanes -> SUBSET Patches]
  /\ copy = [g \in Groups |-> copy[g]] /\ \A g \in Groups : IsConfig(copy[g])
  /\ thread \in [Groups -> {"none", "running", "ok", "failed"}]
  /\ applied \in Seq(Patches) /\ IsInjective(applied)
  /\ IsConfig(config) /\ IsConfig(base)
\* A patch is in its list until it is applied.
LeftOrApplied ==
  IF Compiled THEN \A p \in Patches, l \in Lanes :
                     p \in left[l] <=> InLane(p, l) /\ p \notin Range(applied)
  ELSE applied = <<>>
ThreadsEnd ==
  /\ pc = "profiles" => \A g \in Groups : thread[g] \in {"none", "ok"} => left[g] = {}
  /\ pc \in {"run", "done"} => \A g \in Groups : left[g] = {}
  /\ pc = "done" => left["caller"] = {}
  /\ mode = "pipeline" /\ pc \in {"profiles", "run"} => ~Rejected
  /\ mode = "ordered" => pc \notin {"check", "profiles"}
\* What a profile has applied is in its copy.
CopiesHold ==
  Compiled => \A g \in Groups, p \in Patches :
    scope[p] = g /\ p \notin left[g] => KeyOf[p] \in DOMAIN copy[g] /\ p \in Range(copy[g][KeyOf[p]])
BaseKept == pc # "done" => base = BaseConfig
ExecInv == ExecTypes /\ LeftOrApplied /\ ThreadsEnd /\ CopiesHold /\ MergeKeeps /\ BaseKept /\ DepsRespected

\* The input never changes, nor what the pipeline asks of it.
LEMMA SameDemands ==
    ASSUME UNCHANGED input
    PROVE  /\ UNCHANGED <<mode, file, stem, scope, after>>
           /\ \A r : Targets(r)' = Targets(r)
           /\ \A p, l : InLane(p, l)' <=> InLane(p, l)
           /\ \A r, t : Kept(r, t)' <=> Kept(r, t)
           /\ Rejected' <=> Rejected
           /\ Running' = Running
  <1>1. UNCHANGED <<mode, file, stem, scope, after>>
    BY DEF input
  <1>2. \A r : Targets(r)' = Targets(r)
    BY <1>1, SameReferences
  <1>3. \A p, l : InLane(p, l)' <=> InLane(p, l)
    BY <1>1 DEF InLane
  <1>4. \A r, t : Kept(r, t)' <=> Kept(r, t)
    BY <1>1 DEF Kept
  <1>5. \A r : Checked(r)' = Checked(r)
    BY <1>2 DEF Checked
  <1>6. \A r : (CrossGroup(r)' <=> CrossGroup(r)) /\ (CrossStage(r)' <=> CrossStage(r))
    BY <1>1, <1>5 DEF CrossGroup, CrossStage
  <1>7. Rejected' <=> Rejected
    BY <1>1, <1>6 DEF Rejected
  <1>8. Running' = Running
    BY <1>1 DEF Running
  <1> QED
    BY <1>1, <1>2, <1>3, <1>4, <1>7, <1>8

\* Each patch is in one lane.
LEMMA OneLane ==
    ASSUME Given, NEW p \in Patches
    PROVE  /\ \E l \in Lanes : InLane(p, l)
           /\ \A l, m \in Lanes : InLane(p, l) /\ InLane(p, m) => l = m
           /\ \A g \in Groups : InLane(p, g) <=> scope[p] = g
           /\ mode = "ordered" => \A g \in Groups : scope[p] # g
           /\ scope[p] \in Shared <=> scope[p] \notin Groups
           /\ "caller" \in Lanes /\ Groups \subseteq Lanes /\ "caller" \notin Groups
  <1>1. scope[p] \in Groups \cup Shared /\ (mode = "ordered" => scope[p] = "global")
    BY DEF Given, Scopes
  <1>2. "caller" \notin Groups /\ \A s \in Shared : s \notin Groups
    BY NamesAreDistinct
  <1>3. "global" \in Shared
    BY DEF Shared
  <1> QED
    BY <1>1, <1>2, <1>3 DEF InLane, Lanes

\* The place of what has been appended, and of what was there.
LEMMA Places ==
    ASSUME NEW S, NEW s \in Seq(S), IsInjective(s)
    PROVE  /\ \A i \in DOMAIN s : Position(s, s[i]) = i
           /\ \A q \in Range(s) : /\ Position(s, q) \in DOMAIN s /\ s[Position(s, q)] = q
                                  /\ Position(s, q) \in Nat /\ Position(s, q) <= Len(s)
           /\ \A e \in S : e \notin Range(s) =>
                /\ Position(Append(s, e), e) = Len(s) + 1
                /\ \A q \in Range(s) : Position(Append(s, e), q) = Position(s, q)
  <1>1. ASSUME NEW T, NEW t \in Seq(T), IsInjective(t)
        PROVE  /\ \A i \in DOMAIN t : Position(t, t[i]) = i
               /\ \A q \in Range(t) : Position(t, q) \in DOMAIN t /\ t[Position(t, q)] = q
    <2>1. ASSUME NEW q \in Range(t) PROVE Position(t, q) \in DOMAIN t /\ t[Position(t, q)] = q
      <3>1. \E i \in DOMAIN t : t[i] = q
        BY DEF Range
      <3> QED
        BY <3>1 DEF Position
    <2>2. ASSUME NEW i \in DOMAIN t PROVE Position(t, t[i]) = i
      <3>1. t[i] \in Range(t)
        BY DEF Range
      <3>2. Position(t, t[i]) \in DOMAIN t /\ t[Position(t, t[i])] = t[i]
        BY <2>1, <3>1
      <3> QED
        BY <1>1, <3>2 DEF IsInjective
    <2> QED
      BY <2>1, <2>2
  <1>2. /\ \A i \in DOMAIN s : Position(s, s[i]) = i
        /\ \A q \in Range(s) : Position(s, q) \in DOMAIN s /\ s[Position(s, q)] = q
    BY <1>1
  <1>3. Len(s) \in Nat /\ DOMAIN s = 1..Len(s)
    BY LenProperties
  <1>4. ASSUME NEW e \in S, e \notin Range(s)
        PROVE  /\ Position(Append(s, e), e) = Len(s) + 1
               /\ \A q \in Range(s) : Position(Append(s, e), q) = Position(s, q)
    <2> DEFINE t == Append(s, e)
    <2>1. /\ t \in Seq(S) /\ DOMAIN t = 1..Len(s) + 1 /\ t[Len(s) + 1] = e
          /\ \A i \in DOMAIN s : t[i] = s[i]
          /\ IsInjective(t)
      BY <1>4, Appended
    <2> HIDE DEF t
    <2>2. \A i \in DOMAIN t : Position(t, t[i]) = i
      BY <1>1, <2>1
    <2>3. Position(t, e) = Len(s) + 1
      <3>1. Len(s) + 1 \in DOMAIN t
        BY <1>3, <2>1
      <3> QED
        BY <2>1, <2>2, <3>1
    <2>4. ASSUME NEW q \in Range(s) PROVE Position(t, q) = Position(s, q)
      <3>1. PICK i \in DOMAIN s : s[i] = q
        BY DEF Range
      <3>2. i \in DOMAIN t /\ t[i] = q
        BY <1>3, <2>1, <3>1
      <3> QED
        BY <1>2, <2>2, <3>1, <3>2
    <2> QED
      BY <2>3, <2>4 DEF t
  <1> QED
    BY <1>2, <1>3, <1>4

\* What a patch applied to a configuration leaves in it.
LEMMA Changed ==
    ASSUME NEW c, IsConfig(c), NEW p \in Patches
    PROVE  /\ IsConfig(Apply(c, p))
           /\ KeyOf[p] \in DOMAIN Apply(c, p) /\ p \in Range(Apply(c, p)[KeyOf[p]])
           /\ \A k \in DOMAIN c : k \in DOMAIN Apply(c, p) /\ Range(c[k]) \subseteq Range(Apply(c, p)[k])
  <1> DEFINE K == KeyOf[p]
             a == Apply(c, p)
             old == IF K \in DOMAIN c THEN c[K] ELSE <<>>
             new == Append(old, p)
  <1>1. K \in Range(KeyOf)
    BY PathsAreKnown DEF Range
  <1>2. old \in Seq(Patches)
    BY EmptySeq DEF IsConfig
  <1> HIDE DEF old
  <1>3. new \in Seq(Patches) /\ Range(new) = Range(old) \cup {p}
    BY <1>2, Appended
  <1> HIDE DEF new, K
  <1>4. /\ DOMAIN a = DOMAIN c \cup {K} /\ a[K] = new
        /\ \A k \in DOMAIN c : k # K => a[k] = c[k]
    BY DEF Apply, old, new, K
  <1> HIDE DEF a
  <1>5. IsConfig(a)
    BY <1>1, <1>3, <1>4 DEF IsConfig
  <1>6. K \in DOMAIN a /\ p \in Range(a[K])
    BY <1>3, <1>4
  <1>7. ASSUME NEW k \in DOMAIN c PROVE k \in DOMAIN a /\ Range(c[k]) \subseteq Range(a[k])
    <2>1. CASE k = K
      <3>1. old = c[k] /\ a[k] = new
        BY <1>4, <2>1 DEF old
      <3> QED
        BY <1>3, <1>4, <3>1
    <2>2. CASE k # K
      <3>1. a[k] = c[k]
        BY <1>4, <2>2
      <3> QED
        BY <1>4, <3>1
    <2> QED
      BY <2>1, <2>2
  <1> QED
    BY <1>5, <1>6, <1>7 DEF a, K

\* The patch that is next waits for nothing it may still count on: what it names is before
\* it in its own lane, or in a lane that has ended.
LEMMA NextIsDue ==
    ASSUME Given, SortInv, ExecInv, Compiled, NEW l \in Lanes, NEW p \in Patches, IsNext(p, l),
           \/ pc = "run" /\ l = "caller"
           \/ pc = "profiles" /\ l \in Groups,
           NEW r \in after, r.from = p, NEW t \in Targets(r), Kept(r, t)
    PROVE  t \in Range(applied)
  <1> SUFFICES ASSUME t \notin Range(applied) PROVE FALSE
    OBVIOUS
  <1>1. t \in Patches /\ DependsOn(p, t)
    BY DEF Targets, DependsOn, Edges
  <1>2. sorted \in Seq(Patches) /\ IsInjective(sorted) /\ Range(sorted) = Patches
    <2>1. sorted \in Seq(Patches) /\ IsInjective(sorted) /\ Unsorted = {}
      BY DEF SortInv, SortTypes, Ends
    <2>2. Range(sorted) \subseteq Patches
      BY <2>1, LenProperties DEF Range
    <2> QED
      BY <2>1, <2>2 DEF Unsorted
  <1>3. PICK j \in DOMAIN sorted : sorted[j] = p
    BY <1>2 DEF Range
  <1>4. PICK i \in DOMAIN sorted : i < j /\ sorted[i] = t
    BY <1>1, <1>3 DEF SortInv, DepsFirst
  <1>5. i \in Nat /\ j \in Nat /\ Position(sorted, t) = i /\ Position(sorted, p) = j
    <2>1. DOMAIN sorted = 1..Len(sorted) /\ Len(sorted) \in Nat
      BY <1>2, LenProperties
    <2> QED
      BY <1>2, <1>3, <1>4, <2>1, Places
  <1>6. /\ \A q \in Patches, m \in Lanes : q \in left[m] <=> InLane(q, m) /\ q \notin Range(applied)
        /\ \A q \in left[l] \ {p} : Ahead(p, q)
        /\ p \in left[l]
    BY DEF ExecInv, LeftOrApplied, IsNext
  <1>7. scope[p] \in Scopes /\ scope[t] \in Scopes /\ Priority[scope[p]] \in Nat /\ Priority[scope[t]] \in Nat
    BY <1>1 DEF Given, Priority
  <1>8. InLane(t, l) => Priority[scope[p]] < Priority[scope[t]]
    <2> SUFFICES ASSUME InLane(t, l) PROVE Priority[scope[p]] < Priority[scope[t]]
      OBVIOUS
    <2>1. t # p
      BY <1>4, <1>5
    <2>2. Ahead(p, t)
      BY <1>1, <1>6, <2>1
    <2> QED
      BY <1>4, <1>5, <2>2 DEF Ahead
  <1>9. InLane(p, l)
    BY <1>6
  <1>10. CASE mode = "ordered"
    <2>1. scope[p] = scope[t]
      BY <1>1, <1>10 DEF Given
    <2>2. ~(pc = "profiles")
      BY <1>10 DEF ExecInv, ThreadsEnd
    <2>3. InLane(t, l)
      BY <1>10, <2>2 DEF InLane
    <2> QED
      BY <1>7, <1>8, <2>1, <2>3
  <1>11. CASE mode = "pipeline" /\ l = "caller"
    <2>1. scope[p] \in Shared
      BY <1>9, <1>11 DEF InLane
    <2>2. pc = "run"
      BY <1>11, NamesAreDistinct
    <2>3. Priority[scope[p]] >= Priority[scope[t]]
      BY <1>11, <2>1, NamesAreDistinct DEF Kept
    <2>4. CASE scope[t] \in Shared
      BY <1>7, <1>8, <1>11, <2>3, <2>4 DEF InLane
    <2>5. CASE scope[t] \in Groups
      <3>1. InLane(t, scope[t]) /\ scope[t] \in Lanes
        BY <1>1, <2>5, OneLane
      <3>2. t \in left[scope[t]]
        BY <1>1, <1>6, <3>1
      <3> QED
        BY <2>2, <2>5, <3>2 DEF ExecInv, ThreadsEnd
    <2> QED
      BY <1>7, <2>4, <2>5 DEF Scopes
  <1>12. CASE mode = "pipeline" /\ l \in Groups
    <2>1. scope[p] = l /\ scope[p] \notin Shared
      BY <1>9, <1>12, NamesAreDistinct, OneLane
    <2>2. ~Rejected
      BY <1>12, NamesAreDistinct DEF ExecInv, ThreadsEnd
    <2>3. r.by = "short" => scope[t] = l
      BY <1>12, <2>1 DEF Kept
    <2>4. r.by # "short" => t \in Checked(r)
      BY DEF Checked
    <2>5. t \in Checked(r) => ~(scope[t] \in Groups /\ scope[t] # l) /\ scope[t] \notin Shared
      BY <1>12, <2>1, <2>2 DEF Rejected, CrossGroup, CrossStage
    <2>6. scope[t] = l
      BY <1>7, <2>3, <2>4, <2>5 DEF Scopes
    <2>7. InLane(t, l)
      BY <1>1, <1>12, <2>6, OneLane
    <2> QED
      BY <1>7, <1>8, <2>1, <2>6, <2>7
  <1> QED
    BY <1>10, <1>11, <1>12 DEF Given

LEMMA InitExec == Init => ExecInv
  <1> SUFFICES ASSUME Init PROVE ExecInv
    OBVIOUS
  <1>1. /\ pc = "index" /\ error = "none" /\ applied = <<>> /\ config = BaseConfig /\ base = BaseConfig
        /\ left = [l \in Lanes |-> {}] /\ copy = [g \in Groups |-> BaseConfig]
        /\ thread = [g \in Groups |-> "none"]
    BY DEF Init
  <1>2. ExecTypes
    BY <1>1, EmptySeq, PathsAreKnown DEF ExecTypes, IsInjective
  <1>3. Range(applied) = {}
    BY <1>1 DEF Range
  <1> QED
    BY <1>1, <1>2, <1>3
    DEF ExecInv, LeftOrApplied, Compiled, ThreadsEnd, CopiesHold, MergeKeeps, BaseKept, DepsRespected

\* Steps that run no patch and leave the lists and the configuration alone.
LEMMA ExecKept ==
    ASSUME Given, ExecInv, UNCHANGED input, UNCHANGED <<config, left, copy, applied>>,
           thread' \in [Groups -> {"none", "running", "ok", "failed"}], IsConfig(base'),
           Compiled' <=> Compiled, ThreadsEnd', pc' = "run" => pc = "run", BaseKept'
    PROVE  ExecInv'
  <1>1. ExecTypes'
    BY DEF ExecInv, ExecTypes, IsConfig
  <1>2. LeftOrApplied'
    BY SameDemands DEF ExecInv, LeftOrApplied
  <1>3. CopiesHold'
    BY SameDemands DEF ExecInv, CopiesHold
  <1>4. MergeKeeps'
    BY SameDemands DEF ExecInv, MergeKeeps
  <1>5. DepsRespected'
    BY SameDemands DEF ExecInv, DepsRespected
  <1> QED
    BY <1>1, <1>2, <1>3, <1>4, <1>5 DEF ExecInv

LEMMA BeforeExec ==
    ASSUME Given, SortInv, ExecInv,
           Index \/ BuildGraph \/ (\E p \in Patches : Pop(p)) \/ Searching \/ UNCHANGED vars
    PROVE  ExecInv'
  <1>1. UNCHANGED input /\ UNCHANGED <<config, threads, applied, base>>
    BY DEF Index, BuildGraph, Pop, Searching, Backtrack, StartAt, LookAt, vars
  <1>2. \/ UNCHANGED <<pc, error>>
        \/ /\ pc \in {"index", "graph", "sort", "cycle"} /\ error = "none"
           /\ pc' \in {"graph", "sort", "cycle", "failed"} /\ error' \in {"none", "ambiguous", "missing", "cycle"}
    BY DEF Index, BuildGraph, Pop, Searching, Backtrack, StartAt, LookAt, vars, Fail, SortInv, SortTypes
  <1>3. UNCHANGED <<left, copy, thread>>
    BY <1>1 DEF threads
  <1>4. Compiled' <=> Compiled
    BY <1>2 DEF Compiled
  <1>5. ThreadsEnd'
    BY <1>1, <1>2, <1>3, SameDemands DEF ExecInv, ThreadsEnd
  <1>6. BaseKept'
    BY <1>1, <1>2 DEF ExecInv, BaseKept
  <1> QED
    BY <1>1, <1>2, <1>3, <1>4, <1>5, <1>6, ExecKept DEF ExecInv, ExecTypes

\* When everything is sorted, each list gets its patches.
LEMMA SortedExec ==
    ASSUME Given, SortInv, ExecInv, Sorted
    PROVE  ExecInv'
  <1>1. /\ pc = "sort" /\ UNCHANGED input /\ UNCHANGED <<error, config, copy, thread, applied, base>>
        /\ pc' = IF Unsorted # {} THEN "cycle" ELSE IF mode = "ordered" THEN "run" ELSE "check"
        /\ left' = IF Unsorted # {} THEN left ELSE [l \in Lanes |-> {p \in Patches : InLane(p, l)}]
    BY DEF Sorted
  <1>2. error = "none" /\ ~Compiled /\ applied = <<>> /\ Range(applied) = {} /\ base = BaseConfig
    BY <1>1 DEF SortInv, SortTypes, Compiled, ExecInv, LeftOrApplied, BaseKept, Range
  <1>3. CASE Unsorted # {}
    <2>1. pc' = "cycle" /\ left' = left /\ ~Compiled'
      BY <1>1, <1>2, <1>3 DEF Compiled
    <2>2. ThreadsEnd'
      BY <2>1 DEF ThreadsEnd
    <2>3. BaseKept'
      BY <1>1, <1>2 DEF BaseKept
    <2> QED
      BY <1>1, <1>2, <2>1, <2>2, <2>3, ExecKept DEF ExecInv, ExecTypes
  <1>4. CASE Unsorted = {}
    <2>1. /\ pc' \in {"run", "check"} /\ (pc' = "run" <=> mode = "ordered") /\ Compiled'
          /\ \A p \in Patches, l \in Lanes : p \in left'[l] <=> InLane(p, l)
      BY <1>1, <1>4 DEF Compiled
    <2>2. ExecTypes'
      <3>1. left' \in [Lanes -> SUBSET Patches]
        BY <1>1, <1>4
      <3> QED
        BY <1>1, <3>1 DEF ExecInv, ExecTypes, IsConfig
    <2>3. LeftOrApplied'
      BY <1>1, <1>2, <2>1, SameDemands DEF LeftOrApplied
    <2>4. ThreadsEnd'
      <3>1. ASSUME mode = "ordered", NEW g \in Groups PROVE left'[g] = {}
        <4>1. \A p \in Patches : ~InLane(p, g)
          BY <3>1, OneLane
        <4>2. left'[g] \subseteq Patches /\ g \in Lanes
          BY <2>2 DEF ExecTypes, Lanes
        <4> QED
          BY <2>1, <4>1, <4>2
      <3> QED
        BY <1>1, <2>1, <3>1, SameDemands DEF ThreadsEnd, Given
    <2>5. CopiesHold'
      <3>1. ASSUME NEW g \in Groups, NEW p \in Patches, scope[p] = g PROVE p \in left'[g]
        BY <2>1, <3>1, OneLane
      <3> QED
        BY <1>1, <3>1, SameDemands DEF CopiesHold
    <2>6. MergeKeeps'
      BY <1>1, <2>1, SameDemands DEF MergeKeeps, Given
    <2>7. BaseKept' /\ DepsRespected'
      BY <1>1, <1>2 DEF BaseKept, DepsRespected
    <2> QED
      BY <2>2, <2>3, <2>4, <2>5, <2>6, <2>7 DEF ExecInv
  <1> QED
    BY <1>3, <1>4

\* A profile without patches gets no thread.
LEMMA CheckExec ==
    ASSUME Given, SortInv, ExecInv, Check
    PROVE  ExecInv'
  <1>1. /\ pc = "check" /\ UNCHANGED input /\ UNCHANGED <<config, left, copy, applied, base>>
        /\ Compiled /\ base = BaseConfig
    BY DEF Check, Compiled, ExecInv, BaseKept
  <1>2. CASE Rejected
    <2>1. pc' = "failed" /\ error' = "cross" /\ thread' = thread
      BY <1>2 DEF Check, Fail
    <2>2. Compiled' /\ ThreadsEnd' /\ BaseKept'
      BY <1>1, <2>1 DEF Compiled, ThreadsEnd, BaseKept
    <2> QED
      BY <1>1, <2>1, <2>2, ExecKept DEF ExecInv, ExecTypes
  <1>3. CASE ~Rejected
    <2>1. /\ pc' = "profiles"
          /\ thread' = [g \in Groups |-> IF \E i \in Running : GroupNames[i] = g THEN "running" ELSE "none"]
      BY <1>3 DEF Check, Fail
    <2>2. thread' \in [Groups -> {"none", "running", "ok", "failed"}]
      BY <2>1
    <2>3. ASSUME NEW g \in Groups, thread'[g] \in {"none", "ok"} PROVE left'[g] = {}
      <3> SUFFICES ASSUME NEW p \in left[g] PROVE FALSE
        BY <1>1
      <3>1. p \in Patches /\ scope[p] = g
        BY <1>1, OneLane DEF ExecInv, ExecTypes, LeftOrApplied, Lanes
      <3>2. PICK i \in DOMAIN GroupNames : GroupNames[i] = g
        BY DEF Groups, Range
      <3>3. i \in Running
        BY <3>1, <3>2 DEF Running
      <3> QED
        BY <2>1, <2>3, <3>2, <3>3
    <2>4. ThreadsEnd'
      BY <1>1, <1>3, <2>1, <2>3, SameDemands DEF ExecInv, ThreadsEnd
    <2>5. Compiled' /\ BaseKept'
      BY <1>1, <2>1 DEF Compiled, BaseKept
    <2> QED
      BY <1>1, <2>1, <2>2, <2>4, <2>5, ExecKept DEF ExecInv, ExecTypes
  <1> QED
    BY <1>2, <1>3

\* A thread that fails or ends, a failing patch of the calling thread, the last assignment.
LEMMA EndExec ==
    ASSUME Given, SortInv, ExecInv,
           RunFails \/ Finish \/ \E g \in Groups : ProfileFails(g) \/ ProfileEnds(g)
    PROVE  ExecInv'
  <1>1. /\ pc \in {"profiles", "run"} /\ error = "none"
        /\ UNCHANGED input /\ UNCHANGED <<config, left, copy, applied>>
        /\ base = BaseConfig /\ Compiled /\ base' \in {base, config}
    BY DEF RunFails, Finish, ProfileFails, ProfileEnds, threads, SortInv, SortTypes, Compiled, ExecInv, BaseKept
  <1>2. Compiled' /\ BaseKept' /\ (pc' = "run" => pc = "run")
    BY <1>1 DEF RunFails, Finish, ProfileFails, ProfileEnds, Fail, Compiled, BaseKept
  <1>3. IsConfig(base')
    BY <1>1 DEF ExecInv, ExecTypes, IsConfig
  <1>4. thread' \in [Groups -> {"none", "running", "ok", "failed"}] /\ ThreadsEnd'
    <2>1. CASE RunFails \/ Finish
      <3>1. thread' = thread /\ pc = "run" /\ (pc' = "failed" \/ (pc' = "done" /\ left["caller"] = {}))
        BY <2>1 DEF RunFails, Finish, Fail, threads
      <3> QED
        BY <1>1, <3>1, SameDemands DEF ExecInv, ExecTypes, ThreadsEnd
    <2>2. ASSUME NEW g \in Groups, ProfileFails(g) \/ ProfileEnds(g)
          PROVE  thread' \in [Groups -> {"none", "running", "ok", "failed"}] /\ ThreadsEnd'
      <3>1. PICK o \in {"failed", "ok"} : /\ thread' = [thread EXCEPT ![g] = o]
                                          /\ o = "ok" => left[g] = {}
        BY <2>2 DEF ProfileFails, ProfileEnds
      <3>2. pc = "profiles" /\ pc' = pc
        BY <2>2 DEF ProfileFails, ProfileEnds
      <3>3. /\ thread' \in [Groups -> {"none", "running", "ok", "failed"}]
            /\ \A h \in Groups : thread'[h] = IF h = g THEN o ELSE thread[h]
        BY <3>1 DEF ExecInv, ExecTypes
      <3>4. \A h \in Groups : thread'[h] \in {"none", "ok"} => left[h] = {}
        BY <3>1, <3>2, <3>3 DEF ExecInv, ThreadsEnd
      <3> QED
        BY <1>1, <3>2, <3>3, <3>4, SameDemands DEF ExecInv, ThreadsEnd
    <2> QED
      BY <2>1, <2>2
  <1> QED
    BY <1>1, <1>2, <1>3, <1>4, ExecKept

\* Running the next patch of a lane moves it from its list to the applied ones, and in order.
LEMMA StepExec ==
    ASSUME Given, SortInv, ExecInv, Compiled, Compiled', UNCHANGED input,
           NEW l \in Lanes, NEW p \in Patches, IsNext(p, l),
           \/ pc = "run" /\ l = "caller"
           \/ pc = "profiles" /\ l \in Groups,
           left' = [left EXCEPT ![l] = @ \ {p}], applied' = Append(applied, p)
    PROVE  /\ left' \in [Lanes -> SUBSET Patches] /\ applied' \in Seq(Patches) /\ IsInjective(applied')
           /\ \A m \in Lanes : left'[m] = IF m = l THEN left[m] \ {p} ELSE left[m]
           /\ InLane(p, l) /\ LeftOrApplied' /\ DepsRespected'
  <1>1. /\ left \in [Lanes -> SUBSET Patches] /\ applied \in Seq(Patches) /\ IsInjective(applied)
        /\ p \in left[l]
    BY DEF ExecInv, ExecTypes, IsNext
  <1>2. InLane(p, l) /\ p \notin Range(applied)
    BY <1>1 DEF ExecInv, LeftOrApplied
  <1>3. /\ applied' \in Seq(Patches) /\ IsInjective(applied')
        /\ Range(applied') = Range(applied) \cup {p}
    BY <1>1, <1>2, Appended
  <1>4. /\ left' \in [Lanes -> SUBSET Patches]
        /\ \A m \in Lanes : left'[m] = IF m = l THEN left[m] \ {p} ELSE left[m]
    BY <1>1
  <1>5. LeftOrApplied'
    <2>1. ASSUME NEW q \in Patches, NEW m \in Lanes
          PROVE  q \in left'[m] <=> InLane(q, m) /\ q \notin Range(applied')
      <3>1. q \in left[m] <=> InLane(q, m) /\ q \notin Range(applied)
        BY DEF ExecInv, LeftOrApplied
      <3>2. q = p /\ InLane(q, m) => m = l
        BY <1>2, OneLane
      <3> QED
        BY <1>3, <1>4, <3>1, <3>2
    <2> QED
      BY <2>1, SameDemands DEF LeftOrApplied
  <1>6. DepsRespected'
    <2>1. ASSUME NEW r \in after, NEW t \in Targets(r), r.from \in Range(applied'), Kept(r, t)
          PROVE  t \in Range(applied') /\ Position(applied', t) < Position(applied', r.from)
      <3>1. /\ \A q \in Range(applied) : /\ Position(applied', q) = Position(applied, q)
                                         /\ Position(applied, q) \in Nat /\ Position(applied, q) <= Len(applied)
            /\ Position(applied', p) = Len(applied) + 1 /\ Len(applied) \in Nat
        BY <1>1, <1>2, Places, LenProperties
      <3>2. CASE r.from \in Range(applied)
        <4>1. t \in Range(applied) /\ Position(applied, t) < Position(applied, r.from)
          BY <2>1, <3>2 DEF ExecInv, DepsRespected
        <4> QED
          BY <1>3, <3>1, <3>2, <4>1
      <3>3. CASE r.from = p
        <4>1. t \in Range(applied)
          BY <2>1, <3>3, NextIsDue
        <4> QED
          BY <1>3, <3>1, <3>3, <4>1
      <3> QED
        BY <1>3, <2>1, <3>2, <3>3
    <2> QED
      BY <2>1, SameDemands DEF DepsRespected
  <1> QED
    BY <1>2, <1>3, <1>4, <1>5, <1>6

LEMMA ProfileExec ==
    ASSUME Given, SortInv, ExecInv, NEW g \in Groups, ProfileStep(g)
    PROVE  ExecInv'
  <1>1. /\ pc = "profiles" /\ thread[g] = "running"
        /\ UNCHANGED input /\ UNCHANGED <<pc, error, config, thread, base>>
        /\ Compiled /\ Compiled' /\ g \in Lanes
    BY DEF ProfileStep, Compiled, Lanes
  <1>2. PICK p \in Patches : /\ IsNext(p, g)
                             /\ copy' = [copy EXCEPT ![g] = Apply(@, p)]
                             /\ left' = [left EXCEPT ![g] = @ \ {p}]
                             /\ applied' = Append(applied, p)
    BY DEF ProfileStep
  <1>3. /\ left' \in [Lanes -> SUBSET Patches] /\ applied' \in Seq(Patches) /\ IsInjective(applied')
        /\ \A m \in Lanes : left'[m] = IF m = g THEN left[m] \ {p} ELSE left[m]
        /\ InLane(p, g) /\ LeftOrApplied' /\ DepsRespected'
    BY <1>1, <1>2, StepExec
  <1>4. /\ copy' = [h \in Groups |-> copy'[h]]
        /\ copy'[g] = Apply(copy[g], p)
        /\ \A h \in Groups : h # g => copy'[h] = copy[h]
    BY <1>2 DEF ExecInv, ExecTypes
  <1>5. /\ IsConfig(copy'[g]) /\ KeyOf[p] \in DOMAIN copy'[g] /\ p \in Range(copy'[g][KeyOf[p]])
        /\ \A k \in DOMAIN copy[g] : k \in DOMAIN copy'[g] /\ Range(copy[g][k]) \subseteq Range(copy'[g][k])
    <2>1. IsConfig(copy[g])
      BY DEF ExecInv, ExecTypes
    <2> QED
      BY <1>4, <2>1, Changed
  <1>6. ExecTypes'
    <2>1. \A h \in Groups : IsConfig(copy'[h])
      BY <1>4, <1>5 DEF ExecInv, ExecTypes
    <2> QED
      BY <1>1, <1>3, <1>4, <2>1 DEF ExecInv, ExecTypes
  <1>7. ThreadsEnd'
    <2>1. \A h \in Groups : h \in Lanes /\ (h # g => left'[h] = left[h])
      BY <1>3 DEF Lanes
    <2>2. \A h \in Groups : thread[h] \in {"none", "ok"} => left'[h] = {}
      BY <1>1, <2>1 DEF ExecInv, ThreadsEnd
    <2> QED
      BY <1>1, <2>2, SameDemands DEF ExecInv, ThreadsEnd
  <1>8. CopiesHold'
    <2>1. ASSUME NEW h \in Groups, NEW q \in Patches, scope[q] = h, q \notin left'[h]
          PROVE  KeyOf[q] \in DOMAIN copy'[h] /\ q \in Range(copy'[h][KeyOf[q]])
      <3>1. left'[h] = IF h = g THEN left[h] \ {p} ELSE left[h]
        BY <1>3 DEF Lanes
      <3>2. CASE q = p /\ h = g
        BY <1>5, <3>2
      <3>3. CASE ~(q = p /\ h = g)
        <4>1. KeyOf[q] \in DOMAIN copy[h] /\ q \in Range(copy[h][KeyOf[q]])
          BY <1>1, <2>1, <3>1, <3>3 DEF ExecInv, CopiesHold
        <4>2. CASE h = g
          BY <1>5, <4>1, <4>2
        <4>3. CASE h # g
          <5>1. copy'[h] = copy[h]
            BY <1>4, <4>3
          <5> QED
            BY <4>1, <5>1
        <4> QED
          BY <4>2, <4>3
      <3> QED
        BY <3>2, <3>3
    <2> QED
      BY <1>1, <2>1, SameDemands DEF CopiesHold
  <1>9. MergeKeeps' /\ BaseKept'
    BY <1>1 DEF ExecInv, MergeKeeps, BaseKept
  <1> QED
    BY <1>3, <1>6, <1>7, <1>8, <1>9 DEF ExecInv

\* The calling thread runs a patch: what is in the configuration stays there.
LEMMA RunExec ==
    ASSUME Given, SortInv, ExecInv, RunStep
    PROVE  ExecInv'
  <1>1. /\ pc = "run" /\ UNCHANGED input /\ UNCHANGED <<pc, error, copy, thread, base>>
        /\ Compiled /\ Compiled' /\ "caller" \in Lanes
    BY DEF RunStep, Compiled, Lanes
  <1>2. PICK p \in Patches : /\ IsNext(p, "caller")
                             /\ config' \in Outcomes(config, p)
                             /\ left' = [left EXCEPT !["caller"] = @ \ {p}]
                             /\ applied' = Append(applied, p)
    BY DEF RunStep
  <1>3. /\ left' \in [Lanes -> SUBSET Patches] /\ applied' \in Seq(Patches) /\ IsInjective(applied')
        /\ \A m \in Lanes : left'[m] = IF m = "caller" THEN left[m] \ {p} ELSE left[m]
        /\ InLane(p, "caller") /\ LeftOrApplied' /\ DepsRespected'
    BY <1>1, <1>2, StepExec
  <1>4. \A g \in Groups : g \in Lanes /\ left'[g] = left[g]
    BY <1>3, NamesAreDistinct DEF Lanes
  <1>5. /\ IsConfig(config')
        /\ \A k \in DOMAIN config : k \in DOMAIN config' /\ Range(config[k]) \subseteq Range(config'[k])
    <2>1. IsConfig(config)
      BY DEF ExecInv, ExecTypes
    <2>2. config' = Apply(config, p) \/ config' = config
      BY <1>2 DEF Outcomes
    <2>3. CASE config' = Apply(config, p)
      BY <2>1, <2>3, Changed
    <2>4. CASE config' = config
      BY <2>1, <2>4
    <2> QED
      BY <2>2, <2>3, <2>4
  <1>6. ExecTypes'
    BY <1>1, <1>3, <1>5 DEF ExecInv, ExecTypes, IsConfig
  <1>7. ThreadsEnd'
    BY <1>1, <1>4, SameDemands DEF ExecInv, ThreadsEnd
  <1>8. CopiesHold'
    BY <1>1, <1>4, SameDemands DEF ExecInv, CopiesHold
  <1>9. MergeKeeps'
    <2> SUFFICES ASSUME mode = "pipeline", NEW i \in Running, NEW q \in Patches, scope[q] = GroupNames[i],
                        \A j \in Running : j > i => KeyOf[q] \notin DOMAIN copy[GroupNames[j]]
                 PROVE  KeyOf[q] \in DOMAIN config' /\ q \in Range(config'[KeyOf[q]])
      BY <1>1, SameDemands DEF MergeKeeps
    <2>1. KeyOf[q] \in DOMAIN config /\ q \in Range(config[KeyOf[q]])
      BY <1>1 DEF ExecInv, MergeKeeps
    <2> QED
      BY <1>5, <2>1
  <1>10. BaseKept'
    BY <1>1 DEF ExecInv, BaseKept
  <1> QED
    BY <1>3, <1>6, <1>7, <1>8, <1>9, <1>10 DEF ExecInv

\* The copies are merged when every list of a profile is empty: of each leaf the last value
\* stays, and nothing else is lost.
LEMMA JoinExec ==
    ASSUME Given, SortInv, ExecInv, Join
    PROVE  ExecInv'
  <1>1. /\ pc = "profiles" /\ \A g \in Groups : thread[g] # "running"
        /\ UNCHANGED input /\ UNCHANGED <<left, copy, thread, applied, base>>
        /\ Compiled
    BY DEF Join, threads, Compiled
  <1>2. CASE \E g \in Groups : thread[g] = "failed"
    <2>1. pc' = "failed" /\ error' = "exec" /\ config' = config
      BY <1>2 DEF Join, Fail
    <2>2. Compiled' /\ ThreadsEnd' /\ BaseKept'
      BY <1>1, <2>1 DEF Compiled, ThreadsEnd, BaseKept, ExecInv
    <2> QED
      BY <1>1, <2>1, <2>2, ExecKept DEF ExecInv, ExecTypes
  <1>3. CASE ~\E g \in Groups : thread[g] = "failed"
    <2>1. pc' = "run" /\ error' = error /\ config' = Merged /\ Compiled'
      BY <1>3 DEF Join, Compiled
    <2>2. \A g \in Groups : thread[g] \in {"none", "ok"} /\ left[g] = {}
      BY <1>1, <1>3 DEF ExecInv, ExecTypes, ThreadsEnd
    <2>3. /\ Len(GroupNames) \in Nat
          /\ \A i \in Running : i \in Nat /\ i <= Len(GroupNames) /\ GroupNames[i] \in Groups
      <3>1. GroupNames \in Seq(Groups)
        BY NamesAreDistinct
      <3>2. Len(GroupNames) \in Nat /\ DOMAIN GroupNames = 1..Len(GroupNames)
        BY <3>1, LenProperties
      <3>3. \A i \in Running : i \in DOMAIN GroupNames /\ GroupNames[i] \in Groups
        BY DEF Running, Groups, Range
      <3> QED
        BY <3>2, <3>3
    <2>4. ASSUME NEW k, Holders(k) # {}
          PROVE  Max(Holders(k)) \in Holders(k) /\ \A i \in Holders(k) : i <= Max(Holders(k))
      <3>1. /\ Holders(k) \subseteq Nat /\ \A i \in Holders(k) : i <= Len(GroupNames)
        BY <2>3 DEF Holders
      <3>2. PICK m \in Holders(k) : \A i \in Holders(k) : i <= m
        BY <2>3, <2>4, <3>1, HasGreatest
      <3>3. \E m_1 \in Holders(k) : \A i \in Holders(k) : m_1 >= i
        BY <3>1, <3>2
      <3>4. Max(Holders(k)) \in Holders(k) /\ \A i \in Holders(k) : Max(Holders(k)) >= i
        BY <3>3 DEF Max
      <3> QED
        BY <3>1, <3>4
    <2>5. ASSUME NEW i \in Running PROVE IsConfig(copy[GroupNames[i]])
      BY <2>3 DEF ExecInv, ExecTypes
    <2>6. IsConfig(config')
      <3> DEFINE D == DOMAIN base \cup UNION {DOMAIN copy[GroupNames[i]] : i \in Running}
                 F(k) == IF Holders(k) = {} THEN base[k] ELSE copy[GroupNames[Max(Holders(k))]][k]
      <3>1. config' = [k \in D |-> F(k)]
        BY <2>1 DEF Merged
      <3>2. D \subseteq Range(KeyOf)
        BY <2>5 DEF ExecInv, ExecTypes, IsConfig
      <3>3. ASSUME NEW k \in D PROVE F(k) \in Seq(Patches)
        <4>1. CASE Holders(k) = {}
          <5>1. k \in DOMAIN base
            BY <4>1 DEF Holders
          <5> QED
            BY <4>1, <5>1 DEF ExecInv, ExecTypes, IsConfig
        <4>2. CASE Holders(k) # {}
          <5>1. Max(Holders(k)) \in Running /\ k \in DOMAIN copy[GroupNames[Max(Holders(k))]]
            BY <2>4, <4>2 DEF Holders
          <5> QED
            BY <2>5, <4>2, <5>1 DEF IsConfig
        <4> QED
          BY <4>1, <4>2
      <3> HIDE DEF D, F
      <3> QED
        BY <3>1, <3>2, <3>3 DEF IsConfig
    <2>7. ExecTypes'
      BY <1>1, <2>6 DEF ExecInv, ExecTypes, IsConfig
    <2>8. LeftOrApplied' /\ CopiesHold'
      BY <1>1, <2>1, SameDemands DEF ExecInv, LeftOrApplied, CopiesHold
    <2>9. ThreadsEnd'
      BY <1>1, <2>1, <2>2, SameDemands DEF ExecInv, ThreadsEnd
    <2>10. MergeKeeps'
      <3> SUFFICES ASSUME NEW i \in Running, NEW p \in Patches, scope[p] = GroupNames[i],
                          \A j \in Running : j > i => KeyOf[p] \notin DOMAIN copy[GroupNames[j]]
                   PROVE  KeyOf[p] \in DOMAIN Merged /\ p \in Range(Merged[KeyOf[p]])
        BY <1>1, <2>1, SameDemands DEF MergeKeeps
      <3> DEFINE k == KeyOf[p]
      <3>1. k \in DOMAIN copy[GroupNames[i]] /\ p \in Range(copy[GroupNames[i]][k])
        BY <1>1, <2>2, <2>3 DEF ExecInv, CopiesHold
      <3> HIDE DEF k
      <3>2. i \in Holders(k)
        BY <3>1 DEF Holders
      <3>3. Max(Holders(k)) = i
        <4>1. Max(Holders(k)) \in Holders(k) /\ i <= Max(Holders(k))
          BY <2>4, <3>2
        <4>2. Max(Holders(k)) \in Running /\ k \in DOMAIN copy[GroupNames[Max(Holders(k))]]
          BY <4>1 DEF Holders
        <4>3. ~(Max(Holders(k)) > i)
          BY <4>2 DEF k
        <4> QED
          BY <2>3, <4>1, <4>2, <4>3
      <3>4. k \in DOMAIN Merged /\ Merged[k] = copy[GroupNames[i]][k]
        BY <3>1, <3>2, <3>3 DEF Merged
      <3> QED
        BY <3>1, <3>4 DEF k
    <2>11. BaseKept' /\ DepsRespected'
      BY <1>1, <2>1, SameDemands DEF ExecInv, BaseKept, DepsRespected
    <2> QED
      BY <2>7, <2>8, <2>9, <2>10, <2>11 DEF ExecInv
  <1> QED
    BY <1>2, <1>3

------------------------------------------------------------------------------
(* The invariant and what it implies. *)

Inv == Given /\ SortInv /\ SearchInv /\ ExecInv

LEMMA Inductive == Inv /\ [Next]_vars => Inv'
  <1> SUFFICES ASSUME Inv, [Next]_vars PROVE Inv'
    OBVIOUS
  <1> USE DEF Inv
  <1>1. UNCHANGED input
    BY DEF Next, Index, BuildGraph, Pop, Sorted, StartAt, LookAt, Backtrack, Check, ProfileStep, ProfileFails,
           ProfileEnds, Join, RunStep, RunFails, Finish, Stopped, vars
  <1>2. Given'
    BY <1>1, GivenKept
  <1>3. CASE Index
    BY <1>2, <1>3, IndexSort, BeforeSearch, BeforeExec
  <1>4. CASE BuildGraph
    BY <1>2, <1>4, GraphSort, BeforeSearch, BeforeExec
  <1>5. ASSUME NEW p \in Patches, Pop(p) PROVE Inv'
    BY <1>2, <1>5, PopSort, BeforeSearch, BeforeExec
  <1>6. CASE Sorted
    BY <1>2, <1>6, SortedSort, BeforeSearch, SortedExec
  <1>7. CASE Backtrack
    BY <1>2, <1>7, LaterSort, BackSearch, BeforeExec DEF Searching
  <1>8. ASSUME NEW p \in Patches, StartAt(p) PROVE Inv'
    BY <1>2, <1>8, LaterSort, StartSearch, BeforeExec DEF Searching
  <1>9. ASSUME NEW p \in Patches, LookAt(p) PROVE Inv'
    BY <1>2, <1>9, LaterSort, LookSearch, BeforeExec DEF Searching
  <1>10. CASE Executing
    <2>1. SortInv' /\ SearchInv'
      BY <1>10, LaterSort, AfterSearch
    <2>2. ExecInv'
      BY <1>10, CheckExec, JoinExec, RunExec, EndExec, ProfileExec DEF Executing
    <2> QED
      BY <1>2, <2>1, <2>2
  <1>11. CASE UNCHANGED vars
    BY <1>2, <1>11, LaterSort, AfterSearch, BeforeExec
  <1>12. \/ Index \/ BuildGraph \/ Sorted \/ Backtrack \/ Executing \/ UNCHANGED vars
         \/ \E p \in Patches : Pop(p) \/ StartAt(p) \/ LookAt(p)
    BY DEF Next, Executing, Stopped
  <1> QED
    BY <1>3, <1>4, <1>5, <1>6, <1>7, <1>8, <1>9, <1>10, <1>11, <1>12

LEMMA Always == Spec => []Inv
  <1>1. Init => Inv
    BY InitSort, InitSearch, InitExec DEF Inv
  <1> QED
    BY <1>1, Inductive, PTL DEF Spec

\* Patches run in the order their files and their __after__ demand, whatever threads they run
\* on and however the cross-group checks read the references: a patch follows everything it
\* names that is kept, and files are passed over only by what waits. (topological_sort,
\* compile_and_execute_pipeline, execute_pipeline)
THEOREM OrderIsKept == Spec => []OrderKept
  <1>1. Inv => OrderKept
    BY DEF Inv, SortInv, ExecInv, OrderKept
  <1> QED
    BY <1>1, Always, PTL

\* For any references: a cycle is reported exactly when some patches wait for one another in a
\* circle, and the reported path is such a circle, closed and without repetition; the search
\* never gives up. (topological_sort, find_cycle_path)
THEOREM CyclesAreFound == Spec => []CyclesFound
  <1>1. ASSUME Inv PROVE CycleExact
    <2> SUFFICES ASSUME pc \notin {"index", "graph", "sort"}, error \notin {"ambiguous", "missing"}
                 PROVE  (pc = "cycle" \/ error = "cycle") <=> \E S \in (SUBSET Patches) \ {{}} : Circle(S)
      BY DEF CycleExact, Circle
    <2>1. ASSUME pc = "cycle" \/ error = "cycle" PROVE \E S \in (SUBSET Patches) \ {{}} : Circle(S)
      <3>1. Unsorted # {} /\ Unsorted \subseteq Patches
            /\ \A p \in Unsorted : \E q \in Unsorted : DependsOn(p, q)
        BY <1>1, <2>1, StuckWait DEF Inv, Unsorted
      <3> QED
        BY <3>1 DEF Circle
    <2>2. ASSUME NEW S \in (SUBSET Patches) \ {{}}, Circle(S) PROVE pc = "cycle" \/ error = "cycle"
      <3>1. S \cap Range(sorted) = {}
        BY <1>1, <2>2 DEF Inv, SortInv, CirclesWait, Circle
      <3>2. Unsorted # {}
        BY <3>1 DEF Unsorted
      <3> QED
        BY <1>1, <3>2 DEF Inv, SortInv, SortTypes, Ends, Compiled
    <2> QED
      BY <2>1, <2>2
  <1>2. ASSUME Inv PROVE CycleGenuine
    <2> SUFFICES ASSUME error = "cycle"
                 PROVE  /\ Len(cycle) > 1 /\ Head(cycle) = Last(cycle) /\ IsInjective(Front(cycle))
                        /\ \A i \in 1..(Len(cycle) - 1) : DependsOn(cycle[i], cycle[i + 1])
      BY DEF CycleGenuine
    <2> DEFINE n == Len(cycle)
    <2>1. Ring(cycle)
      BY <1>2 DEF Inv, SearchInv, CycleFound
    <2>2. /\ cycle \in Seq(Unsorted) /\ n \in Nat /\ n > 1 /\ cycle[1] = cycle[n]
          /\ \A i, j \in 1..n - 1 : cycle[i] = cycle[j] => i = j
          /\ \A i \in 1..n - 1 : DependsOn(cycle[i], cycle[i + 1])
          /\ DOMAIN cycle = 1..n
      BY <2>1, LenProperties DEF Ring, Linked
    <2>3. Head(cycle) = cycle[1] /\ Last(cycle) = cycle[n]
      BY <2>2 DEF Last
    <2>4. Front(cycle) = SubSeq(cycle, 1, n - 1)
      BY DEF Front
    <2> HIDE DEF n
    <2>5. \A i \in 1..n - 1 : cycle[i] \in Unsorted
      BY <2>2
    <2>6. /\ Front(cycle) \in Seq(Unsorted) /\ Len(Front(cycle)) = n - 1
          /\ \A i \in 1..n - 1 : Front(cycle)[i] = cycle[i]
      BY <2>2, <2>4, <2>5, SubSeqProperties
    <2>7. DOMAIN Front(cycle) = 1..n - 1
      BY <2>6, LenProperties
    <2>8. IsInjective(Front(cycle))
      BY <2>2, <2>6, <2>7 DEF IsInjective
    <2> QED
      BY <2>2, <2>3, <2>8 DEF n
  <1>3. Inv => CyclesFound
    BY <1>1, <1>2 DEF CyclesFound
  <1> QED
    BY <1>3, Always, PTL

\* Sorting, threads and merges lose and repeat nothing: a run that succeeds has executed every
\* patch once, a merge keeps every change no later profile overwrites, and a run that fails
\* leaves the caller's configuration alone. (execute, execute_pipeline, deep_merge_json)
THEOREM NothingIsLost == Spec => []NothingLost
  <1>1. ASSUME Inv PROVE TypeOK
    <2>1. /\ sorted \in Seq(Patches) /\ Range(sorted) \subseteq Patches
      BY <1>1, LenProperties DEF Inv, SortInv, SortTypes, Range
    <2>2. \A i \in DOMAIN stack : stack[i].node \in Unsorted /\ stack[i].deps \subseteq Unsorted
      <3> DEFINE R == [node : Unsorted, deps : SUBSET Unsorted]
      <3>1. stack \in Seq(R)
        BY <1>1 DEF Inv, SearchInv, StackIsPath
      <3>2. \A i \in DOMAIN stack : stack[i] \in R
        <4> HIDE DEF R
        <4> QED
          BY <3>1, LenProperties
      <3> QED
        BY <3>2
    <2>3. Range(cycle) \subseteq Unsorted
      <3>1. cycle \in Seq(Unsorted)
        BY <1>1, EmptySeq DEF Inv, SearchInv, CycleFound, Ring
      <3> QED
        BY <3>1, LenProperties DEF Range
    <2>4. tried \subseteq Unsorted
      BY <1>1 DEF Inv, SearchInv, StackIsPath
    <2> QED
      BY <1>1, <2>1, <2>2, <2>3, <2>4 DEF Inv, SortInv, SortTypes, ExecInv, ExecTypes, TypeOK
  <1>2. ASSUME Inv PROVE EachPatchOnce
    <2>1. ASSUME pc = "done" PROVE Range(applied) = Patches
      <3>1. applied \in Seq(Patches) /\ Range(applied) \subseteq Patches
        BY <1>2, LenProperties DEF Inv, ExecInv, ExecTypes, Range
      <3>2. \A l \in Lanes : left[l] = {}
        BY <1>2, <2>1 DEF Inv, ExecInv, ThreadsEnd, Lanes
      <3>3. ASSUME NEW p \in Patches PROVE p \in Range(applied)
        <4>1. PICK l \in Lanes : InLane(p, l)
          BY <1>2, OneLane DEF Inv
        <4> QED
          BY <1>2, <2>1, <3>2, <4>1 DEF Inv, ExecInv, LeftOrApplied, Compiled
      <3> QED
        BY <3>1, <3>3
    <2> QED
      BY <1>2, <2>1 DEF Inv, ExecInv, ExecTypes, BaseKept, EachPatchOnce
  <1>3. Inv => NothingLost
    BY <1>1, <1>2 DEF Inv, ExecInv, NothingLost
  <1> QED
    BY <1>3, Always, PTL
=============================================================================
