---------------------------- MODULE PatchPipeline ----------------------------
(* The patch compiler and the executor of clash-prism-core.  Patches of several *)
(* files refer to one another in __after__; the compiler resolves the           *)
(* references, sorts the patches (Kahn) or looks for the cycle that prevents it *)
(* (depth-first search), and the executor applies them: one after the other     *)
(* (mode "ordered": resolve_dependencies, then execute), or in two phases       *)
(* (mode "pipeline": compile_and_execute_pipeline): the profile groups on       *)
(* threads of their own, each on a copy of the base configuration, then the     *)
(* copies merged and the shared patches on top.                                 *)
(*                                                                              *)
(* A configuration is a function from the leaf paths it has to the patches that *)
(* made their value: deep_merge_json replaces a leaf (an array, a scalar)       *)
(* whole.  The sub-operations of a composite patch are applied as one.          *)
EXTENDS Naturals, FiniteSets, Sequences, SequencesExt, FiniteSetsExt

CONSTANTS
  Patches,      \* the registered patches
  FileMaps,     \* which file each patch may come from (files are ordered numbers)
  StemMaps,     \* the short name of each file (without .prism.yaml / .prism.yml)
  GroupNames,   \* the profile names, as a sequence in lexicographic order
  KeyOf,        \* the path of each patch
  BaseConfig,   \* the configuration the caller passes
  OrderedRefs, PipelineRefs  \* how many __after__ references a checked input has

Groups  == Range(GroupNames)
Shared  == {"global", "scoped", "runtime"}
Scopes  == Groups \cup Shared
Priority == [s \in Scopes |-> IF s = "global" THEN 1 ELSE IF s = "scoped" THEN 2
                              ELSE IF s = "runtime" THEN 3 ELSE 0]

Files == UNION {Range(f) : f \in FileMaps} \cup UNION {DOMAIN s : s \in StemMaps}

\* An __after__ entry: by full file name, by short name, or by patch id (0: nothing has it).
Refs == [from : Patches, by : {"file", "short"}, to : Files]
          \cup [from : Patches, by : {"id"}, to : Patches \cup {0}]

IsConfig(c) == DOMAIN c \subseteq Range(KeyOf) /\ \A k \in DOMAIN c : c[k] \in Seq(Patches)
ASSUME PatchesAreNumbers == Patches \subseteq Nat \ {0} /\ IsFiniteSet(Patches)
ASSUME FilesAreNumbers ==
  \A f \in FileMaps : /\ f \in [Patches -> Nat]
                      /\ \A s \in StemMaps : Range(f) \subseteq DOMAIN s
ASSUME NamesAreDistinct  == GroupNames \in Seq(Groups) /\ IsInjective(GroupNames)
                            /\ Groups \cap (Shared \cup {"caller"}) = {}
ASSUME PathsAreKnown     == DOMAIN KeyOf = Patches /\ IsConfig(BaseConfig)

VARIABLES
  mode, file, stem, scope, after,   \* the input
  pc, error,                        \* control of the calling thread
  degree, sorted,                   \* Kahn's in-degrees and its output
  stack, tried, cycle,              \* the search for a cycle
  config,                           \* the configuration being built
  left,                             \* patches to run, per profile group and for the calling thread
  copy, thread,                     \* per profile group: its copy, its thread
  applied,                          \* every patch executed, as time passes
  base                              \* the caller's configuration

input   == <<mode, file, stem, scope, after>>
kahn    == <<degree, sorted>>
search  == <<stack, tried, cycle>>
threads == <<left, copy, thread>>
vars    == <<input, pc, error, kahn, search, config, threads, applied, base>>

------------------------------------------------------------------------------
\* What the references stand for.

Registered == Range(file)
Ambiguous  == \E f, g \in Registered : f # g /\ stem[f] = stem[g]

\* The patches a reference names; a name that no registered file has names none.
Targets(r) == {p \in Patches : \/ r.by = "id"    /\ p = r.to
                               \/ r.by = "file"  /\ file[p] = r.to
                               \/ r.by = "short" /\ stem[file[p]] = r.to}

Edges(q, p) == {r \in after : r.from = q /\ p \in Targets(r)}
DependsOn(q, p) == Edges(q, p) # {}

InDegree(q) == Cardinality({e \in after \X Patches : e[1].from = q /\ e[2] \in Targets(e[1])})

\* MUTANT of Decrement: a patch named twice is discounted once.
MutDecrement(q, p) == IF DependsOn(q, p) THEN 1 ELSE 0
\* How often popping p decrements the degree of q: adj[p] lists q once for each edge.
Decrement(q, p) == Cardinality(Edges(q, p))

\* The queue: patches of degree 0 not yet popped.
Queue == {p \in Patches : degree[p] = 0 /\ p \notin Range(sorted)}

\* pop_first: least (file name, id); ids of one file are random, so any of them.
First(p) == p \in Queue /\ \A q \in Queue : file[p] <= file[q]

Unsorted == Patches \ Range(sorted)
CycleDeps(p) == {q \in Unsorted : DependsOn(p, q)}

------------------------------------------------------------------------------
Apply(c, p) == [k \in DOMAIN c \cup {KeyOf[p]} |->
                  IF k # KeyOf[p] THEN c[k]
                  ELSE Append(IF k \in DOMAIN c THEN c[k] ELSE <<>>, p)]

\* A scoped patch whose condition fails leaves the configuration alone, and is traced.
Outcomes(c, p) == {Apply(c, p)} \cup IF scope[p] = "scoped" THEN {c} ELSE {}

Position(s, p) == CHOOSE i \in DOMAIN s : s[i] = p

\* The lists of patches: one per profile, and the one of the calling thread: all of them in
\* the compiled order, or the shared ones.
Lanes == Groups \cup {"caller"}
\* MUTANT of InLane: runtime patches are forgotten.
MutInLane(p, l) == IF l = "caller" THEN mode = "ordered" \/ scope[p] \in {"global", "scoped"} ELSE scope[p] = l
InLane(p, l) == IF l = "caller" THEN mode = "ordered" \/ scope[p] \in Shared ELSE scope[p] = l
\* sort_by_key: by (priority, place in the compiled order); a profile has one priority.
Ahead(p, q) ==
  \/ Priority[scope[p]] < Priority[scope[q]]
  \/ Priority[scope[p]] = Priority[scope[q]] /\ Position(sorted, p) < Position(sorted, q)
IsNext(p, l) == p \in left[l] /\ \A q \in left[l] \ {p} : Ahead(p, q)

Running == {i \in DOMAIN GroupNames : \E p \in Patches : scope[p] = GroupNames[i]}

\* deep_merge_json, once for each profile in the order of their names: of a leaf the last
\* value stays.
Holders(k) == {i \in Running : k \in DOMAIN copy[GroupNames[i]]}
Merged == [k \in DOMAIN base \cup UNION {DOMAIN copy[GroupNames[i]] : i \in Running} |->
             IF Holders(k) = {} THEN base[k] ELSE copy[GroupNames[Max(Holders(k))]][k]]

Fail(e) == pc' = "failed" /\ error' = e

------------------------------------------------------------------------------
SmallSets(S, n) == {T \in UNION {{{}}, {{r} : r \in S}, {{r, s} : r \in S, s \in S}} :
                      Cardinality(T) <= n}

Init ==
  /\ mode \in {"ordered", "pipeline"}
  /\ file \in FileMaps
  /\ stem \in StemMaps
  /\ scope \in [Patches -> IF mode = "ordered" THEN {"global"} ELSE Scopes]
  /\ after \in SmallSets(Refs, IF Ambiguous THEN 0
                               ELSE IF mode = "ordered" THEN OrderedRefs ELSE PipelineRefs)
  /\ pc = "index" /\ error = "none"
  /\ degree = [p \in Patches |-> 0] /\ sorted = <<>>
  /\ stack = <<>> /\ tried = {} /\ cycle = <<>>
  /\ config = BaseConfig /\ base = BaseConfig
  /\ left = [l \in Lanes |-> {}] /\ copy = [g \in Groups |-> BaseConfig]
  /\ thread = [g \in Groups |-> "none"]
  /\ applied = <<>>

\* name_to_ids: two files of one short name are an error.
Index ==
  /\ pc = "index"
  /\ IF Ambiguous THEN Fail("ambiguous") ELSE pc' = "graph" /\ UNCHANGED error
  /\ UNCHANGED <<input, kahn, search, config, threads, applied, base>>

\* in_degree and adj; a reference that names nothing is an error.
BuildGraph ==
  /\ pc = "graph"
  /\ IF \E r \in after : Targets(r) = {}
       THEN Fail("missing") /\ UNCHANGED degree
       ELSE /\ pc' = "sort" /\ UNCHANGED error
            /\ degree' = [p \in Patches |-> InDegree(p)]
  /\ UNCHANGED <<input, sorted, search, config, threads, applied, base>>

Pop(p) ==
  /\ pc = "sort" /\ First(p)
  /\ sorted' = Append(sorted, p)
  /\ degree' = [q \in Patches |-> degree[q] - Decrement(q, p)]
  /\ UNCHANGED <<input, pc, error, search, config, threads, applied, base>>

\* The queue is empty: everything is sorted, or what is left contains a cycle.
Sorted ==
  /\ pc = "sort" /\ Queue = {}
  /\ pc' = IF Unsorted # {} THEN "cycle" ELSE IF mode = "ordered" THEN "run" ELSE "check"
  /\ left' = IF Unsorted # {} THEN left
             ELSE [l \in Lanes |-> {p \in Patches : InLane(p, l)}]
  /\ UNCHANGED <<input, error, kahn, search, config, copy, thread, applied, base>>

------------------------------------------------------------------------------
\* find_cycle_path: an explicit stack of nodes, each with the neighbours not yet looked
\* at; the candidates and the neighbours come in no particular order.

OnPath == {stack[i].node : i \in DOMAIN stack}

StartAt(p) ==
  /\ pc = "cycle" /\ stack = <<>> /\ p \in Unsorted \ tried
  /\ stack' = <<[node |-> p, deps |-> CycleDeps(p)]>>
  /\ tried' = tried \cup {p}
  /\ UNCHANGED <<input, pc, error, kahn, cycle, config, threads, applied, base>>

\* MUTANT of Seen: the branch already looked at is looked at again.
MutSeen(top, q) == stack
\* The stack after looking at neighbour q of its top, which is `top'.
Seen(top, q) == [stack EXCEPT ![Len(stack)] = [node |-> top.node, deps |-> top.deps \ {q}]]

LookAt(q) ==
  /\ pc = "cycle" /\ stack # <<>> /\ q \in Last(stack).deps
  /\ IF q = Head(stack).node
       THEN /\ Fail("cycle") /\ UNCHANGED stack
            /\ cycle' = Append([i \in DOMAIN stack |-> stack[i].node], q)
       ELSE /\ stack' = IF q \in OnPath THEN Seen(Last(stack), q)
                        ELSE Append(Seen(Last(stack), q), [node |-> q, deps |-> CycleDeps(q)])
            /\ UNCHANGED <<pc, error, cycle>>
  /\ UNCHANGED <<input, kahn, tried, config, threads, applied, base>>

\* The last candidate has not led back to itself: the error lists the unsorted patches.
MayGiveUp == tried = Unsorted

Backtrack ==
  /\ pc = "cycle" /\ stack # <<>> /\ Last(stack).deps = {}
  /\ stack' = Front(stack)
  /\ IF Len(stack) = 1 /\ MayGiveUp THEN Fail("cycle") ELSE UNCHANGED <<pc, error>>
  /\ UNCHANGED <<input, kahn, tried, cycle, config, threads, applied, base>>

------------------------------------------------------------------------------
\* get_patch_ids_for_file knows full names only: a short name gives no patches.
Checked(r) == IF r.by = "short" THEN {} ELSE Targets(r)

CrossGroup(r) == \E t \in Checked(r) : scope[t] \in Groups /\ scope[t] # scope[r.from]
\* MUTANT of CrossStage: no reference is looked at.
MutCrossStage(r) == FALSE
CrossStage(r) == \E t \in Checked(r) : scope[t] \in Shared
Rejected == \E r \in after : scope[r.from] \in Groups /\ (CrossGroup(r) \/ CrossStage(r))

Check ==
  /\ pc = "check"
  /\ IF Rejected THEN Fail("cross") /\ UNCHANGED thread
     ELSE /\ pc' = "profiles" /\ UNCHANGED error
          /\ thread' = [g \in Groups |-> IF \E i \in Running : GroupNames[i] = g THEN "running" ELSE "none"]
  /\ UNCHANGED <<input, kahn, search, config, left, copy, applied, base>>

\* One thread per group, on its own copy; an error or a panic ends that thread only.
ProfileStep(g) ==
  /\ pc = "profiles" /\ thread[g] = "running"
  /\ \E p \in Patches :
       /\ IsNext(p, g)
       /\ copy' = [copy EXCEPT ![g] = Apply(@, p)]
       /\ left' = [left EXCEPT ![g] = @ \ {p}]
       /\ applied' = Append(applied, p)
  /\ UNCHANGED <<input, pc, error, kahn, search, config, thread, base>>

ProfileFails(g) ==
  /\ pc = "profiles" /\ thread[g] = "running" /\ left[g] # {}
  /\ thread' = [thread EXCEPT ![g] = "failed"]
  /\ UNCHANGED <<input, pc, error, kahn, search, config, left, copy, applied, base>>

ProfileEnds(g) ==
  /\ pc = "profiles" /\ thread[g] = "running" /\ left[g] = {}
  /\ thread' = [thread EXCEPT ![g] = "ok"]
  /\ UNCHANGED <<input, pc, error, kahn, search, config, left, copy, applied, base>>

\* The scope joins every thread; the copies are merged in the order of the group names.
Join ==
  /\ pc = "profiles" /\ \A g \in Groups : thread[g] # "running"
  /\ IF \E g \in Groups : thread[g] = "failed"
       THEN Fail("exec") /\ UNCHANGED config
       ELSE pc' = "run" /\ UNCHANGED error /\ config' = Merged
  /\ UNCHANGED <<input, kahn, search, threads, applied, base>>

------------------------------------------------------------------------------
\* The calling thread: execute, or phase 2.
RunStep ==
  /\ pc = "run"
  /\ \E p \in Patches :
       /\ IsNext(p, "caller")
       /\ config' \in Outcomes(config, p)
       /\ left' = [left EXCEPT !["caller"] = @ \ {p}]
       /\ applied' = Append(applied, p)
  /\ UNCHANGED <<input, pc, error, kahn, search, copy, thread, base>>

RunFails ==
  /\ pc = "run" /\ left["caller"] # {}
  /\ Fail("exec")
  /\ UNCHANGED <<input, kahn, search, config, threads, applied, base>>

\* *base_config = merged_config, after everything has succeeded
Finish ==
  /\ pc = "run" /\ left["caller"] = {}
  /\ pc' = "done" /\ base' = config
  /\ UNCHANGED <<input, error, kahn, search, config, threads, applied>>

Stopped == pc \in {"done", "failed"} /\ UNCHANGED vars

Next ==
  \/ Index \/ BuildGraph \/ Sorted \/ Backtrack \/ Check \/ Join
  \/ RunStep \/ RunFails \/ Finish \/ Stopped
  \/ \E p \in Patches : Pop(p) \/ StartAt(p) \/ LookAt(p)
  \/ \E g \in Groups : ProfileStep(g) \/ ProfileFails(g) \/ ProfileEnds(g)

Spec == Init /\ [][Next]_vars
FairSpec == Spec /\ WF_vars(Next)

------------------------------------------------------------------------------
\* Types.  (PatchCompiler and PatchExecutor)
TypeOK ==
  /\ pc \in {"index", "graph", "sort", "cycle", "check", "profiles", "run", "done", "failed"}
  /\ error \in {"none", "ambiguous", "missing", "cycle", "cross", "exec"}
  /\ (error = "none") = (pc # "failed")
  /\ degree \in [Patches -> Nat]
  /\ IsInjective(sorted) /\ Range(sorted) \subseteq Patches
  /\ \A i \in DOMAIN stack : stack[i].node \in Unsorted /\ stack[i].deps \subseteq Unsorted
  /\ tried \subseteq Unsorted /\ Range(cycle) \subseteq Unsorted
  /\ IsConfig(config) /\ IsConfig(base)
  /\ \A g \in Groups : IsConfig(copy[g])
  /\ left \in [Lanes -> SUBSET Patches]
  /\ thread \in [Groups -> {"none", "running", "ok", "failed"}]
  /\ applied \in Seq(Patches)

\* What the code keeps of a reference r to t: not the order of two shared patches when
\* the one named runs in a later stage, and not what a profile patch says by short name,
\* because the cross-group and cross-stage checks see full names and ids only.
Kept(r, t) ==
  \/ mode = "ordered"
  \/ scope[r.from] \in Shared /\ Priority[scope[r.from]] >= Priority[scope[t]]
  \/ scope[r.from] \in Groups /\ (r.by = "short" => scope[t] = scope[r.from])

\* A patch runs after everything its __after__ names, whichever thread runs it: the sort,
\* the rejection of cross-group and cross-stage references and the stage order together
\* leave no other way.  (topological_sort, compile_and_execute_pipeline, execute_pipeline)
DepsRespected ==
  \A r \in after : \A t \in Targets(r) :
    r.from \in Range(applied) /\ Kept(r, t) =>
      t \in Range(applied) /\ Position(applied, t) < Position(applied, r.from)

\* Files keep their order: a patch of a later file precedes one of an earlier file only
\* when the latter waited for something sorted in between.  (topological_sort's queue)
FileOrder ==
  \A i, j \in DOMAIN sorted : i < j /\ file[sorted[i]] > file[sorted[j]] =>
    \E k \in i..(j - 1) : DependsOn(sorted[j], sorted[k])

\* The compiler reports a cycle exactly when there is one: a set of patches each of which
\* waits for another of the set; however often a patch is named, by file and by id, it is
\* counted and discounted equally.  (topological_sort)
CycleExact ==
  pc \notin {"index", "graph", "sort"} /\ error \notin {"ambiguous", "missing"} =>
    ((pc = "cycle" \/ error = "cycle") <=>
       \E S \in (SUBSET Patches) \ {{}} : \A p \in S : \E q \in S : DependsOn(p, q))

\* The reported path is a real cycle, closed, without a patch in it twice: the search
\* never falls back to listing whatever is left.  (find_cycle_path)
CycleGenuine ==
  error = "cycle" =>
    /\ Len(cycle) > 1 /\ Head(cycle) = Last(cycle) /\ IsInjective(Front(cycle))
    /\ \A i \in 1..(Len(cycle) - 1) : DependsOn(cycle[i], cycle[i + 1])

\* A run that succeeds has executed every registered patch exactly once, and leaves the
\* caller's configuration alone otherwise.  (compile_and_execute_pipeline, execute)
EachPatchOnce ==
  /\ IsInjective(applied)
  /\ pc = "done" => Range(applied) = Patches
  /\ pc # "done" => base = BaseConfig

\* After the merge every change of a profile is there, unless a profile later in name
\* order holds a value of its own at that path.  (execute_pipeline, deep_merge_json)
MergeKeeps ==
  pc = "run" /\ mode = "pipeline" =>
    \A i \in Running : \A p \in Patches :
      /\ scope[p] = GroupNames[i]
      /\ \A j \in Running : j > i => KeyOf[p] \notin DOMAIN copy[GroupNames[j]]
      => KeyOf[p] \in DOMAIN config /\ p \in Range(config[KeyOf[p]])

\* Patches run in the order the files and their references demand. (topological_sort, the checks
\* before the pipeline, execute_pipeline)
OrderKept == DepsRespected /\ FileOrder
\* A cycle is reported when there is one, and the path shown is one. (topological_sort,
\* find_cycle_path)
CyclesFound == CycleExact /\ CycleGenuine
\* Sorting, threads and merges lose and repeat nothing. (execute, execute_pipeline)
NothingLost == TypeOK /\ EachPatchOnce /\ MergeKeeps

\* Whatever the references are, the sort, the search for a cycle and the threads come to
\* an end.  (resolve_dependencies, find_cycle_path, execute_pipeline)
Terminates == <>(pc \in {"done", "failed"})

==============================================================================
