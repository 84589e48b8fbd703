------------------------------ MODULE PatchOps ------------------------------
(* The eight operations of the patch executor of clash-prism-core, the traces  *)
(* they leave, and the replay of a run from its patches (trace.rs), which is   *)
(* an implementation of its own.  A program of patches runs on a configuration *)
(* one sub-operation per step.                                                 *)
(*                                                                             *)
(* A JSON value is a record: its kind, the items of an array (or the one item  *)
(* that stands for a scalar), and for an object the value of its field "list", *)
(* if it has one.  The root is an object.                                      *)
EXTENDS Lists, SequencesExt

CONSTANTS
  Items,      \* elements of arrays
  Pred,       \* item -> "yes", "no", "error": the predicate of $filter and $remove
  Rewrite,    \* item -> item or "error": the expression of $transform
  Bases,      \* base configurations
  Programs    \* sequences of patches, in compiled order

ASSUME OpsAssumption ==
  /\ Pred \in [Items -> {"yes", "no", "error"}]
  /\ Rewrite \in [Items -> Items \cup {"error"}]
  /\ "error" \notin Items

\* Root fields; "dns.list" as one key exists only where $override put it by mistake.
Keys == {"rules", "dns", "authentication", "dns.list"}
Paths == {<<"rules">>, <<"dns">>, <<"dns", "list">>, <<"authentication">>}

JSON(k, i, s) == [kind |-> k, items |-> i, sub |-> s]
Absent    == JSON("absent", <<>>, <<>>)
Null      == JSON("null", <<>>, <<>>)
EmptyObj  == JSON("object", <<>>, <<>>)
Scalar(i) == JSON("scalar", <<i>>, <<>>)
Arr(s)    == JSON("array", s, <<>>)
Obj(v)    == JSON("object", <<>>, <<v>>)

\* A value; an array or an object may be empty, and what an object holds is a value again.
IsJSON(v) == /\ v.kind \in {"absent", "null", "scalar", "array", "object"}
             /\ v.items \in Seq(Items)
             /\ v.kind # "array" => Len(v.items) = (IF v.kind = "scalar" THEN 1 ELSE 0)
             /\ v.kind # "object" => v.sub = <<>>
IsField(v) == /\ IsJSON(v)
              /\ v.sub # <<>> => Len(v.sub) = 1 /\ IsJSON(v.sub[1]) /\ v.sub[1].kind # "absent"
IsConfig(c) == DOMAIN c = Keys /\ \A k \in Keys : IsField(c[k])
ASSUME BasesAreRoots == \A b \in Bases : IsConfig(b)

Ops == {"filter", "remove", "transform", "default", "prepend", "append", "merge", "override"}
\* Operations under one key: each at most once, a merge or an override alone; what is to be put
\* into an array is one or an item.  (compile_path_group, with_sub_ops)
IsList(s) == s \in Seq(Range(s))
IsOperation(o) ==
  /\ o.op \in Ops /\ IsField(o.val)
  /\ o.op \in {"default", "merge", "override"} => o.val.kind # "absent"
  /\ o.op \in {"prepend", "append"} => o.val.kind \in {"array", "scalar"}
IsPatch(q) ==
  /\ q.path \in Paths /\ q.matched \in BOOLEAN /\ q.condition \in BOOLEAN /\ q.filed \in BOOLEAN
  /\ IsList(q.ops) /\ q.ops # <<>> /\ \A n \in DOMAIN q.ops : IsOperation(q.ops[n])
  /\ \A n, k \in DOMAIN q.ops : q.ops[n].op = q.ops[k].op => n = k
  /\ \A n \in DOMAIN q.ops : q.ops[n].op \in {"merge", "override"} => Len(q.ops) = 1
IsProgram(prog) == IsList(prog) /\ \A n \in DOMAIN prog : IsPatch(prog[n])
ASSUME ProgramsArePatches == \A prog \in Programs : IsProgram(prog)

VARIABLES
  base, program,  \* the input
  config,         \* the configuration being changed
  place,            \* patches taken so far
  todo,           \* sub-operations of the current patch still to run
  traces,         \* one per sub-operation
  snapshots,      \* the configuration after each patch
  alike           \* history: no step so far is one that replay does otherwise

vars == <<base, program, config, place, todo, traces, snapshots, alike>>

------------------------------------------------------------------------------
\* is_guarded_path: the fields of the external controller, here "authentication".
Guarded(p) == p[1] = "authentication"

\* get_json_path; get_or_create_json_path_mut reaches p unless a value on the way is
\* no object.
Get(c, p) == IF Len(p) = 1 THEN c[p[1]]
             ELSE IF c[p[1]].sub = <<>> THEN Absent ELSE c[p[1]].sub[1]
Creatable(c, p) == Len(p) = 1 \/ c[p[1]].kind \in {"absent", "object"}
Put(c, p, v) == [c EXCEPT ![p[1]] = IF Len(p) = 1 THEN v ELSE Obj(v)]

IsArray(c, p) == Get(c, p).kind = "array"

\* deep_merge_json: objects field by field, anything else is replaced.
MergeObj(b, o) ==
  IF o.sub = <<>> THEN b
  ELSE IF b.sub # <<>> /\ b.sub[1].kind = "object" /\ o.sub[1].kind = "object" THEN b
  ELSE o
DeepMerge(b, o) == IF b.kind = "object" /\ o.kind = "object" THEN MergeObj(b, o) ELSE o

NewItems(v) == IF v.kind = "array" THEN v.items ELSE <<v.items[1]>>

Kept(op, x) == IF op = "filter" THEN Pred[x] # "no" ELSE Pred[x] # "yes"
Rewritten(x) == IF Rewrite[x] = "error" THEN x ELSE Rewrite[x]

\* What an array operation makes of the array s.
ListOps == {"filter", "remove", "transform", "prepend", "append"}
OnList(o, s) ==
  IF o.op \in {"filter", "remove"} THEN Chosen(s, {k \in DOMAIN s : Kept(o.op, s[k])})
  ELSE IF o.op = "transform" THEN [k \in DOMAIN s |-> Rewritten(s[k])]
  ELSE IF o.op = "prepend" THEN NewItems(o.val) \o s
  ELSE s \o NewItems(o.val)

ExecList(c, p, o) == IF IsArray(c, p) THEN Put(c, p, Arr(OnList(o, Get(c, p).items))) ELSE c
ExecDefault(c, p, o) ==
  IF Creatable(c, p) /\ Get(c, p).kind \in {"absent", "null"} THEN Put(c, p, o.val) ELSE c
ExecMerge(c, p, o) ==
  IF Creatable(c, p)
    THEN Put(c, p, DeepMerge(IF Get(c, p) = Absent THEN EmptyObj ELSE Get(c, p), o.val)) ELSE c
ExecOverride(c, p, o) ==
  IF Creatable(c, p) THEN Put(c, p, o.val) ELSE [c EXCEPT !["dns.list"] = o.val]

\* apply_patch_in_place, its scope already matched.
Exec(c, p, o) ==
  IF Guarded(p) THEN c
  ELSE IF o.op \in ListOps THEN ExecList(c, p, o)
  ELSE IF o.op = "default" THEN ExecDefault(c, p, o)
  ELSE IF o.op = "merge" THEN ExecMerge(c, p, o)
  ELSE ExecOverride(c, p, o)

\* MUTANT of ExecutionOrder: $default after $prepend and $append, as the header of executor.rs lists them.
MutExecutionOrder ==
  [filter |-> 0, remove |-> 1, transform |-> 2, prepend |-> 3, append |-> 4, default |-> 5, merge |-> 6, override |-> 7]
\* The order of a composite patch (execution_order).
ExecutionOrder ==
  [filter |-> 0, remove |-> 1, transform |-> 2, default |-> 3, prepend |-> 4, append |-> 5, merge |-> 6, override |-> 7]

\* all_ops: a stable sort of the sub-operations as they are listed.
AllOps(s) == SortedBy(s, [n \in DOMAIN s |-> ExecutionOrder[s[n].op]])

\* The counts of a trace for the array operations, and how many items it lists as affected:
\* $prepend and $append list their items even when there is no array to take them.
Length(c, p) == IF IsArray(c, p) THEN Len(Get(c, p).items) ELSE 0
Added(c, p, o) == IF o.op \in {"prepend", "append"} /\ IsArray(c, p) THEN Len(NewItems(o.val)) ELSE 0
Removed(c, p, o) ==
  IF o.op \in {"filter", "remove"} /\ IsArray(c, p)
    THEN Cardinality({k \in DOMAIN Get(c, p).items : ~Kept(o.op, Get(c, p).items[k])}) ELSE 0
Modified(c, p, o) ==
  IF o.op = "transform" /\ IsArray(c, p)
    THEN Cardinality({k \in DOMAIN Get(c, p).items : Rewrite[Get(c, p).items[k]] # "error"}) ELSE 0
Affected(c, p, o) ==
  IF o.op \in {"prepend", "append"} THEN Len(NewItems(o.val))
  ELSE Removed(c, p, o) + Modified(c, p, o)

Skipped == [added |-> 0, removed |-> 0, modified |-> 0, affected |-> 0]
Summary(c, p, o) ==
  IF Guarded(p) \/ o.op \notin ListOps THEN Skipped
  ELSE [added |-> Added(c, p, o), removed |-> Removed(c, p, o),
        modified |-> Modified(c, p, o), affected |-> Affected(c, p, o)]

------------------------------------------------------------------------------
\* trace.rs: apply_single_op, the replay's own version of the operations.
ReplaySkips(p, o) == Guarded(p) /\ o.op \notin {"merge", "override"}

ReplayKept(op, x) == IF op = "filter" THEN Pred[x] # "no" ELSE Pred[x] = "no"
ReplayOnList(o, s) == IF o.op \in {"filter", "remove"}
                        THEN Chosen(s, {k \in DOMAIN s : ReplayKept(o.op, s[k])}) ELSE OnList(o, s)

ReplayMerge(c, p, o) == IF Get(c, p) = Absent THEN c ELSE Put(c, p, DeepMerge(Get(c, p), o.val))
ReplayOverride(c, p, o) == IF Creatable(c, p) THEN Put(c, p, o.val) ELSE c

ReplayOp(c, p, o) ==
  IF ReplaySkips(p, o) THEN c
  ELSE IF o.op \in ListOps
    THEN IF IsArray(c, p) THEN Put(c, p, Arr(ReplayOnList(o, Get(c, p).items))) ELSE c
  ELSE IF o.op = "default" THEN ExecDefault(c, p, o)
  ELSE IF o.op = "merge" THEN ReplayMerge(c, p, o)
  ELSE ReplayOverride(c, p, o)

\* replay_at_step: patches whose scope or whose own condition fails are passed over.
ReplayOps(c, q) ==
  LET upto[n \in 0..Len(q.ops)] == IF n = 0 THEN c ELSE ReplayOp(upto[n - 1], q.path, AllOps(q.ops)[n])
  IN  upto
ReplayPatch(c, q) == IF q.matched /\ q.condition THEN ReplayOps(c, q)[Len(q.ops)] ELSE c
Replay(b, prog) ==
  LET upto[n \in 0..Len(prog)] == IF n = 0 THEN b ELSE ReplayPatch(upto[n - 1], prog[n]) IN upto
ReplayAt(n) == Replay(base, program)[n]

------------------------------------------------------------------------------
Init ==
  /\ base \in Bases /\ program \in Programs
  /\ config = base /\ place = 0 /\ todo = <<>>
  /\ traces = <<>> /\ snapshots = <<>> /\ alike = TRUE

Current == program[place]

\* prepare_sub_patches
TakePatch ==
  /\ todo = <<>> /\ place < Len(program)
  /\ place' = place + 1 /\ todo' = AllOps(program[place + 1].ops)
  /\ UNCHANGED <<base, program, config, traces, snapshots, alike>>

\* The steps that replay takes otherwise: a condition of the patch itself, which only
\* replay evaluates; guarded fields, which replay's merge and override do not spare; a
\* merge that has to create its target; an override below a value that is no object;
\* a $remove whose predicate fails on an item.
ReplayDiffers(c, q, o) ==
  \/ ~q.condition
  \/ Guarded(q.path) /\ o.op \in {"merge", "override"}
  \/ o.op = "merge" /\ Get(c, q.path) = Absent
  \/ o.op = "override" /\ ~Creatable(c, q.path)
  \/ o.op = "remove" /\ \E x \in Range(Get(c, q.path).items) : Pred[x] = "error"

RunOp ==
  /\ todo # <<>>
  /\ config' = IF Current.matched THEN Exec(config, Current.path, Head(todo)) ELSE config
  /\ traces' = Append(traces, IF Current.matched THEN Summary(config, Current.path, Head(todo))
                                                 ELSE Skipped)
  /\ todo' = Tail(todo)
  /\ snapshots' = IF Len(todo) = 1 THEN Append(snapshots, config') ELSE snapshots
  /\ alike' = (alike /\ ~(Current.matched /\ ReplayDiffers(config, Current, Head(todo))))
  /\ UNCHANGED <<base, program, place>>

Finished == todo = <<>> /\ place = Len(program) /\ UNCHANGED vars

Next == TakePatch \/ RunOp \/ Finished
Spec == Init /\ [][Next]_vars

------------------------------------------------------------------------------
\* Types; the root keeps its fields and a value never turns malformed.  (PatchExecutor)
TypeOK ==
  /\ IsConfig(config)
  /\ place \in 0..Len(program) /\ Len(snapshots) = (IF todo = <<>> THEN place ELSE place - 1)
  /\ alike \in BOOLEAN
  /\ \A n \in DOMAIN traces : traces[n] \in [added: Nat, removed: Nat, modified: Nat, affected: Nat]

Before(n) == IF n = 1 THEN base ELSE snapshots[n - 1]

\* No program of patches, whatever its operations, changes what the external controller
\* owns.  (GUARDED_FIELDS, apply_patch_in_place and the checks of merge and override)
GuardedKept == config["authentication"] = base["authentication"]

\* Where there was nothing, the $default array of a composite patch is in place before its
\* $prepend and $append run: their items end up in the array.  (execution_order, prepare_sub_patches)
DefaultsFeedLists ==
  \A n \in DOMAIN snapshots : LET q == program[n] IN
    /\ q.matched /\ ~Guarded(q.path) /\ Creatable(Before(n), q.path)
    /\ Get(Before(n), q.path).kind \in {"absent", "null"}
    /\ \E d \in Range(q.ops) : d.op = "default" /\ d.val.kind = "array"
    => \A o \in Range(q.ops) : o.op \in {"prepend", "append"} =>
         Range(NewItems(o.val)) \subseteq Range(Get(snapshots[n], q.path).items)

\* An expression that fails on an item never costs it: whatever array operations a patch
\* combines, the items its expressions fail on are still there.  (execute_filter_in_place,
\* execute_remove_in_place, execute_transform_in_place)
FailingItemsStay ==
  \A n \in DOMAIN snapshots :
    {o.op : o \in Range(program[n].ops)} \subseteq ListOps =>
      \A x \in Range(Get(Before(n), program[n].path).items) :
        Pred[x] = "error" /\ Rewrite[x] = "error" =>
          x \in Range(Get(snapshots[n], program[n].path).items)

\* What the trace of a step counts as added and removed is by how much the array grew, and
\* it lists as many affected items as it counts, if there was an array.  (TraceSummary)
SummaryExact ==
  [][ todo # <<>> /\ Current.matched /\ Head(todo).op \in ListOps => LET p == Current.path IN
        /\ Length(config', p) - Length(config, p) = Last(traces').added - Last(traces').removed
        /\ IsArray(config, p) /\ ~Guarded(p) =>
             Last(traces').affected = Last(traces').added + Last(traces').removed + Last(traces').modified
    ]_<<config, traces>>

\* As long as no step is one of ReplayDiffers, the replay of the patches up to any step
\* gives the configuration the run had there.  (replay_at_step, apply_single_op)
ReplayAgrees ==
  alike => \A n \in DOMAIN snapshots : ReplayAt(n) = snapshots[n]

\* The operations do what the documentation of their order, of failing expressions, of replay
\* and of traces says, all of it at once.  (executor.rs, trace.rs)
OpsSound == [](TypeOK /\ GuardedKept /\ DefaultsFeedLists /\ FailingItemsStay /\ ReplayAgrees) /\ SummaryExact

=============================================================================
