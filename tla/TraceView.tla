------------------------------ MODULE TraceView ------------------------------
(* What a user is told of a run: the TraceManager of trace.rs (import, explain, *)
(* statistics, affected paths) and the trace calls of the extension, over the   *)
(* traces that PatchOps leaves.  An item here is a text, as the rules are.  The  *)
(* times of a trace are left out: the executor writes 0 in every one.            *)
EXTENDS PatchOps

AnyItem == "any item"
Unnamed == "?"

Ended == todo = <<>> /\ place = Len(program)

\* The ExecutionTrace of every operation of a patch, in the order they ran; and those of the first n patches.
TracesOf(prog, n) == [k \in DOMAIN prog[n].ops |-> [patch |-> n, op |-> AllOps(prog[n].ops)[k]]]
LogUpTo(prog) ==
  LET upto[n \in 0..Len(prog)] == IF n = 0 THEN <<>> ELSE upto[n - 1] \o TracesOf(prog, n)
  IN  upto
TraceLog == LogUpTo(program)[Len(program)]

\* Traces and patches go into a TraceManager only if there are as many of both.
Importable == Len(traces) = Len(program)
TraceReport == IF traces = <<>> THEN "empty" ELSE IF Importable THEN "report" ELSE "error"

\* affected_items of the i-th trace.  What is added is described by its text; what is removed
\* or rewritten by the name it has as an object, and a text has none.
Adds(i) == LET e == TraceLog[i] q == program[e.patch] IN
  IF q.matched /\ ~Guarded(q.path) /\ e.op.op \in {"prepend", "append"} THEN NewItems(e.op.val) ELSE <<>>
Drops(i) == [k \in 1..traces[i].removed |-> Unnamed]
Rewrites(i) == [k \in 1..traces[i].modified |-> Unnamed]

\* condition_matched of the i-th trace.
Succeeded(i) == program[TraceLog[i].patch].matched

\* MUTANT of Affects: a path below the one asked for says nothing of it.
MutAffects(written, asked) == IsPrefix(written, asked)
\* trace_affects_path: the same path, one above it or one below it.
Affects(written, asked) == IsPrefix(written, asked) \/ IsPrefix(asked, written)

\* explain_field: the patches of the traces to show for a path, and for an item of it.  A source
\* without a file (a plugin, a script, the visual editor, the engine) is passed over.
Explain(asked, item) ==
  LET Shown == {i \in DOMAIN TraceLog :
         /\ Succeeded(i) /\ program[TraceLog[i].patch].filed
         /\ Affects(program[TraceLog[i].patch].path, asked)
         /\ item \in {AnyItem} \cup Range(Adds(i) \o Drops(i) \o Rewrites(i))}
  IN  {TraceLog[i].patch : i \in Shown}

\* statistics, for the report: of the traces, though its fields speak of patches.
AllAdded == Total([i \in DOMAIN traces |-> traces[i].added])
AllRemoved == Total([i \in DOMAIN traces |-> traces[i].removed])
Statistics ==
  [total     |-> Len(traces),
   succeeded |-> Cardinality({i \in DOMAIN traces : Succeeded(i)}),
   skipped   |-> Cardinality({i \in DOMAIN traces : ~Succeeded(i)}),
   added     |-> AllAdded,
   removed   |-> AllRemoved]

\* build_compile_stats_from, for apply() and get_stats: counted once more.
CompileStats ==
  LET ok == Len(Chosen(TraceLog, {i \in DOMAIN TraceLog : Succeeded(i)})) IN
  [total |-> Len(traces), succeeded |-> ok, skipped |-> Len(traces) - ok,
   added |-> AllAdded, removed |-> AllRemoved]

\* affected_paths: of every patch, the ones passed over too.
AffectedPaths == {program[n].path : n \in DOMAIN program}

\* get_trace: the first trace of a patch.
FirstTrace(n) == CHOOSE i \in DOMAIN TraceLog : TraceLog[i].patch = n /\ \A j \in 1..i - 1 : TraceLog[j].patch # n
GetTrace(n) == LET i == FirstTrace(n) IN
  [matched |-> program[n].matched, summary |-> traces[i], added |-> Adds(i), removed |-> Drops(i)]

------------------------------------------------------------------------------
ArrayAt(c, p) == IF IsArray(c, p) THEN Range(Get(c, p).items) ELSE {}

\* Asked why a path is as it is, the manager names every patch of a file that changed it, above
\* or below; asked for an item, every patch of a file without which the item would not have come
\* in; a patch of another source is never named, whatever it changed; and nothing changes outside
\* the affected paths.  (explain_field, affected_paths)
ExplainComplete ==
  \A p \in Paths : \A n \in DOMAIN snapshots :
    /\ Get(Before(n), p) # Get(snapshots[n], p) => \E q \in AffectedPaths : Affects(q, p)
    /\ program[n].filed =>
         /\ Get(Before(n), p) # Get(snapshots[n], p) => n \in Explain(p, AnyItem)
         /\ \A x \in ArrayAt(snapshots[n], p) \ ArrayAt(Before(n), p) :
              (\A o \in Range(program[n].ops) : o.op \in {"prepend", "append", "filter", "remove"}) =>
                n \in Explain(p, x)
    /\ ~program[n].filed => \A x \in {AnyItem} \cup ArrayAt(snapshots[n], p) : n \notin Explain(p, x)

GrownAt(p) == Length(config, p) - Length(base, p)

\* Both count alike, and added less removed is by how much the arrays of the configuration
\* grew, if no patch replaced one.  (statistics, build_compile_stats_from)
StatisticsTrue ==
  /\ CompileStats = Statistics
  /\ (\A n \in DOMAIN program : \A o \in Range(program[n].ops) : o.op \in ListOps) =>
    Statistics.added - Statistics.removed =
      GrownAt(<<"rules">>) + GrownAt(<<"authentication">>) + GrownAt(<<"dns">>) + GrownAt(<<"dns", "list">>)

\* The trace shown of a patch of one array operation on an array tells what it did to it.  (get_trace)
TraceShown ==
  \A n \in DOMAIN program : LET q == program[n] IN
    q.matched /\ ~Guarded(q.path) /\ Len(q.ops) = 1 /\ q.ops[1].op \in ListOps /\ IsArray(Before(n), q.path) =>
      /\ Length(snapshots[n], q.path) - Length(Before(n), q.path)
           = Len(GetTrace(n).added) - Len(GetTrace(n).removed)
      /\ Range(GetTrace(n).added) \subseteq ArrayAt(snapshots[n], q.path)

\* A report is refused exactly when some patch has more than one operation.  (trace_report, import)
ReportRefused == TraceReport = "error" <=> \E n \in DOMAIN program : Len(program[n].ops) > 1

ViewsTrue == Ended => ExplainComplete /\ StatisticsTrue /\ TraceShown /\ ReportRefused
=============================================================================
