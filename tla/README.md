# TLA+ models of Clash Prism Engine

Models, model-checking configurations and machine-checked proofs for the parts of
Prism Engine in which order, concurrency, failure or a second implementation of the
same rules decide whether the program is right. Every definition is translated from
the Rust sources; `PROJECT.json` ("map") names the file and lines of each.

    tlc -workers 2 -config PidLock.cfg PidLock      # model-check one configuration
    tlapm PidLockProofs.tla                         # check the proofs of one module

Sections: 1 the system, 2 what is modelled, 3 the runs, 4 where code and documentation
disagree, 5 proofs, 6 what could come next, 7 what is not modelled.

## 1. The system

Prism turns `.prism.yaml` files (the DSL) and scripts into *patches*, orders them by
their `__after__` references, applies them to a base configuration of a proxy core and
writes the result back, either from the command line or embedded in a GUI.

| component (crate) | state it keeps | operations | interacts with | what is hard | what makes it correct |
|---|---|---|---|---|---|
| patch compiler and executor (`core/compiler.rs`, `executor.rs`) | registered patches, file maps; per run: in-degrees, DFS stack, one configuration copy per profile thread | register, resolve_dependencies, compile_and_execute_pipeline, execute | DSL, scripts and extension feed it; scope and IR define its order | cycle search, threads per profile, failure of one thread, three notions of order (files, references, scopes) | references hold on every execution, cycles are reported exactly, each patch runs once, failure leaves the caller's configuration alone |
| patch operations, traces, replay (`core/executor.rs`, `trace.rs`, `ir.rs`, `json_path.rs`) | the configuration, traces | eight operations, composite patches, replay_at_step | executor above; explain and diff views read traces | a replay written a second time; failing expressions; guarded fields checked per operation | guarded fields survive, traces count what happened, replay gives what the run gave |
| DSL (`dsl/parser.rs`) | none | parse files to patches | compiler | conflict rules between operations under one key | no operation written by the user is lost silently |
| expressions (`core/executor/expr.rs`) | a depth counter | evaluate_predicate, evaluate_transform_expr | operations above | operators searched as text, several syntaxes that overlap, a depth limit | an expression means what its tree means |
| scopes (`core/scope.rs`, `executor.rs`) | none | compile_when, check_patch_condition | DSL, executor | wrapping time ranges, unknown context | a patch applies exactly where `__when__` says |
| validator (`core/validator.rs`), target (`core/target.rs`) | the output file, its temporary file; the kernel process | validate; adapt, compact, write, reload | file system, kernel | cycle search from any start; write, then tell | the verdict names the defects; the kernel understands what it reads |
| migrations (`core/migration.rs`) | version of the configuration | run_migrations | – | a failure in the middle | the next run goes on from there |
| caches (`core/cache.rs`) | entries under a mutex; files on disk | get, insert, invalidate; get, set, cleanup | file modification times | a value computed before it is stored; two writers of one file | never more than the capacity; never an outdated or torn hit |
| file watcher of the CLI (`core/watcher/mod.rs`) | event queue, debounce buffer | watch loop, batch compile, initial scan | compiler, target, terminal input | debounce against a steady stream of events, a batch in which one file fails, crashes | every change is compiled in the end; the output is replaced whole |
| node failure tracker (`core/failover.rs`) | failures per node, cooldowns | report, reset | a GUI | thresholds, cooldown boundaries, eviction | a switch is earned and rare |
| extension (`extension/extension.rs`) | `state`, `watcher_result`, `parse_cache` behind three locks; the host's configuration | apply, insert_rule, toggle_group, status and views | host callbacks, files, its own watcher instance | a call releases every lock between its steps; two instances share two of the locks; caches | what the extension remembers is what the host runs; annotations point at the right rules; user rules are not lost |
| watcher thread of the extension | `watcher_running`, the handle slot, a notification channel per thread | start_watching, stop_watching, the thread's loop | file system notifications, apply | one flag for all threads ever started; joins with a budget; drained notifications | one watcher at a time, it ends when told, only when told, and no change is missed |
| cron scheduler of plugins (`plugin/cron_scheduler.rs`) | `tasks`, `running`, `handles`, shutdown channel, one coroutine per task | register, unregister, start, shutdown | tokio, plugin callbacks | guards held across awaits, select! between sleep and shutdown, a 30 s join budget, callbacks that panic | callbacks of a task never overlap, few strays after removal, calls return |
| cron expressions and hook schedule (`cron_scheduler.rs`, `hook.rs`, `loader.rs`) | scheduled hooks | parse, next_after, poll, mark | plugins | three readers of one syntax, two searches with jumps | the first match is found, a poll answers exactly the hooks due at it |
| plugin loader and lifecycle (`loader.rs`, `lifecycle.rs`) | loaded plugins; states and hook registry | discover, load, register, suspend, resume, unload, execute_hook | files, scripts | two tables kept by two objects, calls in any order | tables agree, an entry script runs once, only verified text runs |
| scripts (`script/runtime.rs`, `api.rs`) | KvStore, limit flags shared by calls, patch collector | execute, execute_with_write, kv, config, utils | plugins, compiler | redb faults and crashes, a timer racing the end, callbacks that call back | quota and durability hold; a call is blamed only for its own limit |
| smart selector (`smart/`) | history window, statistics | record, trim, rank, next_interval | GUI runtime | early returns that leave statistics behind, bounds | a node is judged by its own window |
| PID lock of the CLI (`prism-cli/pid_lock.rs`) | the lock file | acquire, release, Drop | other processes through the file system | crashes between system calls, leftovers, inspection by name | one holder, named by the file; leftovers never lock out |
| HTTP server of the CLI (`prism-cli/server.rs`) | rate-limit buckets, the lock, the watcher | run, request, shutdown | extension, watcher thread, PID lock | random clean-up of a bounded table, ends of every kind | the right clients are refused; nothing runs on after the end |
| serialisation, sanitising, errors, scaffolding, examples | none | formatting | – | – | – |

`PROJECT.json` "components" says of each part what is modelled and why the rest is not;
"hazards" lists where the code is hard to test, with the properties aimed at each.

## 2. What is modelled

Four modules that other processes or threads interleave with stand alone with a run of
their own (CronScheduler, WatcherThread, PrismExtension, PidLock), so does the compiler
(PatchPipeline). The others are smaller and run in groups: MCScript, MCHost and
MCLanguage choose in `Init` which part a behaviour is about and let the others rest, so
that one run explores the union of the parts, not their product. Modules that belong
together are composed: WatchMode drives the steps of `atomic_write` and implements
OutputFile; DslParser extends PatchOps, so that a parsed document is run; CronSearch
extends CronFields; PidLock implements WorkspaceLock.

### Running beside each other

**CronScheduler** (register, unregister, start, shutdown, coroutines). Calls are split
where the code awaits a lock, coroutines at every check, sleep, select and callback.
Sleeping ends at an arbitrary later step; when that is, is CronSearch's matter.

**WatcherThread** (start_watching, stop_watching, the thread). Callers and threads
interleave at every access to the flag, the slot and the channel. Elapsed time is
abstract: a receive times out only on an empty channel. The apply itself is one step
here; PrismExtension has its parts.

**PrismExtension** (apply, insert_rule, toggle_group). Each call is split at every lock
and host call; actors are calls on the main instance or on the watcher's instance, which
shares `watcher_result` and `parse_cache` only. A file holds one prepend or append of a
rule, which may use a variable of `__vars__`; the patches run one by one. Edits, toggles, parse errors and failing
host calls happen anywhere within a call. `ListRules`, `IsPrismRule` and `Status` are what
the getters show of the remembered state at any moment.

**PidLock** (acquire, release) and **WorkspaceLock**. Processes create, write, read and
unlink one file, one system call per step, and may die between any two. `ProcessAlive` is
what kill(pid, 0) says of a process of the same user (of another's it fails, and the code takes
the process for dead, section 4). WorkspaceLock is what the lock promises to whoever starts or
looks at the file: who is `alive`, who `owners` are and the `mark` on the workspace. A mark
that is alive is the owner's, an owner is marked, a crash leaves the mark, and only a mark of
nobody alive is wiped off. The refinement maps them to the processes that run, to those past
acquire() and to the PID in the file.

**WatchMode** (`prism watch`) and **OutputFile**. The loop of FileWatcher (`Edit`,
`Receive`, `Timeout`), the batch of DefaultPipeline, the scan at the start and the steps
of `atomic_write` (write to a temporary file, rename, copy where the rename fails), with
edits, errors, crashes and restarts in between. A configuration is the sequence of the
patched files it was made by. OutputFile is the promise: the content changes whole or not
at all; the refinement maps `file` to the file the kernel reads.

**MemoryCache** and **DiskCache**. A critical section is one step; `get` looks at the file
between two of them, and callers compute before they insert. On disk, names point to
inodes and a value is written in two pieces, so that two writers of one temporary name,
a crash, a rename of what somebody else still writes and the clean-up of old temporary
files show. **Caches** puts the two beside each other, as the code does, which never joins
them. **Lists** is what `retain`, `shift_remove`, sorting and summing do to a list, a module of its own
because caches, plugins, failure tracker, selector and patches all rest on it.

**KvStore**. Instances on one redb file, threads within an instance under its mutex; every
redb call may fail, a process may end anywhere, the file can be open once. The fall-back
to memory is modelled as the code does it, and so is `len_unlocked`, which answers 0 when
the count fails.

**ScriptRuntime**. Two calls on one runtime: the limit flags and the recursion counter are
shared, step counter, timer thread, patches and log are the call's own. The engine is
external: it acts through the API, polls the interrupt handler and ends: by itself before main()
is called, by main() or its refusals, by a throw, or cut.

**Server**. `run` with its refusals, a request's way through rate limit and
authentication to a handler, time passing, the graceful end. The list of instants the
limiter keeps of a client is the set of its requests, which a number tells apart. `check`
cleans expired entries at random or, at a threshold, always; both are alternatives of one
step.

**PluginHost**. The table of PluginLoader and the states and subscriptions of
LifecycleManager, called in any order while the files of the plugins change and a hook
runs; the checks of a manifest, the forms of a hook's name, the entry script and its
handlers. `load` reads the entry file for the checksum, looks whether it is there and reads
it again for the text it keeps: three steps, between which the file may be replaced or
taken away, while the borrow of the loader keeps its other calls out.

### One caller

**PatchPipeline** (compiler and executor). The input, chosen in `Init`, is any set of
`__after__` references among the patches, by full file name, short name or id, any
assignment of patches to files and, in pipeline mode, to scopes. `Index` is
resolve_dependencies up to its errors, `BuildGraph` and `Pop` are Kahn's algorithm with
the multiplicities the code counts, `StartAt`/`LookAt`/`Backtrack` its depth-first search
for the cycle, `Check` the cross-group and cross-stage rejections,
`ProfileStep`/`ProfileFails`/`ProfileEnds` the threads (a step of any running one at any
time), `Join`, `RunStep` and `Finish` merge and phase two. A configuration maps leaf
paths to the patches that made their value.

**PatchOps** (operations, traces, replay). A program of patches runs one sub-operation per
step (`TakePatch`, `RunOp`); `Exec` is apply_patch_in_place with the eight operations,
`Summary` the counts in the trace, `ReplayOp`, `ReplayOps` and `Replay` the implementation in
trace.rs, which `ReplayAt` asks. A value is an array, scalar, null or an object with at
most one field; a predicate or rewrite expression is its outcome per item: yes, no or error. `"authentication"` stands
for the guarded fields.

**TraceView** (trace.rs, the trace calls of the extension). What is told of such a run:
`Importable` is `TraceManager::import`, `Explain` explain_field for a path and for an item
of it (of patches `filed`, those whose source has a file), `Statistics` and `CompileStats` the two that count the same traces, `GetTrace` the
trace shown of a patch, `TraceReport` whether there is a report. They are operators over
the traces, asked where a program has ended.

**DslParser**. A document is `__when__`, `__after__`, `__vars__` and the entries of its
paths; `GroupError` and `GroupOps` are compile_path_group, `Parse` parse_str with and
without variables. The patches it yields run in PatchOps. An expression is the places where it
mentions a field: how (`p.f`, `p['f']` or the bare name) and in what (code, a string, a
comment, a template, or what a quote in a regular expression turns from one into the other);
`Extracted` is what extract_member_access_fields finds of them.

**ExprEval**. The language has no parser: evaluate_predicate splits the text at the
leftmost top-level operator, loosest first, and recurses. The text is a sequence of
lexemes in which each quote, slash, backslash and parenthesis is one, in literals too. The five
scans of the code (`After`, `Seek`, `Closing`) keep the quote they are in and the parentheses
open; two of them know escapes, none knows regular expressions. `FindTopLevel` is the search
for an operator, the rest follows the order in which the code tries pipes, methods, calls,
comparisons. The reference definition is an expression tree; `Misleads` names the literals
that lead the scans astray, and only text of one part is claimed of them.

**ScopeMatch**. `Compile` is compile_when, `Applies` check_patch_condition; the reference
says minute by minute when a range holds.

**CronFields**, **CronSearch**. The parser's, the hooks' and the loader's reading of one
field; next_after and next_trigger_time one jump per step on a calendar of short months
with leap years; the calls of HookScheduler, in which a whole search of one hook is one
value (`Sought`, after at most `MaxRounds` rounds of its loop; a search that has not ended by
then counts as one that never does). The reference is trying every minute.

**HotReload**. Field mappings per kernel, compact_yaml on lines (what each opens and how it
ends), write_and_reload by signal and over HTTP with processes that come, go and recycle
PIDs, belong to others, answer with errors or answer too late.

**Validator**. Every check, and the cycle search as a stack machine that starts from the
groups in any order, as the HashMap may.

**ScriptApi**. config.get and config.set on a tree, the list calls under utils, and the
calls with a callback: snapshot, callback, write back, or nothing if it throws. insertAt beyond
the end is a call that panics: the list stays as it was, though one that was null has become empty.

**Failover**, **Smart**, **Migration**. FailoverTracker with its eviction and both
cooldowns; the latency windows, their statistics, score, ranking and probe interval in
integer scales; run_migrations with its rollback, one migration at a time.

## 3. Runs

| run | result | distinct states | instance and why it is enough |
|---|---|---|---|
| `cron_safety` | holds | 585 k | 2 concurrent callers, 2 names, 3 coroutines, 2 registrations, 2 starts, late registration, expired budgets; symmetric in callers and names (safety only). Two of each are the least that overlap; the theorems hold for any number |
| `cron_live` | holds | 18 k | 2 callers, 1 name, tasks registered while stopped; no symmetry |
| `cron_late_register` | **CallsReturn violated** | – | registration on a running scheduler |
| `watcher` | holds | 24 k | 1 caller, 3 threads (two restarts), 2 changes, failing workspace, spawn and watch; the caller waits for a stopped thread before it starts again (`Patient`) |
| `ext_calls` | holds | 1.4 M | 2 files (one prepend with a variable, one append), 2 contents each, one of them unparsable, a main and a watcher instance, up to 5 rules; calls do not overlap |
| `pid_lock` | holds | 178 k | 4 processes that may crash, acquisitions one after the other, no `--force`: a crashed owner, a crashed successor and two more |
| `pid_race` | **MutualExclusion violated** | – | 2 processes acquiring at once |
| `pipeline` | holds | 137 k | 3 patches in 3 files or 2, distinct or equal short names; all sets of 2 references when only ordering, 1 reference with every scope assignment in the two-phase pipeline; 2 profiles. Three patches are the least with a cycle that the search enters from outside, two profiles the least with a thread order and a merge order |
| `script` | holds | 292 k | store: 2 processes, 3 threads, 2 keys and room for 1, 3 openings, 1 fault; runtime: 2 calls on one runtime; API: 3 calls, 20 keys that reach into objects, lists, null and scalars, lists of 3 with callbacks that call back |
| `host` | holds | 560 k | watch: 2 files, one of which the scan skips, 4 edits, restarts and faults in all; disk cache: 3 writers in 2 instances; memory cache: 2 keys, room for 1; plugins: 2 with 4 disks; failover: 3 nodes, room for 1, 7 reports; selector: 2 nodes, windows of 2; server: 4 clients, room for 3; migrations: 2 releases, 4 runs |
| `language` | holds | 546 k | see below |
| `cron_search` | **SearchEnds violated** | – | a search from a day the next month lacks |

`language` enumerates inputs: programs of two single operations, composites of 2 or 3, on
12 bases; documents with up to 3 keys under a path and every kind of `__when__`,
`__after__` and `__vars__`; 42 atoms of the expression language on three items whose
values are present, absent or of another type, and all trees of two levels, and some of
four, over four of them; transforms of up to three parts; every field text of two parts; 11
cron expressions from 15 starts over 8 years with a leap year every second, 45 rounds for a search
of the hooks, of which no search that ends takes more than 41; every time
range of a short day on machines of every kind; 162 settings written for 3 targets by every
strategy; texts of 3 lines, of 4 under a block header, and some of 5; every graph of three groups.

Bounds that are constants of the modules (`Max...`, `...Bound`, `OrderedRefs`,
`PipelineRefs`, `SmSteps`, `FoReports`, `Edits + restarts + faults <= 4` in MCHost) cut
the number of calls, faults or inputs, never what a call may do; limits of the program
(`MaxEntries`, `MaxSize`, `MaxRequests`, `MaxIps`, `Threshold`, `MaxDepth`, ...) are set so
low that they are reached.

What the passing runs show, in the words of the properties:

* **cron_safety, cron_live**: callbacks of one task never overlap
  (`NoOverlappingCallbacks`); at most one is begun after the task was removed or shutdown
  signalled (`AtMostOneStrayCallback`); start() schedules every task
  (`RegisteredTaskRuns`); calls return and a signalled coroutine ends (`NothingHangs`);
  tasks keep firing after panics (`KeepsFiring`; in a build that unwinds, which the release
  profile with `panic = "abort"`, `Cargo.toml:109`, is not: there the first panic ends the
  process).
* **watcher**: `WatchersInOrder`: one watcher, which ends only when told, after at most one
  more apply, with its handle reachable until then; `NobodyHangs`: told threads end,
  calls return; `ChangesApplied`: a change is applied though its notification was an
  error or was drained.
* **ext_calls**: `RememberedExact`: between calls the remembered output is the host's
  configuration, cache hits are exact, annotations point at rules of their file, list_rules,
  is_prism_rule and status agree with what runs;
  `InsertionsLand`: no call loses a user rule, AfterGroup lands behind its group.
* **pid_lock**: one holder (`MutualExclusion`), named by the file (`HolderIsNamed`); a
  refusal is due to a running process (`RefusalJustified`); the system calls implement
  WorkspaceLock (`ImplementsLock`): the PID shown, if it runs, is the owner's at every instant.
* **pipeline**: `OrderKept`: a patch never runs before one it names, on whatever thread, and
  files keep their order unless a reference forbids it; `CyclesFound`: a cycle is reported
  exactly when one exists, however often a patch is named, and the path reported is a real
  one; `NothingLost`: every patch is applied once, a failing run changes nothing for the
  caller, a profile's change survives the merge unless a later profile has a value of its
  own at that path; `Terminates`.
* **script**: `StoreKept`: the quota holds and the file is what the calls without a fault
  add up to; `CallJudged`: a call that no other overlaps is blamed for the limit it was cut
  at and for no other of steps and recursion, a call that was cut never succeeds, results hold
  their own patches and logs, and a config exactly if main() gave one; `SetExact`:
  config.set does what it says; `CallsEnd`; `ListsKept`: adding loses and moves no rule; a removal
  takes what the callback does not answer true for and every rule that is no string, or nothing if
  the callback throws (exempt: a callback that changes a list itself, which the removal
  overwrites); group names stay different and addProxy adds nothing a group has.
* **host**: `WholeFile` (WatchMode implements OutputFile), `NoEditMissed` and
  `PendingFlushed` of the watch mode; `CachesServe`: what a cache serves is whole and of the
  file as it is, and its maps agree; `PluginsAgree`: subscriptions are those of the active
  plugins, an entry script runs once, under a checksum only the text that has it runs unless
  the file was replaced between the two reads of one load, the state Unloaded is never left;
  `SwitchEarned`; `NodesJudged`: statistics are those of the window or of the last one that
  held a record, a dead node is not preferred, the interval follows quality within its bounds; `ServerSound`: rate limits bind
  and refuse the right clients, a stopped server has left nothing; `MigrationsResume`.
* **language**: `DocumentMeaning`: the patches of a document are what is written in it, and can run;
  `OpsSound`: guarded fields never change, a default is in place before its
  list operations, a failing expression costs no item, trace counts are exact, replay
  equals execution outside the listed divergences; `ViewsTrue`: explain names every patch
  of a file that changed a path and none of another source, the statistics add up to the growth of the arrays, a report is
  refused exactly for composite patches; `ExpressionMeaning`, `ScopeExact`,
  the reference definitions; `SchedulesExact`: a field means the same to its three readers, no
  search passes over a minute that matches, a poll answers exactly the hooks that are due;
  `OutputReaches`: what is written is what the
  target understands, and the answer tells what became of it; `VerdictExact`: exactly the
  defects are named, whatever group the search starts from.

### Fairness
* CronScheduler and WatcherThread: weak fairness per call in progress and per coroutine
  or thread, which is what tokio and the operating system give a runnable task; starting
  a call, changing a file and preferring sleep over shutdown are never forced.
* ScriptRuntime: weak fairness of each call's steps: its thread runs and the engine polls.
  The timer's expiry is not forced, the step counter alone must end a script.
* WatchMode: weak fairness of the loop and of the write it drives, one thread that runs
  while the process does; edits, crashes, restarts and faults are not forced.
* PatchPipeline: weak fairness of the whole next-state relation: the compiler runs in one
  thread, and `join` waits for threads that do not wait for each other. The search of
  CronSearch likewise: it is a loop.
* The other modules state safety only.

Deadlock checking is off only where the system may come to rest: callers that do not
call again, processes that have exited, registrations or inputs used up.

## 4. Where code and documentation disagree

Shown by a run (details under "findings"):

1. `register()` on a running scheduler waits for a read lock on `tasks` while it holds
   the write lock; everything behind the lock waits too (`cron_late_register`).
2. Two processes that inspect the same stale PID file can both take the lock (`pid_race`).
3. next_after never ends from a day the next month of its expression lacks, such as
   January 31st for February (`cron_search`).

Seen while modelling, without a run of their own. What the code does is in the models; a
property that would forbid it is stated around it.

*Extension, watcher, scheduler, lock*
* A watcher started right after `stop_watching` is taken down by the exit of the old
  thread, which lowers the shared flag (`extension.rs:668`, doc 544; `Patient = FALSE`);
  `HandlesStay` says what is left then.
* From the second apply on, a file found in the parse cache loses its `__vars__` defaults
  (`extension.rs:871`, comment 913).
* Overlapping applies of the main and the watcher instance (`Overlap = TRUE`) write the
  configuration in one order and the remembered output in the other, against
  `Prism_Engine_Final_Architecture.md:1515`.
* status() takes the shared result first, which only a successful apply leaves: after a
  failed one it goes on saying that the last compilation succeeded (`extension.rs:501`, doc
  `types.rs:327`). is_prism_rule, preview_rules and the report look at the main instance
  alone, which a compilation of the watcher does not touch (`extension.rs:294, 256, 768`),
  and once a rule was inserted every rule, Prism's too, is called the user's own
  (`extension.rs:312`, doc 291).
* After `start()`/`shutdown()` a second `start()` spawns coroutines that meet the old
  shutdown signal at their first select and leave (`cron_scheduler.rs:801`).
* A join beyond its 5 s budget leaves an old watcher thread that never sees the flag down
  (`JoinMayExpire = TRUE`). Each apply compiles on top of its own output: rules of earlier
  applies and of disabled groups stay. `--force` and `release()` remove whatever file is
  there (`MayForce = TRUE`).

*Compiler, operations, replay*
* The cross-group and cross-stage checks do not know short names, and a global patch
  `__after__` a scoped or runtime one is silently sorted before it; a profile's result is
  merged whole, so the base values it did not touch revert an earlier profile's changes
  (`executor.rs:404`); patches of one file are ordered by random ids;
  `resolve_dependencies` alone ignores scopes.
* Replay differs from running: a merge whose target is missing, failing `$remove`
  predicates, merge and override on guarded fields, `Patch.condition`, an override below a
  value that is no object (`trace.rs:155, 468, 480, 529`, doc 136 and 422).
* A merge or override at the empty path is not tested against the guarded fields
  (`executor.rs:574`, doc 564); prepend and append list affected items even when there is no
  array; composite patches leave more traces than patches, which `TraceManager::import`
  refuses (`trace.rs:56`, `extension.rs:774`).
* explain_field answers "why is this rule here" from the traces of patches whose source has a
  file (`trace.rs:96`); what a plugin, a script or the visual editor changed is explained by
  nobody (`source.rs:86-123` set no file), which its doc (`trace.rs:87`) does not say.
* A trace describes what `$filter`, `$remove` and `$transform` did by the field `name` of
  the item, so that of rules, which are texts, it shows a `?`: explain_field asked for a
  rule finds who added it, never who removed or rewrote it (`executor.rs:926, 1010`, doc
  `trace.rs:87`). `total_patches` counts traces (`trace.rs:290`, doc 267), affected_paths
  lists patches that were passed over and sorts what its doc gives in order of first
  occurrence (`trace.rs:347`, doc 346), and get_trace shows the first operation of a
  composite patch only (`extension.rs:723`).

*DSL, expressions, scopes*
* Plain keys beside `$` operations are dropped (`parser.rs:657`, doc 368–372), `$` keys at the
  top level ignored, conditional rule objects (from line 1057) never evaluated, integers above
  i64 lose precision, YAML nested deeper than 10 becomes null; bracket access in strings and
  comments is refused as if it were code. The check that no predicate reads a runtime field
  finds neither a bare name (`delay < 100`, which `expr.rs:1213` reads) nor `p.delay` in code
  that follows a quote or `//` in a regular expression (`parser.rs:799`; the comment at 785 says
  that there are none). A single conditional rule under `$prepend` or `$append`, not in a
  list, is inserted whatever its `__when__` says (`parser.rs:1069`, doc 1057). Both are
  exceptions of `DocumentMeaning`, named in its comment.
* The scans for operators know neither escapes in strings nor regular expressions
  (`expr.rs:835`, doc 805: string literals are skipped): `p.name == 'a\'' || p.name == 'b\''` is
  one comparison with a long string, and after `.match(/[(]/)` an `&&` is not seen. Such
  text is misread without an error; `ExpressionMeaning` excepts it where it has several parts.
  `p.name.replace(/old/new/)`, the form of the header (`expr.rs:35`, 1692), is no call and
  gives null; `/old//new/` works (`expr.rs:1737`).
* `\|` is documented as an escape (`expr.rs:727`) and has no effect; text after a call's
  closing parenthesis and text before a comparison in a pipe are ignored; `p.a.b` is one flat
  field in comparisons and a path in methods and transforms; the fallback of
  apply_pipe_filter cannot be reached.
* In `__when__` a core, time, SSID or enabled of the wrong YAML type is ignored, so the patch
  applies everywhere, while a platform or profile of the wrong type is an error; an unknown
  core or platform of the machine matches, an unknown profile or SSID does not; unknown keys
  are ignored.

*Cron and hooks*
* The hooks' jump across a year stays in the same year, so get_next_due_time may answer a time
  that is past; schedule() takes month fields such as `13` and days such as February 31st,
  after which poll_due_hooks never returns (`Hang`), and a step of zero beside other parts
  (`*/0,5`), which it refuses alone; a hook polled twice within a minute, 30 seconds apart,
  fires twice, and one whose minute passes without a poll does not fire; an expression that never matches answers "in a minute" from
  next_after and so fires every minute; the loader refuses names of days and months that
  parse_cron takes; display names are accepted as hook names.
* Only the first hook executed runs the entry script and reaches handlers
  (`loader.rs:486`, doc 338). The hooks of the example at `manifest.rs:14` would not parse;
  discover lists the id of the manifest but load goes by the name of the directory.

*Output, caches, watch mode*
* A watch batch compiles the changed files alone on the configuration loaded at the start
  (`watcher/mod.rs:331`, comment 168).
* Two DiskCache instances write one temporary file (`cache.rs:309`, promise 221).
* In write_and_reload, kill is tested for values it does not return, so no PID is refused and
  a recycled PID gets the signal; a failed write and a failed notification are errors of one
  kind that differ in wording, and after one over HTTP the kernel may have loaded the file;
  without the feature http-reload the answer is Ok with `success: false`;
  cleanup_stale_temp_files has no caller. compact_yaml knows `key: |` but not `- |`, `|-`, `>-`
  or `|2`, though its comment lists `>-`, so it takes the blank lines out of those scalars; a
  line that ends in another bar does not end a scalar; renaming a field overwrites what the target name already held; compile_to_json adapts
  nothing.

*Scripts*
* proxies.remove and rules.remove keep what the callback answers true for (`api.rs:1110`,
  `Prism_Engine_Final_Architecture.md:912` and `examples/plugin-example/main.js:13` have it that
  this goes: the example would drop the proxies that are in order); `ListsKept` states what the
  code does. rules.remove also drops every rule that is no string, unseen by the callback (1268,
  1787), and a removal overwrites what its callback changed in the list meanwhile.
* rules.prepend reverses its arguments; insertAt beyond the end panics inside the lock (in a release
  build the process ends: `panic = "abort"`, `Cargo.toml:109`). groups.create takes members twice.
* A write script that returns by itself before main() (`return 1;`, or `return { success: true }`)
  succeeds without a configuration (runtime.rs:1023 and 1025).
* config.set answers ok for an index out of range and sets nothing; `a[0]` and `a.0` differ
  between get and set; is_type_compatible contradicts its comment (2243–2248).
* A failed count of entries reads as an empty store; a store that cannot be opened becomes
  one in memory without a word.

*The rest*
* Failover: an evicted node stays tracked without a place in the order of eviction, and
  reports of success never evict. Smart: validate accepts min > max, on which clamp panics;
  without adaptive mode the interval is not clamped; trim(0) leaves old statistics; of equal
  scores the last wins.
* Validator: TUN without a dns section draws no warning; MATCH anywhere satisfies a check whose
  message says at the end; one cycle is reported several times; a proxy and a group of one
  name are not reported.
* The PID lock takes an owner it may not signal, a live process of another user, for dead: kill
  answers EPERM, which `== 0` does not tell from ESRCH (`pid_lock.rs:193`). The model has
  processes of one user.
* Server: requests with a wrong key use up the quota; a failing bind leaves run() before
  stop_watching. Migrations: the doc says there is no rollback (`migration.rs:40–44`), the code
  rolls back; of two migrations with one number the second is never tried again once the first
  has succeeded; a configuration that is no object keeps no version.

## 5. Proofs

| module | theorem | for every |
|---|---|---|
| CronSchedulerProofs | `TypeCorrect`, `NoOverlap`, `OneStray` (from `Invariance`), `TasksRun` | set of callers, names and coroutines, bound on registrations and starts, both switches |
| WatcherThreadProofs | `WatchersStayInOrder`; `HandlesStay` | number of threads and changes; one caller that waits for a stopped thread, joins that do not expire (`OneCaller`, `Patient`, `~JoinMayExpire`); one caller alone (`OneCaller`) |
| ExtensionProofs | `RememberedStaysExact`, `InsertionsDoLand` | number of files, versions and rules, set of actors, failing host or not; calls that do not overlap (`~Overlap`) |
| PidLockProofs | `Exclusion`, `HolderNamed` (from `LockInvariance`), `LockImplemented`, `RefusalsAreJustified` | set of processes; acquisitions one after the other without `--force` (`Staggered`, `~MayForce`) |
| PipelineProofs | `OrderIsKept`, `CyclesAreFound`, `NothingIsLost` | finite set of patches, files, references, scopes, profiles, leaf paths |
| LanguageProofs | `GuardedFieldsKept`, `OpsAreSound`; `ViewsAreTrue`; `DocumentsMean`, `DocumentsRunSoundly`; `ScopesAreExact`; `OutputsReach`; `VerdictsAreExact`; `SchedulesAreExact` | set of items, predicates, rewrites, base configurations and programs of patches; documents, paths, conditional items and runtime fields; day, time range, machine and profile; settings, targets, texts and processes; graph of groups; calendar, expressions, texts, starts, plugins and number of hooks |
| ScriptProofs | `StoreStaysKept`; `CallsAreJudged`; `ListsAreKept`; `SetsAreExact` | set of processes, threads, keys, values and a quota; set of callers and runtimes, limits; list of proxies and rules, answer of a callback; tree, path and value |
| HostProofs | `NoEditIsMissed`, `FileStaysWhole`; `HitsAreFresh`, `ReadsAreWhole`, `CachesServeWell`; `PluginsStayAgreed`; `SwitchesAreEarned`; `NodesAreJudged`; `ServerIsSound`; `RunsResume` | finite set of files, pattern of edits, faults, crashes and restarts; keys, threads, capacity; plugins, manifests, texts, search paths; nodes, capacity; finite set of nodes, samples, weights, schedules; finite set of clients, limits; lists of migrations |

Assumptions on constants are the named ASSUMEs of the modules (`CronAssumption`,
`WatcherAssumption`, `ExtensionAssumption`, `PidAssumption`, `PatchesAreNumbers`, `FilesAreNumbers`,
`NamesAreDistinct`, `PathsAreKnown`, `OpsAssumption`, `BasesAreRoots`, `ProgramsArePatches`, `KvAssumption`,
`RuntimeAssumption`, `WatchAssumption`, `FailoverAssumption`, `MemoryAssumption`,
`DiskAssumption`, `SmAssumption`, `ServerAssumption`, `MigrationAssumption`, `ScopeAssumption`, `YamlAssumption`,
`SettingsAssumption`, `FinalAssumption`, `ApiAssumption`, `RangesAssumption`, `CalendarAssumption`,
`StartsAssumption`, `TextsAssumption`, `DocumentAssumption`): types, finiteness, limits that are
natural numbers. Some say more: of migrations, that their names differ and that a release keeps the earlier
ones and adds only higher numbers, which is what numbering versions means; of machines, that
a core is known by its own name and not by an alias (`ScopeAssumption`, the table of aliases
in `scope.rs`); of lines, that a blank one is no header of a block; of settings, that the
paths of the mapping table are among them; of patches, that one has an operation at most
once, a merge or an override alone, and for `$prepend` and `$append` an array or one item
(`ProgramsArePatches`, what compile_path_group and with_sub_ops let through; of the programs
that documents become it is proved); of the documents of the DSL, that a mapping has a key of
an operation at most once, that such keys begin with a dollar, that values are JSON once they are
converted, that `$prepend` and `$append` get an array or one plain item and that the rule of a
conditional item is a plain text (`DocumentAssumption`: what YAML is, what as_str() answers, and
what PatchOps can take); of the configurations of scripts, that they are trees: every node
but the root hangs below an object or a list, and a list has its items from 0 on
(`ApiAssumption`, what JSON is); of the calendar, that its days follow one another without
repetition, that every year has a first of January and that 32 days after it the year is the
same (`CalendarAssumption`, what chrono's calendar is, on which the skips of next_trigger_time
rest); of searches, that they end before the calendar does (`StartsAssumption`; chrono's
reaches beyond the year 260000).
TLC evaluates them in the runs. The hypotheses in the third column are stated in the
theorems: without those of the watcher `WatchersInOrder` is false (section 4), with
overlapping calls `RememberedExact` is (section 4), without those of the lock mutual
exclusion is (`pid_race`). The instances of the runs satisfy them.

None of the properties is inductive as it stands. What the invariants add, and why:

* **CronScheduler.** Two coroutines of one name may exist after a restart. `IndInv` adds that
  before the shutdown signal every name is spawned at most once (`SpawnsOnce`: one start body
  ever ran, and names still to spawn have no coroutine), that coroutines past a poll of the
  signal have different names also after it (`ArmedApart`), that a live coroutine reads its
  own registration or none (`Registrations`), and that one which spent its stray callback is
  leaving (`StrayLeaves`). The write guard that register() keeps is what makes `SpawnsOnce`
  survive a registration during start(). `NoneForgotten`, for `TasksRun`, says of every
  registered name that it has a coroutine or that somebody is about to spawn one.
* **WatcherThread.** For impatient callers all that is left is that each call begins by telling
  every thread alive (`UntoldFollows`), so one untold thread at most lives, and its handle is
  kept; the rest needs the assumptions. There is one flag for all threads. `FlagTells`: it is raised as long as
  a thread lives that was not told to stop, lowered as long as a told one does; `HandleFollows`
  says where the handle of a live thread is at every point of a call; `AppliedOnce`, where a
  told thread that has applied once more must be.
* **PrismExtension.** What is remembered differs from what runs between the write of a call and
  its last note of it (`Settled` holds outside `Noting`). A running call has lost no rule and
  already has that of each file it has been through (`Ran`), so the annotations it makes find
  theirs; an insertion carries an index that lies behind its group in the output it holds
  (`Placed`), and that output is what runs because nobody else is in a call (`OneCall`). That one
  rule put at any place keeps all others is a lemma about sequences (`OneRuleMore`).
* **PidLock.** `IndInv` adds that only one process is acquiring, that the one between
  create and write still owns its file, and that an inspection knows the holder
  (`InspectorKnows`): whoever is past the liveness test has seen that there is none. A refusal
  needs in addition that what the process has read names somebody else (`ReadAnother`), the
  refinement that the file names its holder or a process that is gone (`NamesAnother`): the
  write that ends an acquire is then a Take, the removal of a stale file a Wipe, because what
  it showed does not run (`ShownIsDead`), a release a Give, a death at any point an End, and
  every other step changes neither who runs nor who owns nor what is shown.
* **PatchPipeline.** Sort: the in-degree of a patch is the number of edges that nothing sorted
  has taken away (`DegreeExact`), so what is sorted has all it waits for before it and no
  patch of a circle is ever sorted (`CirclesWait`). Search: a cycle through the candidate
  leaves the stack at a branch not yet looked at (`RingsAhead`), so a candidate that is
  exhausted is on none; that unsorted patches contain a cycle at all is a lemma about finite
  sets (a longest path has nowhere to go but back). Execution: a patch is in exactly one list
  until it is applied (`LeftOrApplied`), what is applied is in the copy of its thread
  (`CopiesHold`), and what a waiting patch names is before it in its own list or in a list
  that has ended.
* **PatchOps.** `Put` touches one root field (`PutElsewhere`); no operation on a path
  that is not guarded reaches the guarded field and all others leave the value as it is
  (`ExecKeeps`); hence no step changes it. What is left of a patch is the tail of its
  operations by rank (`Going`, from the stable sort: `SortedProperties`). A patch for whose
  `$default` there is nothing yet either waits for it, with all that is to be added still to
  come, or has its array, with nothing left to run that takes from it (`Fed`: `Waits` or
  `Takes`). Replay is a second function, by recursion over patches and operations; that it is
  where the run is, as long as no step was one of `ReplayDiffers` (`Replayed`), needs that
  those recursions exist (`ReplayOpsSteps`, `ReplaySteps`, by the least counterexample) and
  that the two implementations agree on every other step (`ReplaySame`). What a trace counts
  rests on what an operation makes of a list (`OnListMakes`).
* **TraceView.** The log of a program is the concatenation of the traces of its patches, so the
  k-th operation of a patch has one place in it (`LogIs`, by recursion over the patches,
  `LogSteps`). What a patch has changed so far lies above or below its path, and what came into
  an array is what it adds (`Told`, kept by every operation: `ToldStep`); the sums of the traces
  follow the lengths of the four arrays (`LengthsGrow`), and the trace of a patch of one
  operation tells what that did (`Alone`). `Seen` holds all of it while the program runs.
* **DslParser.** What an accepted document became is kept while it runs (`DocumentInv`). The
  keys of a composite group and its places with a dollar are the same number, because no key is
  written twice and none is unknown (`CompositeKeys`, a bijection); an `$override` is alone, a
  group without an operation is merged, and values of lists have lost what is switched off
  (`GroupMeans` from `OverrideMeans`, `MergeMeans`, `CompositeMeans`; `ConditionalItems`). So
  it is a program (`DocumentRuns`), and what is proved of the executor holds of the composition
  (`DocumentRun`: nothing runs before the document is parsed).
* **KvStore.** Who writes holds the mutex of the one instance that has the file
  (`WriterAlone`), a transaction is what its call wants of the file as it is (`TxnFresh`), and
  the room a call has found is still there (`RoomLeft`).
* **ScriptRuntime.** A call that no other has overlapped finds the shared flags as its own
  handler left them, raised exactly if it was cut there, and its timer's flag still up if that cut
  it (`FlagsOwn`), because whoever starts ends everybody's being alone (`AloneIsAlone`).
* **WatchMode.** A change is told: the last event of each file is still in the queue, in the
  buffer, in the batch, or its content has been read (`EditsTold`). `FileStaysWhole` maps each
  step to one of OutputFile or to none; the temporary file must be complete before it is
  renamed (`TempWhole`).
* **MemoryCache.** A thread between the sections of get() holds an entry that was right when
  it was taken (`Dated`), whatever is in the map by now; that queue and map agree rests on the
  queue naming no key twice. **DiskCache.** The open file of a writer is never the entry, and
  holds as much of the value as it has written (`OpenFile`); while one thread writes nobody
  else does (`OneWriter`), unless instances clash.
* **PluginHost.** A plugin whose entry script is still to run has not run it, and what is
  cached under a checksum has it unless its load was overtaken (`Prepared`); while a load is
  under way, the file is the one whose checksum was tested, or the load is marked
  (`LoadChecked`). **Failover.** What a node is charged with it
  has earned: eviction forgets failures and nothing ever adds one. **Smart.** The statistics are
  those of the last window that was not empty (`judged`), which is the window as it is unless
  that is empty. That they are numbers at all needs that sums, roots and sorted
  lists exist (`TotalType`, `RootType`, `AlongProperties`; the first two by the least
  counterexample); that a best node exists needs scores to be ordered; that the interval
  grows needs division to keep an order (`QuotientOrder`). **Server.** A table holds
  what a client asked within the window and nothing it did not ask, and who is not in it asked
  nothing (`Honest`); cleaning, in whole or of one client, keeps that. **Migration.** While a run
  is under way, whatever lies below the number it has reached was made, and that number is the
  one it began with or belongs to a migration that was made (`UnderWay`); between runs the
  version promises what lies up to it in every release, installed or to come (`Promised`).
* **ScopeMatch.** The answer that stands is the one for the condition and the machine that
  stand (`ScopeInv`); what the code compares, a clock that goes from one end of the range to
  the other passes (`WalkExact`). **HotReload.** The file is the old one or the adapted
  configuration, nobody is told before it is written, and a kernel that was told runs what
  the file holds (`ReloadInv`); a line of a text is in a block as far as compact_yaml knows
  exactly if a header above it is still open (`ReadsWell`, by the least counterexample).
* **Validator.** The stack is a path of the graph, each frame goes on behind the neighbours it
  has been through (`TrailInv`); what is done has only done neighbours (`VisitedInv`), and in
  every set of done groups one has no neighbour in it (`Grounded`), so a circle is never
  done without being reported; what is reported is a circle (`CyclesInv`).
* **CronSearch.** The parser of a field and the matcher of the hooks go through the same parts
  (`PartsAgree`), the loader refuses what the parser refuses (`PartsRefused`). Up to the
  candidate of a search no minute matches (`SearchInv`). Each skip keeps that
  (`SkipsLoseNothing`): what lies between two candidates lacks the month, the day, the hour or
  the minute that was missed, because times are ordered like their dates, hours and minutes
  (`BeforeTime`, from `Multiples`) and the months of a year like their days (`UntilMonth`). The
  hooks' month skip may go back, to the first of a month, which costs rounds but no minute; the
  scheduler's only goes on or stays. The search of a hook inside a call is the last of its rounds,
  which exist and keep the same by the least counterexample (`RoundsGo`, `SoughtExact`). So a
  hook that poll_due_hooks passes over for a next time to come does not match now
  (`ToComeIsNotDue`), and the least of the next times is one before which nothing is due. That
  a search ends is not part of it, and false for the scheduler (section 4).
* **ScriptApi.** The snapshot a callback works on is the list as it is, unless the callback
  itself called something that changed it (`SnapshotFresh`); that a list call loses and moves nothing says
  that the old list is embedded in the new one (`Embeds`); what is pushed to a group is fresh and
  behind what it has (`MembersGrow`), whatever members it was created with. That config.set changes what it
  names and nothing else (`SetExact`) needs that a document is a tree before and after
  (`IsTree`) and that the way to the place goes through nodes that exist or are made
  (`OnWay`).

Only model-checked: liveness (`Terminates`, `NothingHangs`, `KeepsFiring`, `NobodyHangs`,
`ChangesApplied`, `CallsEnd`, `PendingFlushed`: fairness and ENABLED are beyond the prover), and
what rests on recursion over data (`ExpressionMeaning` of ExprEval).

## 6. What could come next

* An abstract ordered apply (patches one at a time in some order the references allow)
  refined by PatchPipeline; WatchMode with the compiler in place of its abstract batch;
  Server with PidLock and WatcherThread in place of `locked` and `watching`.
* Array indices and the empty path in PatchOps.

## 7. Not modelled

Text processing (YAML and JSON conversion, lexing, NDJSON, error texts, Unicode cleaning),
the regular expressions themselves and their cache, the JavaScript engine and the HTTP
framework (external), the list of lexical checks in validate(), schema generation,
scaffolding, examples, tests and benchmarks. Parts of modelled files left out: preview_rules
and the host's own getters, kept and total counts of traces, the wording of the reports, array indices within paths, the aggregation of hook results and the cooldown
types of the plugin crate (nothing in the repository uses either), reading smart.toml and
the filter of a group, poisoned mutexes. PIDs are not reused in PidLock, an endless
stream of notifications is outside WatcherThread's instances.
