--------------------------- MODULE PrismExtension ---------------------------
(***************************************************************************)
(* The compile-and-write calls of PrismExtension                           *)
(* (crates/clash-prism-extension/src/extension.rs: apply, compile_pipeline,*)
(* insert_rule, toggle_group) and what its getters show.                   *)
(*                                                                         *)
(* Actors of the main instance apply and insert; watcher actors only apply *)
(* and have a throw-away `state` (new_with_shared), sharing watcher_result *)
(* and parse_cache.  A call is split at every lock and host call.          *)
(*                                                                         *)
(* Each file holds one Prepend (or Append) patch on `rules` and may give,  *)
(* in `__vars__`, the default of a variable its rule uses; a rule is known *)
(* by the file and content version it comes from and by whether its        *)
(* variable was resolved.  The host keeps one config, which                *)
(* read_running_config returns and apply_config replaces.                  *)
(***************************************************************************)
EXTENDS Integers, Sequences, FiniteSets, FiniteSetsExt, SequencesExt

CONSTANTS
    Mains, Watchers,  \* actors on the main instance; watcher instances
    NumFiles,         \* files 1..NumFiles, in the order of their names
    Appends,          \* the files whose patch is an Append
    Templated,        \* the files whose rule uses a variable of `__vars__`
    MaxVersion,       \* bound: content versions of a file
    BadVersions,      \* versions the DSL parser rejects
    MaxRules,         \* bound: length of the config a call produces
    Overlap,          \* may calls overlap?
    HostMayFail,      \* may file reads and host calls fail?
    NoSeq             \* Value::Null / None

Files  == 1..NumFiles
Actors == Mains \cup Watchers
Base   == 0                 \* rules the subscription came with
User   == NumFiles + 1      \* rules given to insert_rule
Versions == 1..MaxVersion

Rules    == [by : 0..User, ver : 0..MaxVersion, vars : BOOLEAN]

ASSUME ExtensionAssumption ==
    /\ NumFiles \in Nat /\ MaxVersion \in Nat \ {0} /\ MaxRules \in Nat
    /\ Appends \subseteq Files /\ Templated \subseteq Files
    /\ BadVersions \subseteq Versions
    /\ Mains \cap Watchers = {}
    /\ Overlap \in BOOLEAN /\ HostMayFail \in BOOLEAN
    /\ NoSeq \notin Seq(Rules)

VARIABLES
    ver, on,   \* file -> content version; enabled (no .disabled suffix)?
    config,    \* the host's running config: its rules
    cache,     \* file -> version whose hash and patches are cached, or 0
    state,     \* main instance: last_output, last_annotations,
               \* last_compile_success, user_rules_inserted
    wr,        \* watcher_result: output and annotations, or none
    pc, job    \* actor -> where in its call, and the locals of the call

files == <<ver, on>>
vars  == <<files, config, cache, state, wr, pc, job>>

PCs == {"idle", "scan", "snap", "parse", "run", "state", "publish",
        "insOut", "insWrite", "insState", "insClear"}

Rule(by, v, r) == [by |-> by, ver |-> v, vars |-> r]
BaseRule  == Rule(Base, 0, TRUE)
UserRule  == Rule(User, 0, TRUE)
Positions == {"BeforePrism", "AfterPrism", "AfterGroup"}

NoFiles == [f \in Files |-> 0]
Nothing == [out |-> NoSeq, anns |-> {}]
\* The locals of a call: base config, contents scanned, hashes of the cache
\* snapshot, patches taken (and whether parsed now), next file, output and
\* its annotations, insert position, group and resulting index.
NoJob == [base |-> NoSeq, scan |-> NoFiles, snap |-> NoFiles, pats |-> NoFiles,
          fresh |-> {}, next |-> 1, out |-> NoSeq, anns |-> {},
          pos |-> "BeforePrism", group |-> 1, at |-> 0]

Init ==
    /\ ver = [f \in Files |-> 1]
    /\ on = [f \in Files |-> TRUE]
    /\ config = <<BaseRule>>
    /\ cache = NoFiles
    /\ state = [out |-> NoSeq, anns |-> {}, ok |-> FALSE, user |-> FALSE]
    /\ wr = Nothing
    /\ pc = [a \in Actors |-> "idle"]
    /\ job = [a \in Actors |-> NoJob]

Goto(a, l)  == pc' = [pc EXCEPT ![a] = l]
Quiet       == \A a \in Actors : pc[a] = "idle"
MayCall(a)  == pc[a] = "idle" /\ (Overlap \/ Quiet)
Finish(a)   == Goto(a, "idle") /\ job' = [job EXCEPT ![a] = NoJob]

-----------------------------------------------------------------------------
(* Pure parts *)

\* The rule the patch of file f yields; its default is known to the template
\* substitution only when the file was parsed by this very call.
RuleOf(j, f) == Rule(f, j.pats[f], f \in Templated => f \in j.fresh)

Scanned(j) == {f \in Files : j.scan[f] # 0}

\* The output once the patch of file f has run.
Executed(j, f) ==
    IF f \notin Scanned(j) THEN j.out
    ELSE IF f \in Appends THEN Append(j.out, RuleOf(j, f))
    ELSE <<RuleOf(j, f)>> \o j.out

\* build_rule_index and find_by_index: the last place of a rule.
LastPlace(out, rule) == Max({i \in DOMAIN out : out[i] = rule})

\* MUTANT of Annotate: the index the trace recorded when the patch ran.
MutTraceIndex(j, out) ==
    {[idx |-> IF f \in Appends THEN Len(j.base) + 1 ELSE 1, by |-> f] : f \in Scanned(j)}

\* extract_rule_annotations: where each rule text added ended up.
Annotate(j, out) == {[idx |-> LastPlace(out, RuleOf(j, f)), by |-> f] : f \in Scanned(j)}

Indices(anns, by) == {n.idx : n \in {m \in anns : m.by \in by}}

\* Where insert_rule puts the rule (1-based).
InsertIndex(j, out) ==
    LET all   == Indices(j.anns, Files)
        group == Indices(j.anns, {j.group})
        last  == Len(out) + 1
        Behind(places) == IF places = {} THEN last ELSE Max(places) + 1
        at    == IF j.pos = "AfterPrism" THEN Behind(all)
                 ELSE IF j.pos = "AfterGroup" THEN Behind(group)
                 ELSE IF all = {} THEN 1 ELSE Min(all)
    IN  IF at < last THEN at ELSE last

-----------------------------------------------------------------------------
(* apply *)

\* FailGuard: a failed compile marks the main instance, nothing else.
Fail(a) ==
    /\ Finish(a)
    /\ state' = IF a \in Mains THEN [state EXCEPT !.ok = FALSE] ELSE state
    /\ UNCHANGED <<files, config, cache, wr>>

ApplyRead(a) ==
    /\ MayCall(a) /\ Len(config) + NumFiles <= MaxRules
    /\ job' = [job EXCEPT ![a].base = config]
    /\ Goto(a, "scan")
    /\ UNCHANGED <<files, config, cache, state, wr>>

\* A directory without prism files skips the pipeline.
ApplyScan(a) ==
    /\ pc[a] = "scan"
    /\ job' = [job EXCEPT ![a].scan = [f \in Files |-> IF on[f] THEN ver[f] ELSE 0],
                          ![a].out = job[a].base]
    /\ Goto(a, IF \E f \in Files : on[f] THEN "snap" ELSE "run")
    /\ UNCHANGED <<files, config, cache, state, wr>>

ApplyScanFails(a) == HostMayFail /\ pc[a] = "scan" /\ Fail(a)

ApplySnapshot(a) ==
    /\ pc[a] = "snap"
    /\ job' = [job EXCEPT ![a].snap = cache]
    /\ Goto(a, "parse")
    /\ UNCHANGED <<files, config, cache, state, wr>>

\* The content's hash is compared with the snapshot's, not the cache's.
Hit(a, f) == job[a].snap[f] = job[a].scan[f] /\ cache[f] # 0

\* One file: nothing to do, a cache hit, or a parse that may fail.
ApplyParse(a) ==
    LET f == job[a].next IN
    /\ pc[a] = "parse" /\ f \in Files
    /\ \/ /\ job[a].scan[f] = 0
          /\ job' = [job EXCEPT ![a].next = f + 1]
       \/ /\ job[a].scan[f] # 0 /\ Hit(a, f)
          /\ job' = [job EXCEPT ![a].next = f + 1, ![a].pats[f] = cache[f]]
       \/ /\ job[a].scan[f] # 0 /\ ~Hit(a, f)
          /\ job[a].scan[f] \notin BadVersions
          /\ job' = [job EXCEPT ![a].next = f + 1,
                                ![a].pats[f] = job[a].scan[f],
                                ![a].fresh = @ \cup {f}]
    /\ UNCHANGED <<files, config, cache, state, wr, pc>>

ApplyParseFails(a) ==
    LET f == job[a].next IN
    /\ pc[a] = "parse" /\ f \in Files
    /\ job[a].scan[f] \in BadVersions /\ ~Hit(a, f)
    /\ Fail(a)

\* All files parsed: the fresh entries enter the cache together.
ApplyCache(a) ==
    /\ pc[a] = "parse" /\ job[a].next \notin Files
    /\ cache' = [f \in Files |-> IF f \in job[a].fresh THEN job[a].scan[f] ELSE cache[f]]
    /\ job' = [job EXCEPT ![a].next = 1]
    /\ Goto(a, "run")
    /\ UNCHANGED <<files, config, state, wr>>

\* The patches run in the order of their files.
ApplyRun(a) ==
    LET f == job[a].next IN
    /\ pc[a] = "run" /\ f \in Files
    /\ job' = [job EXCEPT ![a].next = f + 1, ![a].out = Executed(job[a], f)]
    /\ UNCHANGED <<files, config, cache, state, wr, pc>>

Compiled(a) == pc[a] = "run" /\ job[a].next \notin Files
ApplyWrite(a) ==
    /\ Compiled(a)
    /\ config' = job[a].out
    /\ job' = [job EXCEPT ![a].anns = Annotate(job[a], job[a].out)]
    /\ Goto(a, IF a \in Mains THEN "state" ELSE "publish")
    /\ UNCHANGED <<files, cache, state, wr>>

\* Validation says no, or apply_config fails: the config stays as it was.
ApplyWriteFails(a) == HostMayFail /\ Compiled(a) /\ Fail(a)

ApplyState(a) ==
    /\ pc[a] = "state"
    /\ state' = [out |-> job[a].out, anns |-> job[a].anns, ok |-> TRUE, user |-> FALSE]
    /\ Goto(a, "publish")
    /\ UNCHANGED <<files, config, cache, wr, job>>

ApplyPublish(a) ==
    /\ pc[a] = "publish"
    /\ wr' = [out |-> job[a].out, anns |-> job[a].anns]
    /\ Finish(a)
    /\ UNCHANGED <<files, config, cache, state>>

-----------------------------------------------------------------------------
(* insert_rule *)

\* The shared result first; else the local annotations, which a recomputation
\* from last_traces and last_output (after a failed apply) gives back.
CurrentAnnotations == IF wr # Nothing THEN wr.anns ELSE state.anns
CurrentOutput      == IF wr # Nothing THEN wr.out ELSE state.out

InsertAnnotations(a, p, g) ==
    /\ a \in Mains /\ MayCall(a) /\ Len(config) < MaxRules
    /\ job' = [job EXCEPT ![a].anns = CurrentAnnotations, ![a].pos = p, ![a].group = g]
    /\ Goto(a, "insOut")
    /\ UNCHANGED <<files, config, cache, state, wr>>

InsertOutput(a) ==
    /\ pc[a] = "insOut" /\ CurrentOutput # NoSeq
    /\ Len(CurrentOutput) < MaxRules
    /\ job' = [job EXCEPT ![a].out = CurrentOutput,
                          ![a].at = InsertIndex(job[a], CurrentOutput)]
    /\ Goto(a, "insWrite")
    /\ UNCHANGED <<files, config, cache, state, wr>>

\* Nothing was compiled yet: the output is Null and has no `rules`.
InsertRefused(a) ==
    /\ pc[a] = "insOut" /\ CurrentOutput = NoSeq
    /\ Finish(a)
    /\ UNCHANGED <<files, config, cache, state, wr>>

InsertWrite(a) ==
    LET out == InsertAt(job[a].out, job[a].at, UserRule) IN
    /\ pc[a] = "insWrite"
    /\ config' = out
    /\ job' = [job EXCEPT ![a].out = out]
    /\ Goto(a, "insState")
    /\ UNCHANGED <<files, cache, state, wr>>

InsertWriteFails(a) ==
    /\ HostMayFail /\ pc[a] = "insWrite"
    /\ Finish(a)
    /\ UNCHANGED <<files, config, cache, state, wr>>

InsertState(a) ==
    /\ pc[a] = "insState"
    /\ state' = [state EXCEPT !.out = job[a].out, !.anns = {}, !.user = TRUE]
    /\ Goto(a, "insClear")
    /\ UNCHANGED <<files, config, cache, wr, job>>

\* MUTANT of InsertClear: the shared result survives the insertion.
MutNotCleared(a) ==
    /\ pc[a] = "insClear"
    /\ Finish(a)
    /\ UNCHANGED <<files, config, cache, state, wr>>

InsertClear(a) ==
    /\ pc[a] = "insClear"
    /\ wr' = Nothing
    /\ Finish(a)
    /\ UNCHANGED <<files, config, cache, state>>

-----------------------------------------------------------------------------
(* What the user is shown: list_rules and status prefer the shared result, *)
(* is_prism_rule looks at the main instance alone.                         *)

\* A group per file annotated, enabled unless its file was renamed.
ListRules ==
    {[group |-> f, enabled |-> on[f], rules |-> Indices(CurrentAnnotations, {f})] :
        f \in {n.by : n \in CurrentAnnotations}}

IsPrismRule(i) ==
    LET here == {n \in state.anns : n.idx = i} IN
    [is_prism    |-> here # {},
     group       |-> IF here = {} THEN NoSeq ELSE (CHOOSE n \in here : TRUE).by,
     user_custom |-> here = {} /\ state.user]

\* The files of the patches are those of the annotations.  Only a successful
\* apply leaves a shared result.
Status ==
    LET Of(success, s) ==
          [success |-> success, patch_count |-> Cardinality({n.by : n \in s.anns})]
    IN  IF wr # Nothing THEN Of(TRUE, wr) ELSE Of(state.ok, state)

-----------------------------------------------------------------------------
(* Files, and the specification *)

\* toggle_group: a rename, atomic; renaming a missing file changes nothing.
ToggleGroup(f, enabled) ==
    /\ on[f] # enabled
    /\ on' = [on EXCEPT ![f] = enabled]
    /\ UNCHANGED <<ver, config, cache, state, wr, pc, job>>

\* The user saves another content.
EditFile(f, v) ==
    /\ ver[f] # v
    /\ ver' = [ver EXCEPT ![f] = v]
    /\ UNCHANGED <<on, config, cache, state, wr, pc, job>>

Apply(a) ==
    \/ ApplyRead(a) \/ ApplyScan(a) \/ ApplyScanFails(a) \/ ApplySnapshot(a)
    \/ ApplyParse(a) \/ ApplyParseFails(a) \/ ApplyCache(a) \/ ApplyRun(a)
    \/ ApplyWrite(a) \/ ApplyWriteFails(a) \/ ApplyState(a) \/ ApplyPublish(a)

Insert(a) ==
    \/ \E p \in Positions, g \in Files : InsertAnnotations(a, p, g)
    \/ InsertOutput(a) \/ InsertRefused(a) \/ InsertWrite(a)
    \/ InsertWriteFails(a) \/ InsertState(a) \/ InsertClear(a)

Next ==
    \/ \E a \in Actors : Apply(a) \/ Insert(a)
    \/ \E f \in Files, enabled \in BOOLEAN : ToggleGroup(f, enabled)
    \/ \E f \in Files, v \in Versions : EditFile(f, v)

Spec == Init /\ [][Next]_vars

-----------------------------------------------------------------------------
(* Properties *)

Outputs     == Seq(Rules) \cup {NoSeq}
Contents    == [Files -> 0..MaxVersion]
Annotations == [idx : Nat, by : Files]
Jobs == [base : Outputs, scan : Contents, snap : Contents, pats : Contents,
         fresh : SUBSET Files, next : 1..NumFiles + 1, out : Outputs,
         anns : SUBSET Annotations, pos : Positions, group : Nat, at : Nat]

\* Types of every variable and of the locals of a call.
TypeOK ==
    /\ ver \in [Files -> Versions] /\ on \in [Files -> BOOLEAN]
    /\ cache \in Contents /\ config \in Seq(Rules)
    /\ state \in [out : Outputs, anns : SUBSET Annotations, ok : BOOLEAN, user : BOOLEAN]
    /\ wr \in [out : Outputs, anns : SUBSET Annotations]
    /\ pc \in [Actors -> PCs] /\ job \in [Actors -> Jobs]

\* "No inconsistency between caches and actual data": between calls, what the
\* extension believes to be the output is the host's config.
OutputMatchesConfig == Quiet /\ CurrentOutput # NoSeq => CurrentOutput = config

\* Every annotation kept points at a rule of its own file in the output it is
\* kept with.
AnnotationsSound ==
    \A s \in {state, wr} : \A n \in s.anns :
        s.out # NoSeq /\ n.idx \in DOMAIN s.out /\ s.out[n.idx].by = n.by

\* What an apply takes from the cache was parsed from the content it scanned.
PatchesMatchContent ==
    \A a \in Actors : \A f \in Files :
        job[a].pats[f] # 0 => job[a].pats[f] = job[a].scan[f]

\* Between calls every rule list_rules shows is where it says; is_prism_rule
\* tells the same as long as the main instance's output is the one that runs;
\* a status of failure comes with no rules listed, and as many files are
\* counted as there are groups.  (list_rules, is_prism_rule, status)
ViewsFit ==
    Quiet =>
      /\ \A g \in ListRules : \A i \in g.rules : config[i].by = g.group
      /\ state.out = config =>
           \A i \in DOMAIN config : IsPrismRule(i).is_prism =>
               config[i].by = IsPrismRule(i).group
      /\ ~Status.success => ListRules = {}
      /\ Status.patch_count = Cardinality(ListRules)

\* What the extension remembers fits what the host runs and what the files say.
\* (compile_pipeline, apply, insert_rule and toggle_group, each with its locks)
RememberedExact ==
    TypeOK /\ OutputMatchesConfig /\ AnnotationsSound /\ PatchesMatchContent /\ ViewsFit

Inserting(a) == pc[a] = "insWrite" /\ pc'[a] = "insState"

UserRules(s) == Cardinality({i \in DOMAIN s : s[i].by = User})

\* insert_rule adds its rule to those the host runs, and no call, an apply, a
\* failed call or another insertion, loses a rule the user inserted.
UserRulesKept ==
    [][UserRules(config') =
       UserRules(config) + (IF \E a \in Actors : Inserting(a) THEN 1 ELSE 0)]_vars

\* AfterGroup puts the rule right behind a rule of the group.
AfterGroupLands ==
    [][\A a \in Actors :
          Inserting(a) /\ job[a].pos = "AfterGroup"
                       /\ Indices(job[a].anns, {job[a].group}) # {} =>
              config'[job[a].at - 1].by = job[a].group]_vars

\* An insertion lands where it was asked for and stays. (insert_rule, apply)
InsertionsLand == UserRulesKept /\ AfterGroupLands
=============================================================================
