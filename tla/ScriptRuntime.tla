--------------------------- MODULE ScriptRuntime ----------------------------
(* ScriptRuntime::execute and execute_with_write.  Callers may share a runtime   *)
(* (execute takes &self): its limit flags and its recursion counter are shared,   *)
(* everything else belongs to one call: the engine, the step counter, the timer   *)
(* thread with its flag, the patches and the log.  The engine is external: the    *)
(* script acts through the API, is polled by the interrupt handler, and ends.     *)
EXTENDS Integers, Sequences, SequencesExt

CONSTANTS
  Callers, Runtimes,
  RuntimeOf,     \* caller -> the runtime it uses
  Kinds,         \* caller -> which of "execute" and "write" (execute_with_write) it calls
  MaxSteps, MaxRecursion,  \* limits.max_loop_iterations, max_recursion_depth
  MaxLogs, MaxPatches,     \* limits.max_log_entries, MAX_PATCHES
  MaxCalls, MaxOps         \* bounds: calls, API calls of scripts

ASSUME RuntimeAssumption ==
  /\ RuntimeOf \in [Callers -> Runtimes] /\ Kinds \in [Callers -> SUBSET {"execute", "write"}]
  /\ MaxLogs \in Nat /\ MaxPatches \in Nat

VARIABLES
  stepHit, recHit, recDepth,   \* runtime -> step_limit_hit, recursion_limit_hit, recursion_depth
  run,       \* caller -> its current call
  timedOut,  \* caller -> the flag its timer thread sets
  result,    \* caller -> what its last call returned, with ghosts: how the script ended, whether
             \* the call was alone, what cut it, which patches it added
  ops,       \* API calls of scripts so far
  calls      \* calls so far
rtVars == <<stepHit, recHit, recDepth, run, timedOut, result, ops, calls>>

NoRun == [pc |-> "idle", kind |-> "execute", steps |-> 0, logs |-> <<>>, patches |-> <<>>,
          ends |-> "none", cut |-> "no", error |-> "none", alone |-> TRUE, added |-> <<>>]
NoResult == [kind |-> "none", error |-> "none", logs |-> <<>>, patches |-> <<>>, config |-> "none",
             ends |-> "none", alone |-> TRUE, cut |-> "no", added |-> <<>>]

RtInit ==
  /\ stepHit = [r \in Runtimes |-> FALSE]
  /\ recHit = [r \in Runtimes |-> FALSE]
  /\ recDepth = [r \in Runtimes |-> 0]
  /\ run = [c \in Callers |-> NoRun]
  /\ timedOut = [c \in Callers |-> FALSE]
  /\ result = [c \in Callers |-> NoResult]
  /\ ops = 0
  /\ calls = 0

At(c, pc) == run[c].pc = pc
Mates(c) == {d \in Callers \ {c} : RuntimeOf[d] = RuntimeOf[c] /\ ~At(d, "idle")}

------------------------------------------------------------------------------
\* A call is alone as long as no other call on its runtime overlaps it.
Start(c, kind) ==
  [d \in Callers |->
     IF d = c THEN [NoRun EXCEPT !.pc = "new", !.kind = kind, !.alone = Mates(c) = {}]
     ELSE IF d \in Mates(c) THEN [run[d] EXCEPT !.alone = FALSE] ELSE run[d]]
\* MUTANT of ResetLimitFlags: the flags stay as the last call left them.
MutResetLimitFlags(c) == UNCHANGED <<stepHit, recHit>>
ResetLimitFlags(c) ==
  /\ stepHit' = [stepHit EXCEPT ![RuntimeOf[c]] = FALSE]
  /\ recHit' = [recHit EXCEPT ![RuntimeOf[c]] = FALSE]
\* validate_and_check_sandbox accepts the script and the config, and the flags are reset.
Execute(c, kind) ==
  /\ At(c, "idle") /\ calls < MaxCalls
  /\ calls' = calls + 1
  /\ run' = Start(c, kind)
  /\ ResetLimitFlags(c)
  /\ result' = [result EXCEPT ![c] = NoResult]
  /\ UNCHANGED <<recDepth, timedOut, ops>>

ErrorResult(c, kind, e) ==
  result' = [result EXCEPT ![c] = [NoResult EXCEPT !.kind = kind, !.error = e, !.logs = <<e>>]]
\* It refuses the text of the script or the size of the config, and nothing is reset.
Refuse(c, kind) ==
  /\ At(c, "idle") /\ calls < MaxCalls
  /\ calls' = calls + 1
  /\ ErrorResult(c, kind, "refused")
  /\ UNCHANGED <<stepHit, recHit, recDepth, run, timedOut, ops>>

\* SandboxedRuntime::new starts the timer; register_api; the script is entered.
New(c) ==
  /\ At(c, "new")
  /\ timedOut' = [timedOut EXCEPT ![c] = FALSE]
  /\ recDepth' = [recDepth EXCEPT ![RuntimeOf[c]] = @ + 1]
  /\ run' = [run EXCEPT ![c].pc = "running"]
  /\ UNCHANGED <<stepHit, recHit, result, ops, calls>>
\* No engine, no context or no API: a timer that runs already is stopped and joined
\* before the error is returned.
NewFails(c) ==
  /\ At(c, "new")
  /\ ErrorResult(c, run[c].kind, "engine")
  /\ run' = [run EXCEPT ![c] = NoRun]
  /\ UNCHANGED <<stepHit, recHit, recDepth, timedOut, ops, calls>>
\* The timer thread waits until the deadline or until shutdown() sets its flag.
Expire(c) ==
  /\ run[c].pc \in {"running", "check", "collect"} /\ ~timedOut[c]
  /\ timedOut' = [timedOut EXCEPT ![c] = TRUE]
  /\ UNCHANGED <<stepHit, recHit, recDepth, run, result, ops, calls>>

------------------------------------------------------------------------------
\* The script runs until it ends or the handler cuts it, which it cannot catch.
CanAct(c) == At(c, "running") /\ run[c].cut = "no" /\ ops < MaxOps
\* patch.add: an entry beyond MAX_PATCHES is dropped; one that is refused throws and adds
\* nothing, which is no step here.
AddPatch(c) ==
  /\ CanAct(c)
  /\ ops' = ops + 1
  /\ LET new == <<c, ops>> IN
     run' = [run EXCEPT
       ![c].patches = IF Len(@) < MaxPatches THEN Append(@, new) ELSE @,
       ![c].added = Append(@, new)]
  /\ UNCHANGED <<stepHit, recHit, recDepth, timedOut, result, calls>>
Log(c) ==
  /\ CanAct(c)
  /\ ops' = ops + 1
  /\ run' = [run EXCEPT ![c].logs = IF Len(@) < MaxLogs THEN Append(@, "said") ELSE @]
  /\ UNCHANGED <<stepHit, recHit, recDepth, timedOut, result, calls>>

\* MUTANT of OverSteps: no script ever has too many steps.
MutOverSteps(c) == FALSE
\* The interrupt handler: the timeout, then the steps, counted before they are compared,
\* then the recursion depth.
OverSteps(c) == run[c].steps > MaxSteps
Poll(c) ==
  LET r == RuntimeOf[c]
      over == ~timedOut[c] /\ OverSteps(c)
      deep == ~timedOut[c] /\ ~OverSteps(c) /\ recDepth[r] > MaxRecursion
  IN
  /\ At(c, "running") /\ run[c].cut = "no"
  /\ run' = [run EXCEPT
       ![c].steps = IF timedOut[c] \/ @ > MaxSteps THEN @ ELSE @ + 1,
       ![c].cut = IF timedOut[c] THEN "timeout" ELSE IF over THEN "steps" ELSE IF deep THEN "recursion" ELSE "no"]
  /\ stepHit' = [stepHit EXCEPT ![r] = @ \/ over]
  /\ recHit' = [recHit EXCEPT ![r] = @ \/ deep]
  /\ UNCHANGED <<recDepth, timedOut, result, ops, calls>>

\* The script returns or throws; in write mode it may itself return something without a config
\* before main() is called, main() is missing, returns no plain object, or returns an object too
\* large.  A script that was cut ends with an engine error.
Ends(c) == IF run[c].cut # "no" THEN {"cut"}
           ELSE {"returns", "throws"} \cup
                (IF run[c].kind = "write" THEN {"returns early", "no object", "too large"} ELSE {})
Finish(c) ==
  /\ At(c, "running")
  /\ \E e \in Ends(c) : run' = [run EXCEPT ![c].pc = "check", ![c].ends = e]
  /\ recDepth' = [recDepth EXCEPT ![RuntimeOf[c]] = @ - 1]
  /\ UNCHANGED <<stepHit, recHit, timedOut, result, ops, calls>>

\* check_interrupts, then what eval returned.
Verdict(c) ==
  IF stepHit[RuntimeOf[c]] THEN "steps"
  ELSE IF recHit[RuntimeOf[c]] THEN "recursion"
  ELSE IF timedOut[c] THEN "timeout"
  ELSE IF run[c].ends \in {"returns", "returns early"} THEN "none" ELSE run[c].ends
CheckInterrupts(c) ==
  /\ At(c, "check")
  /\ run' = [run EXCEPT ![c].pc = "collect", ![c].error = Verdict(c)]
  /\ UNCHANGED <<stepHit, recHit, recDepth, timedOut, result, ops, calls>>

\* The log of the result: execute() drops what a failing script logged and cuts the log
\* of one whose output is too large; execute_with_write() does neither.
ResultLogs(c, tooBig) ==
  IF run[c].error # "none"
    THEN (IF run[c].kind = "write" THEN run[c].logs ELSE <<>>) \o <<run[c].error>>
  ELSE LET all == Append(run[c].logs, "succeeded")
           cut == IF Len(all) < MaxLogs THEN all ELSE SubSeq(all, 1, MaxLogs - 1)
       IN IF run[c].kind = "execute" /\ tooBig THEN Append(cut, "truncated") ELSE all
\* shutdown() ends the timer thread, joins it, and its flag is dropped with it.  A script that
\* returned early, before main() was called, succeeds without a config.
Collect(c) ==
  /\ At(c, "collect")
  /\ timedOut' = [timedOut EXCEPT ![c] = FALSE]
  /\ \E tooBig \in BOOLEAN :
       result' = [result EXCEPT ![c] =
         [kind |-> run[c].kind, error |-> run[c].error, logs |-> ResultLogs(c, tooBig),
          patches |-> run[c].patches, ends |-> run[c].ends, alone |-> run[c].alone, cut |-> run[c].cut,
          added |-> run[c].added,
          config |-> IF run[c].kind = "write" /\ run[c].error = "none" /\ run[c].ends = "returns"
                       THEN "main's" ELSE "none"]]
  /\ run' = [run EXCEPT ![c] = NoRun]
  /\ UNCHANGED <<stepHit, recHit, recDepth, ops, calls>>

Step(c) == \/ New(c) \/ NewFails(c) \/ Poll(c) \/ (run[c].cut # "no" /\ Finish(c))
           \/ CheckInterrupts(c) \/ Collect(c)
RtNext == \E c \in Callers :
  \/ \E kind \in Kinds[c] : Execute(c, kind) \/ Refuse(c, kind)
  \/ New(c) \/ NewFails(c) \/ Expire(c) \/ AddPatch(c) \/ Log(c) \/ Poll(c) \/ Finish(c)
  \/ CheckInterrupts(c) \/ Collect(c)
\* A script that runs is polled, and the code around it goes on; nothing makes it end.
RtFairness == \A c \in Callers : WF_rtVars(Step(c))
RtSpec == RtInit /\ [][RtNext]_rtVars /\ RtFairness

------------------------------------------------------------------------------
Returned(c) == result[c].kind # "none"
\* As long as no other call used its runtime meanwhile, a script that its handler cut at a limit
\* is blamed for that limit, and one is blamed for its steps or its recursion only if it was cut
\* there: what an earlier call left in the shared flags never counts.  (A script that ended by
\* itself may be told that its time is up, if it was before the check.)
\* (reset_limit_flags, check_interrupts)
LimitBlamed ==
  \A c \in Callers : result[c].alone =>
    /\ result[c].cut # "no" => result[c].error = result[c].cut
    /\ result[c].error \in {"steps", "recursion"} => result[c].cut = result[c].error

\* A script that was cut never succeeds, whatever other calls on the same runtime do to
\* the shared flags in the meantime.  (check_interrupts, execute)
CutNeverSucceeds ==
  \A c \in Callers : Returned(c) /\ result[c].cut # "no" => result[c].error # "none"

\* A result has the patches of its own script, in order, also if it failed, and tells the
\* outcome last; a log is at most one entry over its limit.  A config comes back exactly from a call
\* in write mode that succeeded and whose script did not return by itself before main().
\* (execute, execute_with_write)
ResultsOwn ==
  \A c \in Callers : Returned(c) =>
    LET added == result[c].added  n == Len(added) IN
    /\ result[c].patches = SubSeq(added, 1, IF n < MaxPatches THEN n ELSE MaxPatches)
    /\ Len(result[c].logs) <= MaxLogs + 1
    /\ Last(result[c].logs) \in
         (IF result[c].error = "none" THEN {"succeeded", "truncated"} ELSE {result[c].error})
    /\ (result[c].config # "none") <=>
         (result[c].error = "none" /\ result[c].kind = "write" /\ result[c].ends = "returns")

\* A call that no other overlaps blames a limit exactly if its handler cut it there (the timer also
\* if it was late), a script that was cut never counts as a success, and what a call returns is its
\* own.  (runtime.rs, limits.rs)
CallJudged == LimitBlamed /\ CutNeverSucceeds /\ ResultsOwn

\* Every call returns, also one of a script that loops forever: the count of steps ends
\* it even if no timer does.  (SandboxedRuntime)
CallsEnd == \A c \in Callers : ~At(c, "idle") ~> At(c, "idle")
=============================================================================
