--------------------------- MODULE CronScheduler ---------------------------
(***************************************************************************)
(* The asynchronous cron scheduler of the plugin crate                     *)
(* (crates/clash-prism-plugin/src/cron_scheduler.rs, struct CronScheduler).*)
(*                                                                         *)
(* Callers run register, unregister, start and shutdown concurrently; each *)
(* call is split at the points where the code awaits a lock.  Every        *)
(* spawned tokio task is a coroutine looping over "is my task still there? *)
(* sleep or see shutdown; check again; run the callback".  Time is         *)
(* abstract: a sleep (always at least one second, line 731) elapses at an  *)
(* arbitrary later step.                                                   *)
(***************************************************************************)
EXTENDS Naturals, Sequences, FiniteSets

CONSTANTS
    Callers,         \* threads that call the public methods
    Names,           \* task names
    NoCaller,        \* "nobody holds this lock"
    NoName,          \* "no task in hand"
    MaxCoroutines,   \* bound: coroutines ever spawned
    MaxRegs,         \* bound: successful registrations
    MaxStarts,       \* bound: successful starts
    LateRegister,    \* may register() overlap or follow start()?
    BudgetMayExpire  \* may a callback outlast the 30 s shutdown budget?

Coroutines == 1..MaxCoroutines

ASSUME CronAssumption ==
    /\ NoCaller \notin Callers
    /\ NoName \notin Names
    /\ MaxCoroutines \in Nat /\ MaxRegs \in Nat /\ MaxStarts \in Nat
    /\ LateRegister \in BOOLEAN /\ BudgetMayExpire \in BOOLEAN

VARIABLES
    tasks,        \* name -> number of its registration, 0 when absent
    tasksWriter,  \* caller holding the write guard of `tasks` across awaits
    running,      \* the `running` flag
    signalled,    \* shutdown_tx.send(true) has happened: every receiver has
                  \* an unseen version, and no receiver ever marks it seen
    handles,      \* JoinHandles not yet drained, oldest first
    handlesHolder,\* caller holding the `handles` mutex across awaits
    regs,         \* registrations made so far (names the callbacks)
    starts,       \* successful starts so far
    op, pc,       \* caller -> method being run, and where in it
    cur, todo,    \* caller -> task given to spawn_task, names still to spawn
    held,         \* caller -> coroutine whose handle it has yet to push, or 0
    cpc,          \* coroutine -> where in its loop
    cname, creg,  \* coroutine -> its captured name and callback
    stray         \* history: callbacks begun after removal or shutdown

callVars == <<op, pc, cur, todo, held>>
coVars   == <<cpc, cname, creg, stray>>
vars == <<tasks, tasksWriter, running, signalled, handles, handlesHolder,
          regs, starts, callVars, coVars>>

CallerPCs == {"idle", "regCheck", "startRead", "spawnCheck", "spawnRead",
              "spawnPush", "sdFlag", "sdLock", "sdJoin"}
Ops       == {"none", "register", "start", "shutdown"}
CoPCs     == {"unborn", "check", "waiting", "woken", "due", "callback", "done"}

Registered(n) == tasks[n] # 0
Live(c)       == cpc[c] \notin {"unborn", "done"}
\* The coroutine got past a poll of its receiver without seeing the signal.
Armed(c)      == cpc[c] \in {"waiting", "woken", "due", "callback"}
\* MUTANT of TasksReadable: register() drops its write guard before spawning.
MutGuardDropped ==
    tasksWriter # NoCaller => pc[tasksWriter] # "regCheck"
\* MUTANT of SignalPending: a receiver that marks the signal seen.
MutSignalSeen == FALSE

\* tasks.read().await completes only when no writer holds the lock.
TasksReadable == tasksWriter = NoCaller
\* Every receiver still has the signal unseen.
SignalPending == signalled

Init ==
    /\ tasks = [n \in Names |-> 0]
    /\ tasksWriter = NoCaller
    /\ running = FALSE
    /\ signalled = FALSE
    /\ handles = <<>>
    /\ handlesHolder = NoCaller
    /\ regs = 0
    /\ starts = 0
    /\ op = [p \in Callers |-> "none"]
    /\ pc = [p \in Callers |-> "idle"]
    /\ cur = [p \in Callers |-> NoName]
    /\ todo = [p \in Callers |-> {}]
    /\ held = [p \in Callers |-> 0]
    /\ cpc = [c \in Coroutines |-> "unborn"]
    /\ cname = [c \in Coroutines |-> NoName]
    /\ creg = [c \in Coroutines |-> 0]
    /\ stray = [c \in Coroutines |-> 0]

-----------------------------------------------------------------------------
(* Callers *)

\* The call of p returns: its locals and every guard it holds are dropped.
Return(p) ==
    /\ op' = [op EXCEPT ![p] = "none"]
    /\ pc' = [pc EXCEPT ![p] = "idle"]
    /\ cur' = [cur EXCEPT ![p] = NoName]
    /\ todo' = [todo EXCEPT ![p] = {}]
    /\ held' = [held EXCEPT ![p] = 0]
    /\ tasksWriter' = IF tasksWriter = p THEN NoCaller ELSE tasksWriter

\* spawn_task is entered for one name of S, or the caller is finished.
SpawnOneOf(p, S) ==
    IF S = {}
    THEN Return(p)
    ELSE \E n \in S :
            /\ cur' = [cur EXCEPT ![p] = n]
            /\ todo' = [todo EXCEPT ![p] = S \ {n}]
            /\ pc' = [pc EXCEPT ![p] = "spawnCheck"]
            /\ held' = [held EXCEPT ![p] = 0]
            /\ UNCHANGED <<op, tasksWriter>>

\* Caller protocol when LateRegister is FALSE: no registration while the
\* scheduler runs and no start while a registration is in flight.
MayRegister == LateRegister \/ ~running
MayStart    == LateRegister \/ \A p \in Callers : op[p] # "register"

\* register(): the write guard taken here lives until the function returns.
RegisterPush(p, n) ==
    /\ pc[p] = "idle" /\ MayRegister
    /\ tasksWriter = NoCaller
    /\ ~Registered(n)                       \* else DuplicateTask, no effect
    /\ regs < MaxRegs
    /\ regs' = regs + 1
    /\ tasks' = [tasks EXCEPT ![n] = regs + 1]
    /\ tasksWriter' = p
    /\ op' = [op EXCEPT ![p] = "register"]
    /\ pc' = [pc EXCEPT ![p] = "regCheck"]
    /\ cur' = [cur EXCEPT ![p] = n]
    /\ UNCHANGED <<running, signalled, handles, handlesHolder, starts, todo,
                   held, coVars>>

LateSpawn(p) == IF running THEN {cur[p]} ELSE {}

RegisterCheck(p) ==
    /\ pc[p] = "regCheck"
    /\ SpawnOneOf(p, LateSpawn(p))
    /\ UNCHANGED <<tasks, running, signalled, handles, handlesHolder, regs,
                   starts, coVars>>

\* spawn_task(): the second look at `running`.
SpawnCheck(p) ==
    /\ pc[p] = "spawnCheck"
    /\ IF running
       THEN /\ pc' = [pc EXCEPT ![p] = "spawnRead"]
            /\ UNCHANGED <<op, cur, todo, held, tasksWriter>>
       ELSE SpawnOneOf(p, todo[p])
    /\ UNCHANGED <<tasks, running, signalled, handles, handlesHolder, regs,
                   starts, coVars>>

NextCoroutine(c) ==
    /\ cpc[c] = "unborn"
    /\ \A d \in Coroutines : d < c => cpc[d] # "unborn"

\* spawn_task(): read the task, tokio::spawn its coroutine.
SpawnRead(p) ==
    /\ pc[p] = "spawnRead"
    /\ TasksReadable
    /\ IF Registered(cur[p])
       THEN \E c \in Coroutines :
               /\ NextCoroutine(c)
               /\ cpc' = [cpc EXCEPT ![c] = "check"]
               /\ cname' = [cname EXCEPT ![c] = cur[p]]
               /\ creg' = [creg EXCEPT ![c] = tasks[cur[p]]]
               /\ held' = [held EXCEPT ![p] = c]
               /\ pc' = [pc EXCEPT ![p] = "spawnPush"]
               /\ UNCHANGED <<op, cur, todo, tasksWriter, stray>>
       ELSE SpawnOneOf(p, todo[p]) /\ UNCHANGED coVars
    /\ UNCHANGED <<tasks, running, signalled, handles, handlesHolder, regs,
                   starts>>

\* spawn_task(): store the handle once the `handles` mutex is free.
SpawnPush(p) ==
    /\ pc[p] = "spawnPush"
    /\ handlesHolder = NoCaller
    /\ handles' = Append(handles, held[p])
    /\ SpawnOneOf(p, todo[p])
    /\ UNCHANGED <<tasks, running, signalled, handlesHolder, regs, starts,
                   coVars>>

Unregister(p, n) ==
    /\ pc[p] = "idle"
    /\ tasksWriter = NoCaller
    /\ Registered(n)
    /\ tasks' = [tasks EXCEPT ![n] = 0]
    /\ UNCHANGED <<tasksWriter, running, signalled, handles, handlesHolder,
                   regs, starts, callVars, coVars>>

Start(p) ==
    /\ pc[p] = "idle" /\ MayStart
    /\ ~running                              \* else AlreadyRunning, no effect
    /\ starts < MaxStarts
    /\ starts' = starts + 1
    /\ running' = TRUE
    /\ op' = [op EXCEPT ![p] = "start"]
    /\ pc' = [pc EXCEPT ![p] = "startRead"]
    /\ UNCHANGED <<tasks, tasksWriter, signalled, handles, handlesHolder,
                   regs, cur, todo, held, coVars>>

RegisteredNames == {n \in Names : Registered(n)}

StartRead(p) ==
    /\ pc[p] = "startRead"
    /\ TasksReadable
    /\ SpawnOneOf(p, RegisteredNames)
    /\ UNCHANGED <<tasks, running, signalled, handles, handlesHolder, regs,
                   starts, coVars>>

ShutdownSend(p) ==
    /\ pc[p] = "idle"
    /\ signalled' = TRUE
    /\ op' = [op EXCEPT ![p] = "shutdown"]
    /\ pc' = [pc EXCEPT ![p] = "sdFlag"]
    /\ UNCHANGED <<tasks, tasksWriter, running, handles, handlesHolder, regs,
                   starts, cur, todo, held, coVars>>

ShutdownFlag(p) ==
    /\ pc[p] = "sdFlag"
    /\ running' = FALSE
    /\ pc' = [pc EXCEPT ![p] = "sdLock"]
    /\ UNCHANGED <<tasks, tasksWriter, signalled, handles, handlesHolder,
                   regs, starts, op, cur, todo, held, coVars>>

ShutdownLock(p) ==
    /\ pc[p] = "sdLock"
    /\ handlesHolder = NoCaller
    /\ handlesHolder' = p
    /\ pc' = [pc EXCEPT ![p] = "sdJoin"]
    /\ UNCHANGED <<tasks, tasksWriter, running, signalled, handles, regs,
                   starts, op, cur, todo, held, coVars>>

\* Await the oldest handle; with none left release the mutex and return.
ShutdownJoin(p) ==
    /\ pc[p] = "sdJoin"
    /\ IF handles = <<>>
       THEN /\ handlesHolder' = NoCaller
            /\ Return(p)
            /\ UNCHANGED handles
       ELSE /\ cpc[Head(handles)] = "done"
            /\ handles' = Tail(handles)
            /\ UNCHANGED <<handlesHolder, callVars, tasksWriter>>
    /\ UNCHANGED <<tasks, running, signalled, regs, starts, coVars>>

\* The shared 30 s budget is spent: dropping the drain iterator drops the
\* remaining handles, which detaches their coroutines.
ShutdownTimeout(p) ==
    /\ BudgetMayExpire
    /\ pc[p] = "sdJoin"
    /\ handles # <<>>
    /\ cpc[Head(handles)] # "done"
    /\ handles' = <<>>
    /\ handlesHolder' = NoCaller
    /\ Return(p)
    /\ UNCHANGED <<tasks, running, signalled, regs, starts, coVars>>

CallerStep(p) ==
    \/ RegisterCheck(p) \/ SpawnCheck(p) \/ SpawnRead(p) \/ SpawnPush(p)
    \/ StartRead(p)
    \/ ShutdownFlag(p) \/ ShutdownLock(p) \/ ShutdownJoin(p)
    \/ ShutdownTimeout(p)

CallerEntry(p) ==
    \/ \E n \in Names : RegisterPush(p, n) \/ Unregister(p, n)
    \/ Start(p)
    \/ ShutdownSend(p)

-----------------------------------------------------------------------------
(* Coroutines *)

Goto(c, l) == cpc' = [cpc EXCEPT ![c] = l]
callerState == <<tasks, tasksWriter, running, signalled, handles,
                 handlesHolder, regs, starts, callVars>>

\* MUTANTS of StillRegistered: the test is lost; the test is inverted.
MutNeverRemoved(c) == TRUE
\* MUTANT of StillRegistered: a task that is registered counts as removed.
MutInverted(c) == tasks[cname[c]] = 0

\* Does the task this coroutine was spawned for still exist?  By name only.
StillRegistered(c) == Registered(cname[c])

\* Top of the loop and the first poll of select!: the sleep cannot be over
\* yet, so a pending shutdown signal always wins here.
CoCheck(c) ==
    /\ cpc[c] = "check"
    /\ TasksReadable
    /\ Goto(c, IF StillRegistered(c) /\ ~SignalPending THEN "waiting" ELSE "done")
    /\ UNCHANGED <<cname, creg, stray, callerState>>

\* select! may take the sleep branch even when both branches are ready.
CoSleepElapsed(c) ==
    /\ cpc[c] = "waiting"
    /\ Goto(c, "woken")
    /\ UNCHANGED <<cname, creg, stray, callerState>>

CoShutdownSeen(c) ==
    /\ cpc[c] = "waiting"
    /\ SignalPending
    /\ Goto(c, "done")
    /\ UNCHANGED <<cname, creg, stray, callerState>>

CoRecheck(c) ==
    /\ cpc[c] = "woken"
    /\ TasksReadable
    /\ Goto(c, IF StillRegistered(c) THEN "due" ELSE "check")
    /\ UNCHANGED <<cname, creg, stray, callerState>>

Retired(c) == signalled \/ tasks[cname[c]] # creg[c]

CoCallback(c) ==
    /\ cpc[c] = "due"
    /\ Goto(c, "callback")
    /\ stray' = [stray EXCEPT ![c] =          \* counts 0, 1, "more"
                    IF Retired(c) /\ @ < 2 THEN @ + 1 ELSE @]
    /\ UNCHANGED <<cname, creg, callerState>>

\* MUTANT of CoReturn: a panic in the callback ends the coroutine.
MutPanicKills(c) ==
    /\ cpc[c] = "callback"
    /\ Goto(c, "done")
    /\ UNCHANGED <<cname, creg, stray, callerState>>

\* The callback returned, or its panic was caught.
CoReturn(c) ==
    /\ cpc[c] = "callback"
    /\ Goto(c, "check")
    /\ UNCHANGED <<cname, creg, stray, callerState>>

CoStep(c) ==
    \/ CoCheck(c) \/ CoSleepElapsed(c) \/ CoShutdownSeen(c)
    \/ CoRecheck(c) \/ CoCallback(c) \/ CoReturn(c)

-----------------------------------------------------------------------------
Next ==
    \/ \E p \in Callers : CallerEntry(p) \/ CallerStep(p)
    \/ \E c \in Coroutines : CoStep(c)

Spec == Init /\ [][Next]_vars

\* tokio polls every ready task, a method once called is awaited to its end,
\* its locks are granted in FIFO order (so a waiter is served however often
\* others take the lock: strong fairness), timers fire and callbacks return.
\* Nobody is obliged to call anything.
Fairness ==
    /\ \A p \in Callers : /\ WF_vars(CallerStep(p))
                          /\ SF_vars(SpawnPush(p))
                          /\ SF_vars(ShutdownLock(p))
    /\ \A c \in Coroutines : WF_vars(CoStep(c))
FairSpec == Spec /\ Fairness

-----------------------------------------------------------------------------
(* Properties *)

AllIdle == \A p \in Callers : pc[p] = "idle"

\* Which call may hold a guard across an await: the write guard of `tasks`
\* belongs to the register() in flight, the `handles` mutex to a shutdown()
\* that is joining.
LockOwners ==
    \A p \in Callers : /\ op[p] = "register" <=> tasksWriter = p
                       /\ pc[p] = "sdJoin" <=> handlesHolder = p

SharedTypes ==
    /\ tasks \in [Names -> Nat]
    /\ tasksWriter \in Callers \cup {NoCaller}
    /\ running \in BOOLEAN /\ signalled \in BOOLEAN
    /\ handles \in Seq(Coroutines)
    /\ handlesHolder \in Callers \cup {NoCaller}
    /\ regs \in Nat /\ starts \in Nat

CallerTypes ==
    /\ op \in [Callers -> Ops]
    /\ pc \in [Callers -> CallerPCs]
    /\ cur \in [Callers -> Names \cup {NoName}]
    /\ todo \in [Callers -> SUBSET Names]
    /\ held \in [Callers -> Coroutines \cup {0}]
    /\ \A p \in Callers : pc[p] = "spawnPush" => held[p] \in Coroutines

CoroutineTypes ==
    /\ cpc \in [Coroutines -> CoPCs]
    /\ cname \in [Coroutines -> Names \cup {NoName}]
    /\ creg \in [Coroutines -> Nat]
    /\ stray \in [Coroutines -> Nat]

\* Types, and the owners of the two locks.
TypeOK == SharedTypes /\ CallerTypes /\ CoroutineTypes /\ LockOwners

\* Two coroutines never run callbacks of the same task name at the same time,
\* whatever mix of register, start, unregister and shutdown is in flight:
\* spawn_task runs at most once per name before the shutdown signal, and a
\* coroutine spawned after it never gets past its first select!.
NoOverlappingCallbacks ==
    \A c, d \in Coroutines :
        cpc[c] = "callback" /\ cpc[d] = "callback" /\ cname[c] = cname[d]
            => c = d

\* After its task was removed or replaced, or shutdown was signalled, a
\* coroutine starts at most one more callback: the one it was already past
\* its checks for, or the one select! preferred to the signal.
AtMostOneStrayCallback == \A c \in Coroutines : stray[c] <= 1

\* While the scheduler runs undisturbed every registered task has a live
\* coroutine (start() loses none of the names it read).
RegisteredTaskRuns ==
    (running /\ ~signalled /\ AllIdle) =>
        \A n \in Names : Registered(n) =>
            \E c \in Coroutines : Live(c) /\ cname[c] = n

\* Every call returns: no method of the scheduler blocks forever.
CallsReturn == \A p \in Callers : (pc[p] # "idle") ~> (pc[p] = "idle")

\* Once shutdown has been signalled every coroutine terminates.
ShutdownStopsAll ==
    \A c \in Coroutines : (signalled /\ Live(c)) ~> (cpc[c] = "done")

\* Both: locks, signals and joins leave neither a call nor a coroutine hanging.
\* (register, unregister, start, shutdown, spawn_task)
NothingHangs == CallsReturn /\ ShutdownStopsAll

\* While running and registered, a task keeps being fired: from every state
\* some coroutine of its name reaches its callback, or the task is removed or
\* the scheduler is shut down first.
KeepsFiring ==
    \A n \in Names :
        (running /\ AllIdle /\ Registered(n)) ~>
            \/ signalled
            \/ ~Registered(n)
            \/ \E c \in Coroutines : cpc[c] = "callback" /\ cname[c] = n

-----------------------------------------------------------------------------
(* The inductive invariant behind the two callback properties *)

Born(c) == cpc[c] # "unborn"
\* Names that caller p will still hand to tokio::spawn.
Pending(p) == todo[p] \cup
              (IF pc[p] \in {"spawnCheck", "spawnRead"} THEN {cur[p]} ELSE {})

\* Which method each program point belongs to.
PcOfOp ==
    \A p \in Callers :
        /\ pc[p] = "idle" <=> op[p] = "none"
        /\ pc[p] = "regCheck" => op[p] = "register"
        /\ pc[p] \in {"startRead", "spawnPush"} => op[p] = "start"
        /\ pc[p] \in {"spawnCheck", "spawnRead"} => op[p] \in {"register", "start"}
        /\ pc[p] \in {"sdFlag", "sdLock", "sdJoin"}
              <=> op[p] = "shutdown"
        /\ op[p] = "shutdown" => signalled
        /\ pc[p] \in {"regCheck", "spawnCheck", "spawnRead", "spawnPush"}
              => cur[p] \in Names \ todo[p]
        /\ op[p] # "start" => todo[p] = {}
        /\ pc[p] = "startRead" => todo[p] = {}

\* Until the shutdown signal at most one start() ever ran its body, and it
\* spawns every name at most once.
SpawnsOnce ==
    ~signalled =>
        /\ \A p \in Callers : op[p] = "start" => running
        /\ \A p, q \in Callers : op[p] = "start" /\ op[q] = "start" => p = q
        /\ ~running => \A c \in Coroutines : ~Born(c)
        /\ \A c, d \in Coroutines :
              Born(c) /\ Born(d) /\ cname[c] = cname[d] => c = d
        /\ \A p \in Callers, c \in Coroutines : op[p] = "start" /\ Born(c) =>
              pc[p] # "startRead" /\ cname[c] \notin Pending(p)

\* Armed coroutines have different names, also after the signal.
ArmedApart ==
    \A c, d \in Coroutines :
        Armed(c) /\ Armed(d) /\ cname[c] = cname[d] => c = d

\* Registration numbers are never reused, and before the signal a live
\* coroutine can only read its own registration or none.
Registrations ==
    /\ \A n \in Names : tasks[n] <= regs
    /\ \A c \in Coroutines : Born(c) =>
          /\ cname[c] \in Names
          /\ creg[c] \in 1..regs
          /\ ~signalled /\ tasksWriter = NoCaller
                => tasks[cname[c]] \in {0, creg[c]}

\* A coroutine that has spent its stray callback is on its way out.
StrayLeaves ==
    \A c \in Coroutines :
        /\ stray[c] <= 1
        /\ ~Born(c) => stray[c] = 0
        /\ stray[c] = 1 => Retired(c) /\ cpc[c] \in {"callback", "check", "done"}

\* The conjunction that every step preserves; see CronSchedulerProofs.
IndInv == /\ TypeOK /\ PcOfOp /\ SpawnsOnce /\ ArmedApart
          /\ Registrations /\ StrayLeaves
=============================================================================
