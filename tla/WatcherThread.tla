--------------------------- MODULE WatcherThread ---------------------------
(***************************************************************************)
(* The file watcher of the extension crate                                 *)
(* (crates/clash-prism-extension/src/extension.rs, start_watching,         *)
(* stop_watching, is_watching and the body of the "prism-watcher" thread). *)
(*                                                                         *)
(* One flag (`watcher_running`) is shared by the callers and by every      *)
(* watcher thread ever started; one slot (`watcher_thread`) holds the      *)
(* handle of the last one.  Each thread owns a notify watcher feeding its  *)
(* own channel.  Elapsed time is abstract: recv_timeout(debounce) times    *)
(* out only on an empty channel, and last_event is then always at least    *)
(* one debounce old, so the test on line 641 is true whenever reached.     *)
(***************************************************************************)
EXTENDS Naturals, FiniteSets

CONSTANTS
    Callers,        \* application threads calling start and stop
    NoCaller,       \* "nobody holds the lock of the slot"
    MaxThreads,     \* bound: watcher threads ever spawned
    MaxChanges,     \* bound: file changes in the workspace
    JoinMayExpire,  \* may the old thread outlast the 5 s join budget?
    Patient,        \* do callers start only when no stopped thread survives?
    HostMayFail     \* may the workspace, the spawn or the watch fail?

Threads == 1..MaxThreads
NoThread == 0

ASSUME WatcherAssumption ==
    /\ NoCaller \notin Callers
    /\ MaxThreads \in Nat /\ MaxChanges \in Nat
    /\ JoinMayExpire \in BOOLEAN /\ Patient \in BOOLEAN /\ HostMayFail \in BOOLEAN

VARIABLES
    running,     \* watcher_running
    slot,        \* watcher_thread: the handle kept, or NoThread
    slotHolder,  \* caller holding the lock of the slot while it joins
    pc, mine,    \* caller -> where in its call; thread it joins or spawned
    tpc,         \* thread -> where in its body
    inbox,       \* thread -> notifications waiting in its channel
    changes,     \* file changes so far
    told,        \* history: the flag was lowered by a caller since the spawn
    unwatched,   \* history: the watch of this thread could not be created
    applied,     \* history: thread -> 1 + the changes before its last apply
                 \* began, 0 when it has not applied yet
    late         \* history: thread -> applies begun since it was told, up to 2

callVars == <<pc, mine>>
history  == <<told, unwatched, applied, late>>
vars == <<running, slot, slotHolder, callVars, tpc, inbox, changes, history>>

CallerPCs == {"idle", "startLock", "joining", "startRun", "startSpawn",
              "startStore", "stopTake"}
ThreadPCs == {"unborn", "init", "wait", "drain", "apply", "check", "exiting",
              "done"}

Alive(t)    == tpc[t] \notin {"unborn", "done"}
Watching(t) == tpc[t] \in {"wait", "drain", "apply", "check"}
Spawned     == {t \in Threads : tpc[t] # "unborn"}

TypeOK ==
    /\ running \in BOOLEAN
    /\ slot \in Threads \cup {NoThread}
    /\ slotHolder \in Callers \cup {NoCaller}
    /\ pc \in [Callers -> CallerPCs]
    /\ mine \in [Callers -> Threads \cup {NoThread}]
    /\ tpc \in [Threads -> ThreadPCs]
    /\ inbox \in [Threads -> 0..MaxChanges]
    /\ changes \in 0..MaxChanges
    /\ told \in [Threads -> BOOLEAN]
    /\ unwatched \in [Threads -> BOOLEAN]
    /\ applied \in [Threads -> 0..MaxChanges + 1]
    /\ late \in [Threads -> 0..2]
    \* only a start() waiting in its join keeps the lock across steps
    /\ \A p \in Callers : pc[p] = "joining" <=> slotHolder = p

Init ==
    /\ running = FALSE
    /\ slot = NoThread
    /\ slotHolder = NoCaller
    /\ pc = [p \in Callers |-> "idle"]
    /\ mine = [p \in Callers |-> NoThread]
    /\ tpc = [t \in Threads |-> "unborn"]
    /\ inbox = [t \in Threads |-> 0]
    /\ changes = 0
    /\ told = [t \in Threads |-> FALSE]
    /\ unwatched = [t \in Threads |-> FALSE]
    /\ applied = [t \in Threads |-> 0]
    /\ late = [t \in Threads |-> 0]

Goto(p, l) == pc' = [pc EXCEPT ![p] = l]

-----------------------------------------------------------------------------
(* start_watching and stop_watching *)

\* MUTANT of LowerFlag: the flag is left alone.
MutFlagKept ==
    /\ running' = running
    /\ told' = [t \in Threads |-> told[t] \/ Alive(t)]

\* The first statement of both calls; it addresses every thread alive.
LowerFlag ==
    /\ running' = FALSE
    /\ told' = [t \in Threads |-> told[t] \/ Alive(t)]

\* The callers' protocol when Patient.
MayStart == Patient => \A t \in Threads : Alive(t) => ~told[t]

\* The calls in flight that may still spawn (for the bound only).
Starting == {p \in Callers : pc[p] \in {"startLock", "joining", "startRun", "startSpawn"}}

StartFlag(p) ==
    /\ pc[p] = "idle" /\ MayStart
    /\ Cardinality(Spawned) + Cardinality(Starting) < MaxThreads
    /\ LowerFlag
    /\ Goto(p, "startLock")
    /\ UNCHANGED <<slot, slotHolder, mine, tpc, inbox, changes, unwatched,
                   applied, late>>

\* MUTANT of StartLock: the old handle is dropped instead of joined.
MutNoJoin(p) ==
    /\ pc[p] = "startLock" /\ slotHolder = NoCaller
    /\ Goto(p, "startRun")
    /\ slot' = NoThread
    /\ UNCHANGED <<running, slotHolder, mine, tpc, inbox, changes, history>>

\* Takes the handle of the old thread, if any, and joins it under the lock.
StartLock(p) ==
    /\ pc[p] = "startLock" /\ slotHolder = NoCaller
    /\ IF slot = NoThread
       THEN Goto(p, "startRun") /\ UNCHANGED <<slotHolder, mine>>
       ELSE /\ Goto(p, "joining")
            /\ slotHolder' = p
            /\ mine' = [mine EXCEPT ![p] = slot]
    /\ slot' = NoThread
    /\ UNCHANGED <<running, tpc, inbox, changes, history>>

\* The lock is released when the join returns or its 5 s are over.
StartJoined(p) ==
    /\ pc[p] = "joining"
    /\ tpc[mine[p]] = "done" \/ JoinMayExpire
    /\ slotHolder' = NoCaller
    /\ mine' = [mine EXCEPT ![p] = NoThread]
    /\ Goto(p, "startRun")
    /\ UNCHANGED <<running, slot, tpc, inbox, changes, history>>

StartNoWorkspace(p) ==
    /\ pc[p] = "startRun" /\ HostMayFail
    /\ Goto(p, "idle")
    /\ UNCHANGED <<running, slot, slotHolder, mine, tpc, inbox, changes, history>>

StartRun(p) ==
    /\ pc[p] = "startRun"
    /\ running' = TRUE
    /\ Goto(p, "startSpawn")
    /\ UNCHANGED <<slot, slotHolder, mine, tpc, inbox, changes, history>>

StartSpawn(p) ==
    /\ pc[p] = "startSpawn"
    /\ \E t \in Threads :
          /\ t = Cardinality(Spawned) + 1
          /\ tpc' = [tpc EXCEPT ![t] = "init"]
          /\ mine' = [mine EXCEPT ![p] = t]
    /\ Goto(p, "startStore")
    /\ UNCHANGED <<running, slot, slotHolder, inbox, changes, history>>

\* The thread cannot be created: the call fails, the flag stays raised.
StartSpawnFails(p) ==
    /\ pc[p] = "startSpawn" /\ HostMayFail
    /\ Goto(p, "idle")
    /\ UNCHANGED <<running, slot, slotHolder, mine, tpc, inbox, changes, history>>

StartStore(p) ==
    /\ pc[p] = "startStore" /\ slotHolder = NoCaller
    /\ slot' = mine[p]
    /\ mine' = [mine EXCEPT ![p] = NoThread]
    /\ Goto(p, "idle")
    /\ UNCHANGED <<running, slotHolder, tpc, inbox, changes, history>>

StopFlag(p) ==
    /\ pc[p] = "idle"
    /\ LowerFlag
    /\ Goto(p, "stopTake")
    /\ UNCHANGED <<slot, slotHolder, mine, tpc, inbox, changes, unwatched,
                   applied, late>>

\* The handle is joined by a helper thread, which no one waits for.
StopTake(p) ==
    /\ pc[p] = "stopTake" /\ slotHolder = NoCaller
    /\ slot' = NoThread
    /\ Goto(p, "idle")
    /\ UNCHANGED <<running, slotHolder, mine, tpc, inbox, changes, history>>

-----------------------------------------------------------------------------
(* The watcher thread *)

Step(t, from, to) == tpc[t] = from /\ tpc' = [tpc EXCEPT ![t] = to]

\* Changes made before the watch is registered are not reported.
ThreadWatch(t) ==
    /\ Step(t, "init", "wait")
    /\ UNCHANGED <<running, slot, slotHolder, callVars, inbox, changes, history>>

ThreadWatchFails(t) ==
    /\ HostMayFail
    /\ Step(t, "init", "done")
    /\ running' = FALSE
    /\ unwatched' = [unwatched EXCEPT ![t] = TRUE]
    /\ UNCHANGED <<slot, slotHolder, callVars, inbox, changes, told, applied, late>>

Take(t) == inbox[t] > 0 /\ inbox' = [inbox EXCEPT ![t] = @ - 1]

ThreadEvent(t) ==
    /\ Step(t, "wait", "drain") /\ Take(t)
    /\ UNCHANGED <<running, slot, slotHolder, callVars, changes, history>>

\* The notification is an error: `continue` skips the test of the flag.
ThreadNotifyError(t) ==
    /\ Step(t, "wait", "wait") /\ Take(t)
    /\ UNCHANGED <<running, slot, slotHolder, callVars, changes, history>>

ThreadDrain(t) ==
    /\ Step(t, "drain", "drain") /\ Take(t)
    /\ UNCHANGED <<running, slot, slotHolder, callVars, changes, history>>

ThreadQuiet(t) ==
    /\ Step(t, "drain", "check") /\ inbox[t] = 0
    /\ UNCHANGED <<running, slot, slotHolder, callVars, inbox, changes, history>>

\* MUTANT of ThreadTimeout: an idle timeout compiles nothing.
MutNoApply(t) ==
    /\ Step(t, "wait", "check") /\ inbox[t] = 0
    /\ UNCHANGED <<running, slot, slotHolder, callVars, inbox, changes, history>>

\* One debounce without notification: a full apply starts (PrismExtension).
ThreadTimeout(t) ==
    /\ Step(t, "wait", "apply") /\ inbox[t] = 0
    /\ applied' = [applied EXCEPT ![t] = changes + 1]
    /\ late' = [late EXCEPT ![t] = IF told[t] /\ @ < 2 THEN @ + 1 ELSE @]
    /\ UNCHANGED <<running, slot, slotHolder, callVars, inbox, changes, told,
                   unwatched>>

\* The apply returned, Ok or Err; the host is notified.
ThreadApplied(t) ==
    /\ Step(t, "apply", "check")
    /\ UNCHANGED <<running, slot, slotHolder, callVars, inbox, changes, history>>

ThreadCheck(t) ==
    /\ IF running THEN Step(t, "check", "wait") ELSE Step(t, "check", "exiting")
    /\ UNCHANGED <<running, slot, slotHolder, callVars, inbox, changes, history>>

\* The last statement lowers the flag, whoever raised it last.
ThreadExit(t) ==
    /\ Step(t, "exiting", "done")
    /\ running' = FALSE
    /\ UNCHANGED <<slot, slotHolder, callVars, inbox, changes, history>>

-----------------------------------------------------------------------------

\* A file of the workspace changes: every registered watch reports it.
FileChange ==
    /\ changes < MaxChanges
    /\ changes' = changes + 1
    /\ inbox' = [t \in Threads |-> IF Watching(t) THEN inbox[t] + 1 ELSE inbox[t]]
    /\ UNCHANGED <<running, slot, slotHolder, callVars, tpc, history>>

CallStep(p) ==
    \/ StartLock(p) \/ StartJoined(p) \/ StartNoWorkspace(p) \/ StartRun(p)
    \/ StartSpawn(p) \/ StartSpawnFails(p) \/ StartStore(p) \/ StopTake(p)

ThreadStep(t) ==
    \/ ThreadWatch(t) \/ ThreadWatchFails(t) \/ ThreadEvent(t)
    \/ ThreadNotifyError(t) \/ ThreadDrain(t) \/ ThreadQuiet(t)
    \/ ThreadTimeout(t) \/ ThreadApplied(t) \/ ThreadCheck(t) \/ ThreadExit(t)

Next ==
    \/ \E p \in Callers : StartFlag(p) \/ StopFlag(p) \/ CallStep(p)
    \/ \E t \in Threads : ThreadStep(t)
    \/ FileChange

Spec == Init /\ [][Next]_vars

\* Threads keep running and calls in progress go on; nobody has to call, no
\* file has to change.
FairSpec ==
    /\ Spec
    /\ \A p \in Callers : WF_vars(CallStep(p))
    /\ \A t \in Threads : WF_vars(ThreadStep(t))

-----------------------------------------------------------------------------
(* Safety *)

\* There are never two watcher threads: start_watching replaces the old one
\* (two of them would apply the same patches concurrently).
AtMostOneWatcher == \A t, u \in Threads : Alive(t) /\ Alive(u) => t = u

\* A watcher leaves its loop only because a caller asked: no other thread's
\* exit, and no restart, takes it down.
WatcherSticks ==
    \A t \in Threads : tpc[t] \in {"exiting", "done"} => told[t] \/ unwatched[t]

\* A thread that was told to stop begins at most one more apply.
OneApplyAfterStop == \A t \in Threads : late[t] <= 1

\* No live thread becomes unreachable: its handle is in the slot, on its way
\* there, being joined, or was given up by a stop or a start.
HandlesKept ==
    \A t \in Threads : Alive(t) => told[t] \/ slot = t \/ \E p \in Callers : mine[p] = t

\* Restarts, stops and exits in any order leave one watcher at most, with a handle, and one that
\* leaves, after at most one more apply, only because it was told.
\* (start_watching, stop_watching and the thread's body)
WatchersInOrder == TypeOK /\ AtMostOneWatcher /\ WatcherSticks /\ OneApplyAfterStop /\ HandlesKept

(* Liveness *)

\* A thread that was told to stop ends: the loop sees the lowered flag.
ToldThreadsEnd == \A t \in Threads : told[t] ~> tpc[t] = "done"

\* Every call returns: the thread a start joins, holding the lock of the slot,
\* sees the lowered flag whatever notifications it has to work off first.
CallsReturn == \A p \in Callers : pc[p] # "idle" ~> pc[p] = "idle"

\* Both: neither the joining call nor the joined thread waits for the other for ever.
\* (start_watching joins while it holds the slot's lock)
NobodyHangs == ToldThreadsEnd /\ CallsReturn

\* No change is missed: a watching thread starts an apply that sees it, even
\* if its notification was an error or was drained with others, unless the
\* thread is told to stop.
ChangesApplied ==
    \A t \in Threads : \A v \in 1..MaxChanges :
        (Watching(t) /\ changes = v) ~> (applied[t] > v \/ told[t])
=============================================================================
