------------------------- MODULE WatcherThreadProofs -------------------------
(***************************************************************************)
(* WatchersInOrder for any number of threads, changes and restarts, as     *)
(* long as one application thread makes the calls, starts again only when  *)
(* no stopped thread survives, and no join outlasts its budget.  Of these  *)
(* the code guarantees none: a start that follows a stop at once may find  *)
(* the stopped thread alive, whose last statement then lowers the flag of  *)
(* the new one.  What is left for such callers, and for joins that expire, *)
(* is OneToWatch: HandlesStay.                                             *)
(*                                                                         *)
(* WatchersInOrder is not inductive.  That a second thread is never        *)
(* spawned rests on where the handle of the first one is at each point of  *)
(* a call (HandleFollows); that a thread ends only when told rests on the  *)
(* flag being raised while an untold thread lives, and lowered while a     *)
(* told one does (FlagTells); that a told thread applies once rests on     *)
(* where it can be after that (AppliedOnce).                               *)
(***************************************************************************)
EXTENDS WatcherThread, FiniteSetTheorems, TLAPS

OneCaller == \A p, q \in Callers : p = q

\* The channel of a thread holds no more than the changes there were.
InboxBounded == \A t \in Threads : inbox[t] <= changes

\* Threads are born in the order of their numbers.
BornInOrder ==
    \A t, u \in Threads : t \in Spawned /\ u < t => u \in Spawned

\* A thread that was not born has no history.
UnbornIsBlank ==
    \A t \in Threads : tpc[t] = "unborn" => ~told[t] /\ ~unwatched[t] /\ late[t] = 0

\* Where the handle of a live thread is while the caller is at each point.
HandleFollows ==
    \A p \in Callers, t \in Threads : Alive(t) =>
        /\ pc[p] = "idle" => told[t] \/ slot = t
        /\ pc[p] = "startLock" => slot = t
        /\ pc[p] \in {"joining", "startStore"} => mine[p] = t
        /\ pc[p] = "stopTake" => told[t]
        /\ pc[p] \notin {"startRun", "startSpawn"}

\* Only callers start threads.
CallerNeeded == (\E t \in Threads : tpc[t] # "unborn") => Callers # {}

\* The flag is raised as long as an untold thread lives, and is about to be
\* when one is spawned; it is lowered as long as a told one does.
FlagTells ==
    /\ \A t \in Threads : Alive(t) => running = ~told[t]
    /\ \A t \in Threads : tpc[t] = "exiting" => told[t]
    /\ \A p \in Callers : pc[p] = "startSpawn" => running

\* An apply begun after the call leaves the thread at its last test.
AppliedOnce ==
    \A t \in Threads : late[t] > 0 =>
        /\ late[t] = 1 /\ told[t]
        /\ tpc[t] \in {"apply", "check", "exiting", "done"}

IndInv ==
    /\ TypeOK /\ InboxBounded /\ BornInOrder /\ UnbornIsBlank /\ CallerNeeded
    /\ AtMostOneWatcher /\ HandleFollows /\ FlagTells /\ AppliedOnce
    /\ WatcherSticks


LEMMA InitInv == Init => IndInv
  <1> SUFFICES ASSUME Init PROVE IndInv
    OBVIOUS
  <1>1. TypeOK
    <2>1. 0 \in 0..MaxChanges /\ 0 \in 0..MaxChanges + 1
      BY WatcherAssumption
    <2>2. \A p \in Callers : pc[p] = "joining" <=> slotHolder = p
      BY WatcherAssumption DEF Init
    <2>3. pc \in [Callers -> CallerPCs] /\ tpc \in [Threads -> ThreadPCs]
          /\ mine \in [Callers -> Threads \cup {NoThread}]
      BY DEF Init, NoThread, CallerPCs, ThreadPCs
    <2>4. running \in BOOLEAN /\ slot \in Threads \cup {NoThread}
          /\ slotHolder \in Callers \cup {NoCaller}
          /\ told \in [Threads -> BOOLEAN] /\ unwatched \in [Threads -> BOOLEAN]
      BY DEF Init
    <2>5. inbox \in [Threads -> 0..MaxChanges] /\ changes \in 0..MaxChanges
          /\ applied \in [Threads -> 0..MaxChanges + 1] /\ late \in [Threads -> 0..2]
      BY <2>1 DEF Init
    <2> QED
      BY <2>2, <2>3, <2>4, <2>5 DEF TypeOK
  <1>2. InboxBounded /\ BornInOrder /\ UnbornIsBlank /\ CallerNeeded
    BY DEF Init, InboxBounded, BornInOrder, UnbornIsBlank, CallerNeeded, Spawned
  <1>3. AtMostOneWatcher /\ HandleFollows /\ FlagTells /\ AppliedOnce /\ WatcherSticks
    BY DEF Init, AtMostOneWatcher, HandleFollows, FlagTells, AppliedOnce, WatcherSticks, Alive
  <1> QED
    BY <1>1, <1>2, <1>3 DEF IndInv

-----------------------------------------------------------------------------
(* The calls *)

\* start_watching and stop_watching begin by lowering the flag, which tells
\* every live thread.
LEMMA LowerFlagPreserves ==
    ASSUME IndInv, OneCaller, Patient, NEW p \in Callers, StartFlag(p) \/ StopFlag(p)
    PROVE  IndInv'
  <1>1. /\ running' = FALSE /\ told' = [t \in Threads |-> told[t] \/ Alive(t)]
        /\ UNCHANGED <<slot, slotHolder, mine, tpc, inbox, changes, unwatched, applied, late>>
        /\ pc[p] = "idle"
        /\ \/ pc' = [pc EXCEPT ![p] = "startLock"] /\ MayStart
           \/ pc' = [pc EXCEPT ![p] = "stopTake"]
    BY DEF StartFlag, StopFlag, LowerFlag, Goto
  <1>2. TypeOK'
    BY <1>1 DEF IndInv, TypeOK, CallerPCs, Alive
  <1>3. InboxBounded' /\ BornInOrder' /\ CallerNeeded' /\ AtMostOneWatcher'
    BY <1>1 DEF IndInv, InboxBounded, BornInOrder, CallerNeeded, AtMostOneWatcher, Alive, Spawned
  <1>4. UnbornIsBlank'
    BY <1>1 DEF IndInv, UnbornIsBlank, Alive
  <1>5. HandleFollows'
    <2> SUFFICES ASSUME NEW q \in Callers, NEW t \in Threads, Alive(t)'
                 PROVE  /\ pc'[q] = "idle" => told'[t] \/ slot' = t
                        /\ pc'[q] = "startLock" => slot' = t
                        /\ pc'[q] \in {"joining", "startStore"} => mine'[q] = t
                        /\ pc'[q] = "stopTake" => told'[t]
                        /\ pc'[q] \notin {"startRun", "startSpawn"}
      BY DEF HandleFollows
    <2>1. q = p /\ Alive(t)
      BY <1>1 DEF OneCaller, Alive
    <2>2. told'[t]
      BY <1>1, <2>1
    <2>3. pc'[q] = "startLock" => slot = t
      BY <1>1, <2>1 DEF IndInv, HandleFollows, MayStart, TypeOK
    <2> QED
      BY <1>1, <2>1, <2>2, <2>3 DEF IndInv, TypeOK
  <1>6. FlagTells'
    BY <1>1 DEF IndInv, FlagTells, TypeOK, Alive, OneCaller
  <1>7. AppliedOnce' /\ WatcherSticks'
    BY <1>1 DEF IndInv, AppliedOnce, WatcherSticks, TypeOK
  <1> QED
    BY <1>2, <1>3, <1>4, <1>5, <1>6, <1>7 DEF IndInv

\* The steps of a call that touch no thread.
QuietCall(p) ==
    \/ StartLock(p) \/ StartJoined(p) \/ StartNoWorkspace(p) \/ StartRun(p)
    \/ StartSpawnFails(p) \/ StartStore(p) \/ StopTake(p)

LEMMA QuietCallPreserves ==
    ASSUME IndInv, OneCaller, ~JoinMayExpire, NEW p \in Callers, QuietCall(p)
    PROVE  IndInv'
  <1>1. UNCHANGED <<tpc, inbox, changes, history>>
    BY DEF QuietCall, StartLock, StartJoined, StartNoWorkspace, StartRun, StartSpawnFails,
           StartStore, StopTake
  <1>2. TypeOK'
    <2>1. pc' \in [Callers -> CallerPCs] /\ mine' \in [Callers -> Threads \cup {NoThread}]
          /\ running' \in BOOLEAN /\ slot' \in Threads \cup {NoThread}
      BY DEF IndInv, TypeOK, CallerPCs, Goto, QuietCall, StartLock, StartJoined,
             StartNoWorkspace, StartRun, StartSpawnFails, StartStore, StopTake
    <2>2. slotHolder' \in Callers \cup {NoCaller}
          /\ \A q \in Callers : pc'[q] = "joining" <=> slotHolder' = q
      BY WatcherAssumption
      DEF IndInv, TypeOK, Goto, QuietCall, StartLock, StartJoined,
          StartNoWorkspace, StartRun, StartSpawnFails, StartStore, StopTake, OneCaller
    <2> QED
      BY <1>1, <2>1, <2>2 DEF IndInv, TypeOK, history
  <1>3. InboxBounded' /\ BornInOrder' /\ UnbornIsBlank' /\ CallerNeeded' /\ AtMostOneWatcher'
        /\ AppliedOnce' /\ WatcherSticks'
    BY <1>1 DEF IndInv, InboxBounded, BornInOrder, UnbornIsBlank, CallerNeeded, AtMostOneWatcher,
                AppliedOnce, WatcherSticks, Alive, Spawned, history
  <1>4. HandleFollows'
    <2> SUFFICES ASSUME NEW q \in Callers, NEW t \in Threads, Alive(t)'
                 PROVE  /\ pc'[q] = "idle" => told'[t] \/ slot' = t
                        /\ pc'[q] = "startLock" => slot' = t
                        /\ pc'[q] \in {"joining", "startStore"} => mine'[q] = t
                        /\ pc'[q] = "stopTake" => told'[t]
                        /\ pc'[q] \notin {"startRun", "startSpawn"}
      BY DEF HandleFollows
    <2>1. q = p /\ Alive(t) /\ told' = told
      BY <1>1 DEF OneCaller, Alive, history
    <2>2. CASE StartLock(p)
      BY <2>1, <2>2 DEF StartLock, IndInv, HandleFollows, TypeOK, Goto, NoThread, Threads
    <2>3. CASE StartJoined(p)
      BY <2>1, <2>3 DEF StartJoined, IndInv, HandleFollows, TypeOK, Alive
    <2>4. CASE StartNoWorkspace(p) \/ StartRun(p) \/ StartSpawnFails(p)
      BY <2>1, <2>4 DEF StartNoWorkspace, StartRun, StartSpawnFails, IndInv, HandleFollows
    <2>5. CASE StartStore(p)
      BY <2>1, <2>5 DEF StartStore, IndInv, HandleFollows, TypeOK, Goto
    <2>6. CASE StopTake(p)
      BY <2>1, <2>6 DEF StopTake, IndInv, HandleFollows, TypeOK, Goto
    <2> QED
      BY <2>2, <2>3, <2>4, <2>5, <2>6 DEF QuietCall
  <1>5. FlagTells'
    <2>1. CASE StartRun(p)
      BY <1>1, <2>1 DEF StartRun, IndInv, FlagTells, HandleFollows, Alive, history
    <2>2. CASE ~StartRun(p)
      <3>1. running' = running
        BY <2>2 DEF QuietCall, StartLock, StartJoined, StartNoWorkspace, StartSpawnFails,
                    StartStore, StopTake
      <3>2. \A q \in Callers : pc'[q] # "startSpawn"
        BY <2>2 DEF OneCaller, IndInv, TypeOK, Goto, QuietCall, StartLock, StartJoined,
                    StartNoWorkspace, StartSpawnFails, StartStore, StopTake
      <3> QED
        BY <1>1, <3>1, <3>2 DEF IndInv, FlagTells, Alive, history
    <2> QED
      BY <2>1, <2>2
  <1> QED
    BY <1>2, <1>3, <1>4, <1>5 DEF IndInv

-----------------------------------------------------------------------------
(* The spawn *)

\* As many threads were born as the number of the last one says: threads are
\* born in order, so the next number is free, and the order goes on.
LEMMA NextIsUnborn ==
    ASSUME BornInOrder, MaxThreads \in Nat
    PROVE  /\ Cardinality(Spawned) \in Nat
           /\ \A t \in Threads : t \in Spawned <=> t <= Cardinality(Spawned)
  <1> DEFINE k == Cardinality(Spawned)
  <1>1. IsFiniteSet(Spawned) /\ k \in Nat
    <2>1. IsFiniteSet(Threads)
      BY FS_Interval DEF Threads
    <2> QED
      BY <2>1, FS_Subset, FS_CardinalityType DEF Spawned
  <1>2. ASSUME NEW t \in Threads, t \in Spawned PROVE t <= k
    <2>1. 1..t \subseteq Spawned
      BY <1>2 DEF BornInOrder, Threads
    <2>2. Cardinality(1..t) = t
      BY FS_Interval DEF Threads
    <2> QED
      BY <1>1, <2>1, <2>2, FS_Subset
  <1>3. ASSUME NEW t \in Threads, t \notin Spawned PROVE k < t
    <2>1. Spawned \subseteq 1..(t - 1)
      BY <1>3 DEF BornInOrder, Threads, Spawned
    <2>2. IsFiniteSet(1..(t - 1)) /\ Cardinality(1..(t - 1)) = t - 1
      BY FS_Interval DEF Threads
    <2>3. k <= t - 1
      BY <2>1, <2>2, FS_Subset
    <2> QED
      BY <1>1, <2>3 DEF Threads
  <1> QED
    BY <1>1, <1>2, <1>3 DEF Threads

LEMMA SpawnPreserves ==
    ASSUME IndInv, OneCaller, NEW p \in Callers, StartSpawn(p)
    PROVE  IndInv'
  <1>1. PICK t \in Threads : /\ t = Cardinality(Spawned) + 1
                             /\ tpc' = [tpc EXCEPT ![t] = "init"]
                             /\ mine' = [mine EXCEPT ![p] = t]
    BY DEF StartSpawn
  <1>2. /\ pc[p] = "startSpawn" /\ pc' = [pc EXCEPT ![p] = "startStore"]
        /\ UNCHANGED <<running, slot, slotHolder, inbox, changes, told, unwatched, applied, late>>
    BY DEF StartSpawn, Goto, history
  <1>3. tpc[t] = "unborn" /\ \A u \in Threads : u < t <=> tpc[u] # "unborn"
    <2>1. /\ Cardinality(Spawned) \in Nat
          /\ \A u \in Threads : u \in Spawned <=> u <= Cardinality(Spawned)
      BY NextIsUnborn, WatcherAssumption DEF IndInv
    <2>2. \A u \in Threads : u < t <=> u \in Spawned
      BY <1>1, <2>1 DEF Threads
    <2>3. ~(t < t)
      BY DEF Threads
    <2> QED
      BY <2>2, <2>3 DEF Spawned
  <1>4. running /\ \A u \in Threads : ~Alive(u)
    BY <1>2 DEF IndInv, FlagTells, HandleFollows
  <1>5. tpc \in [Threads -> ThreadPCs] /\ pc \in [Callers -> CallerPCs]
        /\ mine \in [Callers -> Threads \cup {NoThread}]
    BY DEF IndInv, TypeOK
  <1>6. TypeOK'
    BY <1>1, <1>2, <1>5 DEF IndInv, TypeOK, CallerPCs, ThreadPCs
  <1>7. \A u \in Threads : Alive(u)' => u = t
    BY <1>1, <1>4, <1>5 DEF Alive
  <1>8. InboxBounded' /\ CallerNeeded' /\ AtMostOneWatcher' /\ AppliedOnce'
    BY <1>1, <1>2, <1>3, <1>5, <1>7
    DEF IndInv, InboxBounded, CallerNeeded, AtMostOneWatcher, AppliedOnce
  <1>9. BornInOrder' /\ UnbornIsBlank' /\ WatcherSticks'
    BY <1>1, <1>2, <1>3, <1>5
    DEF IndInv, BornInOrder, UnbornIsBlank, WatcherSticks, Spawned, Threads
  <1>10. HandleFollows'
    BY <1>1, <1>2, <1>5, <1>7 DEF HandleFollows, OneCaller
  <1>11. FlagTells'
    BY <1>1, <1>2, <1>3, <1>4, <1>5, <1>7 DEF IndInv, FlagTells, UnbornIsBlank
  <1> QED
    BY <1>6, <1>8, <1>9, <1>10, <1>11 DEF IndInv

-----------------------------------------------------------------------------
(* The thread *)

\* The steps that keep a thread in its loop and begin no apply.
Looping(t) ==
    \/ ThreadWatch(t) \/ ThreadEvent(t) \/ ThreadNotifyError(t) \/ ThreadDrain(t)
    \/ ThreadQuiet(t) \/ ThreadApplied(t)

LEMMA LoopingPreserves ==
    ASSUME IndInv, NEW t \in Threads, Looping(t)
    PROVE  IndInv'
  <1>1. /\ UNCHANGED <<running, slot, slotHolder, callVars, changes, history>>
        /\ inbox' = inbox \/ (inbox[t] > 0 /\ inbox' = [inbox EXCEPT ![t] = @ - 1])
        /\ \E l \in {"wait", "drain", "check"} : tpc' = [tpc EXCEPT ![t] = l]
        /\ tpc[t] \in {"init", "wait", "drain", "apply"}
        /\ tpc[t] = "apply" => tpc'[t] = "check"
    BY DEF IndInv, TypeOK, Looping, ThreadWatch, ThreadEvent, ThreadNotifyError, ThreadDrain, ThreadQuiet,
           ThreadApplied, Step, Take
  <1>2. tpc \in [Threads -> ThreadPCs] /\ inbox \in [Threads -> 0..MaxChanges]
        /\ MaxChanges \in Nat /\ changes \in 0..MaxChanges
    BY WatcherAssumption DEF IndInv, TypeOK
  <1>3. \A u \in Threads : Alive(u)' = Alive(u) /\ (u \in Spawned)' = (u \in Spawned)
    BY <1>1, <1>2 DEF Alive, Spawned
  <1>4. TypeOK' /\ InboxBounded'
    <2>1. inbox' \in [Threads -> 0..MaxChanges] /\ InboxBounded'
      BY <1>1, <1>2 DEF IndInv, InboxBounded
    <2>2. tpc' \in [Threads -> ThreadPCs]
      BY <1>1, <1>2 DEF ThreadPCs
    <2> QED
      BY <1>1, <2>1, <2>2 DEF IndInv, TypeOK, callVars, history
  <1>5. BornInOrder' /\ AtMostOneWatcher' /\ HandleFollows'
    BY <1>1, <1>3 DEF IndInv, BornInOrder, AtMostOneWatcher, HandleFollows, callVars, history
  <1>6. UnbornIsBlank' /\ CallerNeeded' /\ WatcherSticks'
    BY <1>1, <1>2 DEF IndInv, UnbornIsBlank, CallerNeeded, WatcherSticks, history
  <1>7. FlagTells' /\ AppliedOnce'
    BY <1>1, <1>2, <1>3 DEF IndInv, FlagTells, AppliedOnce, callVars, history
  <1> QED
    BY <1>4, <1>5, <1>6, <1>7 DEF IndInv

\* An apply begins: a thread that was told has not begun one since.
LEMMA TimeoutPreserves ==
    ASSUME IndInv, NEW t \in Threads, ThreadTimeout(t)
    PROVE  IndInv'
  <1>1. /\ UNCHANGED <<running, slot, slotHolder, callVars, inbox, changes, told, unwatched>>
        /\ tpc[t] = "wait" /\ tpc' = [tpc EXCEPT ![t] = "apply"]
        /\ applied' = [applied EXCEPT ![t] = changes + 1]
        /\ late' = [late EXCEPT ![t] = IF told[t] /\ @ < 2 THEN @ + 1 ELSE @]
    BY DEF ThreadTimeout, Step
  <1>2. tpc \in [Threads -> ThreadPCs] /\ late \in [Threads -> 0..2]
        /\ applied \in [Threads -> 0..MaxChanges + 1]
        /\ MaxChanges \in Nat /\ changes \in 0..MaxChanges
    BY WatcherAssumption DEF IndInv, TypeOK
  <1>3. late[t] = 0
    BY <1>1, <1>2 DEF IndInv, AppliedOnce
  <1>4. \A u \in Threads : Alive(u)' = Alive(u) /\ (u \in Spawned)' = (u \in Spawned)
    BY <1>1, <1>2 DEF Alive, Spawned
  <1>5. late' = [late EXCEPT ![t] = IF told[t] THEN 1 ELSE 0]
    BY <1>1, <1>2, <1>3
  <1>6. TypeOK'
    <2>1. applied' \in [Threads -> 0..MaxChanges + 1]
      BY <1>1, <1>2
    <2>2. late' \in [Threads -> 0..2]
      BY <1>2, <1>5
    <2>3. tpc' \in [Threads -> ThreadPCs]
      BY <1>1, <1>2 DEF ThreadPCs
    <2> QED
      BY <1>1, <2>1, <2>2, <2>3 DEF IndInv, TypeOK, callVars
  <1>7. InboxBounded' /\ BornInOrder' /\ AtMostOneWatcher' /\ HandleFollows'
    BY <1>1, <1>4
    DEF IndInv, InboxBounded, BornInOrder, AtMostOneWatcher, HandleFollows, callVars
  <1>8. UnbornIsBlank' /\ CallerNeeded' /\ WatcherSticks'
    BY <1>1, <1>2, <1>5 DEF IndInv, UnbornIsBlank, CallerNeeded, WatcherSticks
  <1>9. FlagTells' /\ AppliedOnce'
    BY <1>1, <1>2, <1>4, <1>5 DEF IndInv, FlagTells, AppliedOnce, callVars
  <1> QED
    BY <1>6, <1>7, <1>8, <1>9 DEF IndInv

\* The test of the flag: a thread that goes on was not told, so it has not
\* begun an apply since; a thread that leaves was.
LEMMA CheckPreserves ==
    ASSUME IndInv, NEW t \in Threads, ThreadCheck(t)
    PROVE  IndInv'
  <1>1. /\ UNCHANGED <<running, slot, slotHolder, callVars, inbox, changes, history>>
        /\ tpc[t] = "check"
        /\ tpc' = [tpc EXCEPT ![t] = IF running THEN "wait" ELSE "exiting"]
    BY DEF ThreadCheck, Step
  <1>2. tpc \in [Threads -> ThreadPCs]
    BY DEF IndInv, TypeOK
  <1>3. \A u \in Threads : Alive(u)' = Alive(u) /\ (u \in Spawned)' = (u \in Spawned)
    BY <1>1, <1>2 DEF Alive, Spawned
  <1>4. running = ~told[t]
    BY <1>1 DEF IndInv, FlagTells, Alive
  <1>5. TypeOK'
    BY <1>1, <1>2 DEF IndInv, TypeOK, callVars, history, ThreadPCs
  <1>6. InboxBounded' /\ BornInOrder' /\ AtMostOneWatcher' /\ HandleFollows'
    BY <1>1, <1>3
    DEF IndInv, InboxBounded, BornInOrder, AtMostOneWatcher, HandleFollows, callVars, history
  <1>7. UnbornIsBlank' /\ CallerNeeded'
    BY <1>1, <1>2 DEF IndInv, UnbornIsBlank, CallerNeeded, history
  <1>8. FlagTells' /\ AppliedOnce' /\ WatcherSticks'
    BY <1>1, <1>2, <1>3, <1>4 DEF IndInv, FlagTells, AppliedOnce, WatcherSticks, callVars, history
  <1> QED
    BY <1>5, <1>6, <1>7, <1>8 DEF IndInv

\* A thread ends, at once or by leaving its loop: it was the only one, and
\* nobody is about to spawn another.
LEMMA EndPreserves ==
    ASSUME IndInv, NEW t \in Threads, ThreadExit(t) \/ ThreadWatchFails(t)
    PROVE  IndInv'
  <1>1. /\ UNCHANGED <<slot, slotHolder, callVars, inbox, changes, told, applied, late>>
        /\ running' = FALSE
        /\ tpc[t] \in {"init", "exiting"} /\ tpc' = [tpc EXCEPT ![t] = "done"]
        /\ \/ unwatched' = unwatched /\ tpc[t] = "exiting"
           \/ unwatched' = [unwatched EXCEPT ![t] = TRUE]
    BY DEF ThreadExit, ThreadWatchFails, Step, history
  <1>2. tpc \in [Threads -> ThreadPCs] /\ unwatched \in [Threads -> BOOLEAN]
    BY DEF IndInv, TypeOK
  <1>3. \A u \in Threads : ~Alive(u)' /\ (u \in Spawned)' = (u \in Spawned)
    BY <1>1, <1>2 DEF IndInv, AtMostOneWatcher, Alive, Spawned
  <1>4. \A p \in Callers : pc[p] # "startSpawn"
    BY <1>1 DEF IndInv, HandleFollows, Alive
  <1>5. TypeOK'
    BY <1>1, <1>2 DEF IndInv, TypeOK, callVars, ThreadPCs
  <1>6. InboxBounded' /\ BornInOrder' /\ AtMostOneWatcher' /\ HandleFollows'
    BY <1>1, <1>3
    DEF IndInv, InboxBounded, BornInOrder, AtMostOneWatcher, HandleFollows
  <1>7. UnbornIsBlank' /\ CallerNeeded' /\ WatcherSticks' /\ AppliedOnce'
    BY <1>1, <1>2
    DEF IndInv, UnbornIsBlank, CallerNeeded, WatcherSticks, AppliedOnce, FlagTells
  <1>8. FlagTells'
    BY <1>1, <1>2, <1>3, <1>4 DEF IndInv, FlagTells, callVars
  <1> QED
    BY <1>5, <1>6, <1>7, <1>8 DEF IndInv

LEMMA FileChangePreserves ==
    ASSUME IndInv, FileChange
    PROVE  IndInv'
  <1>1. UNCHANGED <<running, slot, slotHolder, callVars, tpc, history>>
    BY DEF FileChange
  <1>2. /\ changes' \in 0..MaxChanges /\ inbox' \in [Threads -> 0..MaxChanges]
        /\ InboxBounded'
    BY WatcherAssumption DEF FileChange, IndInv, TypeOK, InboxBounded
  <1> QED
    BY <1>1, <1>2
    DEF IndInv, TypeOK, BornInOrder, UnbornIsBlank, CallerNeeded, AtMostOneWatcher, HandleFollows,
        FlagTells, AppliedOnce, WatcherSticks, Alive, Spawned, callVars, history

-----------------------------------------------------------------------------

LEMMA StepPreserves ==
    ASSUME IndInv, OneCaller, Patient, ~JoinMayExpire, [Next]_vars
    PROVE  IndInv'
  <1>1. CASE UNCHANGED vars
    BY <1>1
    DEF vars, callVars, history, IndInv, TypeOK, InboxBounded, BornInOrder, UnbornIsBlank,
        CallerNeeded, AtMostOneWatcher, HandleFollows, FlagTells, AppliedOnce, WatcherSticks,
        Alive, Spawned
  <1>2. ASSUME NEW p \in Callers, StartFlag(p) \/ StopFlag(p) PROVE IndInv'
    BY <1>2, LowerFlagPreserves
  <1>3. ASSUME NEW p \in Callers, CallStep(p) PROVE IndInv'
    BY <1>3, QuietCallPreserves, SpawnPreserves DEF CallStep, QuietCall
  <1>4. ASSUME NEW t \in Threads, ThreadStep(t) PROVE IndInv'
    BY <1>4, LoopingPreserves, TimeoutPreserves, CheckPreserves, EndPreserves
    DEF ThreadStep, Looping
  <1>5. CASE FileChange
    BY <1>5, FileChangePreserves
  <1> QED
    BY <1>1, <1>2, <1>3, <1>4, <1>5 DEF Next

LEMMA InvImplies == IndInv => WatchersInOrder
  <1> SUFFICES ASSUME IndInv PROVE OneApplyAfterStop /\ HandlesKept
    BY DEF IndInv, WatchersInOrder
  <1>1. OneApplyAfterStop
    BY DEF IndInv, AppliedOnce, OneApplyAfterStop, TypeOK
  <1>2. HandlesKept
    <2> SUFFICES ASSUME NEW t \in Threads, Alive(t), ~told[t]
                 PROVE  slot = t \/ \E p \in Callers : mine[p] = t
      BY DEF HandlesKept
    <2>1. PICK p \in Callers : TRUE
      BY DEF IndInv, CallerNeeded, Alive
    <2>2. pc[p] \in CallerPCs
      BY DEF IndInv, TypeOK
    <2> QED
      BY <2>2 DEF IndInv, HandleFollows, CallerPCs
  <1> QED
    BY <1>1, <1>2

\* Restarts, stops and exits in any order leave one watcher at most, with a
\* handle, and one that leaves, after at most one more apply, only because it
\* was told; for an application with one thread that calls, which after a stop
\* waits for the thread to end before it starts again (Patient; the code does
\* not make it wait, and without it the last statement of the stopped thread
\* stops the new one), and joins that end.
\* (start_watching, stop_watching and the thread's body)
THEOREM WatchersStayInOrder ==
    ASSUME OneCaller, Patient, ~JoinMayExpire
    PROVE  Spec => []WatchersInOrder
  <1>1. Init => IndInv
    BY InitInv
  <1>2. IndInv /\ [Next]_vars => IndInv'
    BY StepPreserves
  <1>3. IndInv => WatchersInOrder
    BY InvImplies
  <1> QED
    BY <1>1, <1>2, <1>3, PTL DEF Spec

-----------------------------------------------------------------------------
(* Callers that start over a stopped thread, and joins that expire *)

\* A thread that lives and was not told to stop.
Untold(t) == Alive(t) /\ ~told[t]
OneToWatch == \A t, u \in Threads : Untold(t) /\ Untold(u) => t = u

\* Every call begins by telling all; only the last step of a start leaves an
\* untold thread behind, whose handle it holds and then stores.
UntoldFollows ==
    \A p \in Callers, t \in Threads : Untold(t) =>
        (pc[p] = "idle" /\ slot = t) \/ (pc[p] = "startStore" /\ mine[p] = t)
Typed ==
    /\ pc \in [Callers -> CallerPCs] /\ mine \in [Callers -> Threads \cup {NoThread}]
    /\ slot \in Threads \cup {NoThread} /\ tpc \in [Threads -> ThreadPCs]
UntoldInv == Typed /\ CallerNeeded /\ UntoldFollows

LEMMA UntoldInit == Init => UntoldInv
  <1> SUFFICES ASSUME Init PROVE UntoldInv
    OBVIOUS
  <1>1. Typed
    BY DEF Init, Typed, NoThread, CallerPCs, ThreadPCs
  <1>2. CallerNeeded /\ UntoldFollows
    BY DEF Init, CallerNeeded, UntoldFollows, Untold, Alive
  <1> QED
    BY <1>1, <1>2 DEF UntoldInv

\* The calls that tell, the spawn and the other steps of a call.
LEMMA UntoldOverCalls ==
    ASSUME OneCaller, UntoldInv, NEW p \in Callers, StartFlag(p) \/ StopFlag(p) \/ CallStep(p)
    PROVE  UntoldInv'
  <1>1. \A q \in Callers : q = p
    BY DEF OneCaller
  <1>2. CallerNeeded'
    BY DEF CallerNeeded
  <1>3. CASE StartFlag(p) \/ StopFlag(p)
    <2>1. /\ UNCHANGED <<mine, slot, tpc>> /\ told' = [t \in Threads |-> told[t] \/ Alive(t)]
          /\ pc' = [pc EXCEPT ![p] = "startLock"] \/ pc' = [pc EXCEPT ![p] = "stopTake"]
      BY <1>3 DEF StartFlag, StopFlag, LowerFlag, Goto
    <2>2. \A t \in Threads : ~Untold(t)'
      BY <2>1 DEF Untold, Alive
    <2>3. Typed'
      BY <2>1 DEF UntoldInv, Typed, CallerPCs
    <2> QED
      BY <1>2, <2>2, <2>3 DEF UntoldInv, UntoldFollows
  <1>4. CASE StartSpawn(p)
    <2>1. PICK t \in Threads : tpc' = [tpc EXCEPT ![t] = "init"] /\ mine' = [mine EXCEPT ![p] = t]
      BY <1>4 DEF StartSpawn
    <2>2. pc[p] = "startSpawn" /\ pc' = [pc EXCEPT ![p] = "startStore"] /\ told' = told /\ slot' = slot
      BY <1>4 DEF StartSpawn, Goto, history
    <2>3. \A u \in Threads : ~Untold(u)
      BY <2>2 DEF UntoldInv, UntoldFollows
    <2>4. \A u \in Threads : Untold(u)' => u = t
      BY <2>1, <2>2, <2>3 DEF UntoldInv, Typed, Untold, Alive
    <2>5. Typed'
      BY <2>1, <2>2 DEF UntoldInv, Typed, CallerPCs, ThreadPCs
    <2>6. pc'[p] = "startStore" /\ mine'[p] = t
      BY <2>1, <2>2 DEF UntoldInv, Typed
    <2> QED
      BY <1>1, <1>2, <2>4, <2>5, <2>6 DEF UntoldInv, UntoldFollows
  <1>5. CASE QuietCall(p)
    <2>1. UNCHANGED <<told, tpc>>
      BY <1>5 DEF QuietCall, StartLock, StartJoined, StartNoWorkspace, StartRun, StartSpawnFails,
                  StartStore, StopTake, history
    <2>2. \A t \in Threads : Untold(t)' = Untold(t)
      BY <2>1 DEF Untold, Alive
    <2>3. Typed'
      BY <1>5, <2>1
      DEF UntoldInv, Typed, CallerPCs, Goto, QuietCall, StartLock, StartJoined,
          StartNoWorkspace, StartRun, StartSpawnFails, StartStore, StopTake
    <2>4. CASE StartStore(p)
      <3>1. slot' = mine[p] /\ pc' = [pc EXCEPT ![p] = "idle"] /\ pc[p] = "startStore"
        BY <2>4 DEF StartStore, Goto
      <3>2. \A t \in Threads : Untold(t) => mine[p] = t
        BY <3>1 DEF UntoldInv, UntoldFollows
      <3>3. pc'[p] = "idle"
        BY <3>1 DEF UntoldInv, Typed
      <3> QED
        BY <1>1, <1>2, <2>2, <2>3, <3>1, <3>2, <3>3 DEF UntoldInv, UntoldFollows
    <2>5. CASE ~StartStore(p)
      <3>1. pc[p] \notin {"idle", "startStore"}
        BY <1>5, <2>5 DEF QuietCall, StartLock, StartJoined, StartNoWorkspace, StartRun,
                          StartSpawnFails, StopTake
      <3>2. \A t \in Threads : ~Untold(t)
        BY <3>1 DEF UntoldInv, UntoldFollows
      <3> QED
        BY <1>2, <2>2, <2>3, <3>2 DEF UntoldInv, UntoldFollows
    <2> QED
      BY <2>4, <2>5
  <1> QED
    BY <1>3, <1>4, <1>5 DEF CallStep, QuietCall

\* A thread goes on or ends; it makes none, and none that was told is untold.
LEMMA UntoldOverThreads ==
    ASSUME UntoldInv, NEW t \in Threads, ThreadStep(t)
    PROVE  UntoldInv'
  <1>1. tpc[t] \notin {"unborn", "done"}
        /\ \E l \in ThreadPCs \ {"unborn"} : tpc' = [tpc EXCEPT ![t] = l]
    BY DEF ThreadStep, ThreadWatch, ThreadWatchFails, ThreadEvent, ThreadNotifyError, ThreadDrain,
           ThreadQuiet, ThreadTimeout, ThreadApplied, ThreadCheck, ThreadExit, Step, ThreadPCs
  <1>2. UNCHANGED <<pc, mine, slot, told>>
    BY DEF ThreadStep, ThreadWatch, ThreadWatchFails, ThreadEvent, ThreadNotifyError, ThreadDrain,
           ThreadQuiet, ThreadTimeout, ThreadApplied, ThreadCheck, ThreadExit, callVars, history
  <1>3. Typed'
    BY <1>1, <1>2 DEF UntoldInv, Typed
  <1>4. CallerNeeded'
    BY <1>1 DEF UntoldInv, CallerNeeded
  <1>5. \A u \in Threads : Untold(u)' => Untold(u)
    BY <1>1, <1>2 DEF UntoldInv, Typed, Untold, Alive
  <1> QED
    BY <1>2, <1>3, <1>4, <1>5 DEF UntoldInv, UntoldFollows

\* For an application with one thread that calls, however soon it starts
\* again and whether or not its joins expire: of all the threads started and
\* not yet ended at most one was not told to stop, and the handle of that one
\* is never lost.  (start_watching, stop_watching)
THEOREM HandlesStay ==
    ASSUME OneCaller
    PROVE  Spec => [](OneToWatch /\ HandlesKept)
  <1>1. Init => UntoldInv
    BY UntoldInit
  <1>2. UntoldInv /\ [Next]_vars => UntoldInv'
    <2> SUFFICES ASSUME UntoldInv, [Next]_vars PROVE UntoldInv'
      OBVIOUS
    <2>1. CASE FileChange \/ UNCHANGED vars
      <3>1. UNCHANGED <<pc, mine, slot, told, tpc>>
        BY <2>1 DEF FileChange, vars, callVars, history
      <3> QED
        BY <3>1 DEF UntoldInv, Typed, CallerNeeded, UntoldFollows, Untold, Alive
    <2> QED
      BY <2>1, UntoldOverCalls, UntoldOverThreads DEF Next
  <1>3. UntoldInv => OneToWatch /\ HandlesKept
    <2> SUFFICES ASSUME UntoldInv, NEW t \in Threads, Untold(t)
                 PROVE  /\ slot = t \/ \E p \in Callers : mine[p] = t
                        /\ \A u \in Threads : Untold(u) => t = u
      BY DEF OneToWatch, HandlesKept, Untold
    <2>1. PICK p \in Callers : TRUE
      BY DEF UntoldInv, CallerNeeded, Untold, Alive
    <2> QED
      BY <2>1 DEF UntoldInv, UntoldFollows
  <1> QED
    BY <1>1, <1>2, <1>3, PTL DEF Spec
=============================================================================
