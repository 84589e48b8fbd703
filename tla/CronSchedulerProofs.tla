------------------------ MODULE CronSchedulerProofs ------------------------
(***************************************************************************)
(* The two callback properties of CronScheduler, for any number of         *)
(* callers, task names and coroutines: IndInv holds initially, every       *)
(* action preserves it, and it implies both.  Caller actions leave the     *)
(* coroutines alone except SpawnRead, which adds one; coroutine actions    *)
(* leave every caller variable alone.                                      *)
(***************************************************************************)
EXTENDS CronScheduler, SequenceTheorems, TLAPS

USE CronAssumption DEF Coroutines

\* A new scheduler satisfies the invariant.
LEMMA InitInv == Init => IndInv
<1> SUFFICES ASSUME Init PROVE IndInv
  OBVIOUS
<1> USE DEF Init
<1>1. SharedTypes
  <2>1. handles \in Seq(Coroutines)
    BY SMT
  <2>2. tasks \in [Names -> Nat] /\ regs \in Nat /\ starts \in Nat
    BY SMT
  <2> QED  BY <2>1, <2>2 DEF SharedTypes
<1>2. CallerTypes
  BY SMT DEF CallerTypes, Ops, CallerPCs
<1>3. CoroutineTypes
  BY SMT DEF CoroutineTypes, CoPCs
<1>4. LockOwners
  BY SMT DEF LockOwners
<1>5. PcOfOp
  BY SMT DEF PcOfOp
<1>6. SpawnsOnce
  BY SMT DEF SpawnsOnce, Born, Pending
<1>7. ArmedApart
  BY SMT DEF ArmedApart, Armed, Born
<1>8. Registrations
  BY SMT DEF Registrations, Born
<1>9. StrayLeaves
  BY SMT DEF StrayLeaves, Born, Retired
<1> QED  BY <1>1, <1>2, <1>3, <1>4, <1>5, <1>6, <1>7, <1>8, <1>9 DEF IndInv,
   TypeOK

\* Steps that do not touch the coroutines keep what is said of them alone.
LEMMA CoroutineFrame ==
  ASSUME IndInv, UNCHANGED coVars
  PROVE  CoroutineTypes' /\ ArmedApart'
BY DEF IndInv, TypeOK, coVars, CoroutineTypes, ArmedApart, Armed

\* Steps of coroutines keep what is said of the callers alone.
LEMMA CallerFrame ==
  ASSUME IndInv, UNCHANGED callerState
  PROVE  SharedTypes' /\ CallerTypes' /\ LockOwners' /\ PcOfOp'
BY DEF IndInv, TypeOK, callerState, callVars, SharedTypes, CallerTypes,
       LockOwners, PcOfOp

\* What SpawnOneOf does: p returns, or it goes on with one name of S.
Finished(p) ==
    /\ op'[p] = "none" /\ pc'[p] = "idle" /\ cur'[p] = NoName
    /\ todo'[p] = {}
    /\ tasksWriter' = IF tasksWriter = p THEN NoCaller ELSE tasksWriter
GoesOn(p, S) ==
    /\ op'[p] = op[p] /\ pc'[p] = "spawnCheck"
    /\ cur'[p] \in S /\ todo'[p] = S \ {cur'[p]}
    /\ tasksWriter' = tasksWriter
OthersStay(p) ==
    \A q \in Callers \ {p} :
        /\ op'[q] = op[q] /\ pc'[q] = pc[q]
        /\ cur'[q] = cur[q] /\ todo'[q] = todo[q]

\* A returning call resets its own locals only.
LEMMA ReturnEffect ==
  ASSUME SharedTypes, CallerTypes, NEW p \in Callers, Return(p)
  PROVE  CallerTypes' /\ OthersStay(p) /\ Finished(p)
BY SMT DEF SharedTypes, CallerTypes, Return, OthersStay, Finished, Ops,
           CallerPCs

\* Either everything is spawned and the call returns, or one name is taken.
LEMMA SpawnOneOfEffect ==
  ASSUME SharedTypes, CallerTypes, NEW p \in Callers, NEW S \in SUBSET Names,
         SpawnOneOf(p, S)
  PROVE  /\ CallerTypes' /\ OthersStay(p)
         /\ (S = {} /\ Finished(p)) \/ GoesOn(p, S)
<1>1. CASE S = {}
  BY <1>1, ReturnEffect DEF SpawnOneOf
<1>2. CASE S # {}
  <2>1. PICK n \in S :
          /\ cur' = [cur EXCEPT ![p] = n]
          /\ todo' = [todo EXCEPT ![p] = S \ {n}]
          /\ pc' = [pc EXCEPT ![p] = "spawnCheck"]
          /\ held' = [held EXCEPT ![p] = 0]
          /\ UNCHANGED <<op, tasksWriter>>
    BY <1>2 DEF SpawnOneOf
  <2>2. CallerTypes'
    BY <2>1, SMT DEF CallerTypes, Ops, CallerPCs
  <2>3. OthersStay(p) /\ GoesOn(p, S)
    BY <2>1, SMT DEF CallerTypes, OthersStay, GoesOn
  <2> QED  BY <2>2, <2>3
<1> QED  BY <1>1, <1>2

\* The caller-side invariants across a use of SpawnOneOf by a method that
\* still has the names S to spawn.
LEMMA SpawnOneOfKeeps ==
  ASSUME IndInv, NEW p \in Callers, NEW S \in SUBSET Names,
         op[p] \in {"register", "start"},
         op[p] = "register" => \A m, n \in S : m = n,
         ~signalled /\ op[p] = "start" =>
            \A c \in Coroutines : Born(c) => cname[c] \notin S,
         OthersStay(p), Finished(p) \/ GoesOn(p, S),
         CallerTypes', UNCHANGED <<running, signalled, coVars>>
  PROVE  PcOfOp' /\ SpawnsOnce'
<1> USE DEF IndInv, TypeOK, CallerTypes, CoroutineTypes, OthersStay, Finished,
            GoesOn
<1>1. PcOfOp'
  <2> SUFFICES ASSUME NEW q \in Callers PROVE PcOfOp!(q)'
    BY DEF PcOfOp
  <2>1. CASE q # p
    BY <2>1, SMT DEF PcOfOp
  <2>2. CASE q = p /\ Finished(p)
    BY <2>2, SMT DEF PcOfOp
  <2>3. CASE q = p /\ GoesOn(p, S)
    <3>1. cur'[p] \in Names \ todo'[p] /\ (op[p] = "register" => todo'[p] = {})
      BY <2>3, SMT DEF PcOfOp
    <3> QED  BY <2>3, <3>1, SMT DEF PcOfOp
  <2> QED  BY <2>1, <2>2, <2>3
<1>2. SpawnsOnce'
  <2> SUFFICES ASSUME ~signalled PROVE SpawnsOnce'
    BY DEF SpawnsOnce
  <2> USE DEF SpawnsOnce, Born, coVars
  <2>1. \A q \in Callers : op'[q] = "start" => op[q] = "start"
    BY SMT
  <2>2. /\ \A q \in Callers : op'[q] = "start" => running'
        /\ \A q, r \in Callers :
              op'[q] = "start" /\ op'[r] = "start" => q = r
        /\ ~running' => \A c \in Coroutines : ~Born(c)'
        /\ \A c, d \in Coroutines :
              Born(c)' /\ Born(d)' /\ cname'[c] = cname'[d] => c = d
    BY <2>1
  <2>3. ASSUME NEW q \in Callers, NEW c \in Coroutines,
               op'[q] = "start", Born(c)'
        PROVE  pc'[q] # "startRead" /\ cname'[c] \notin Pending(q)'
    <3>1. CASE q = p
      BY <2>3, <3>1, <2>1, SMT DEF Pending
    <3>2. CASE q # p
      BY <2>3, <3>2, <2>1, SMT DEF Pending
    <3> QED  BY <3>1, <3>2
  <2> QED  BY <2>2, <2>3
<1> QED  BY <1>1, <1>2

\* The invariant is kept by register() pushing its task.
LEMMA RegisterPushPreserves ==
  ASSUME IndInv, NEW p \in Callers, NEW n \in Names, RegisterPush(p, n)
  PROVE  IndInv'
<1> USE DEF RegisterPush, Registered, coVars
<1>1. CoroutineTypes' /\ ArmedApart'
  BY CoroutineFrame
<1>2. SharedTypes'
  BY SMT DEF IndInv, TypeOK, SharedTypes, CallerTypes, PcOfOp
<1>3. CallerTypes'
  BY SMT DEF IndInv, TypeOK, SharedTypes, CallerTypes, PcOfOp, Ops, CallerPCs
<1>4. LockOwners'
  BY SMT DEF IndInv, TypeOK, SharedTypes, CallerTypes, LockOwners, PcOfOp
<1>5. PcOfOp'
  BY SMT DEF IndInv, TypeOK, SharedTypes, CallerTypes, LockOwners, PcOfOp
<1>6. SpawnsOnce'
  BY SMT DEF IndInv, TypeOK, SharedTypes, CallerTypes, CoroutineTypes,
     LockOwners, PcOfOp, SpawnsOnce, Born, Pending
<1>7. Registrations'
  BY SMT DEF IndInv, TypeOK, SharedTypes, CallerTypes, CoroutineTypes,
     LockOwners, PcOfOp, SpawnsOnce, Registrations, Born
<1>8. StrayLeaves'
  BY SMT DEF IndInv, TypeOK, SharedTypes, CallerTypes, CoroutineTypes,
     Registrations, StrayLeaves, Born, Retired
<1> QED  BY <1>1, <1>2, <1>3, <1>4, <1>5, <1>6, <1>7, <1>8 DEF IndInv, TypeOK

\* The invariant is kept by unregister().
LEMMA UnregisterPreserves ==
  ASSUME IndInv, NEW p \in Callers, NEW n \in Names, Unregister(p, n)
  PROVE  IndInv'
<1> USE DEF Unregister, Registered, callVars, coVars
<1>1. CoroutineTypes' /\ ArmedApart'
  BY CoroutineFrame
<1>2. SharedTypes'
  BY SMT DEF IndInv, TypeOK, SharedTypes, CallerTypes, PcOfOp
<1>3. CallerTypes'
  BY SMT DEF IndInv, TypeOK, SharedTypes, CallerTypes, PcOfOp, Ops, CallerPCs
<1>4. LockOwners'
  BY SMT DEF IndInv, TypeOK, SharedTypes, CallerTypes, LockOwners, PcOfOp
<1>5. PcOfOp'
  BY SMT DEF IndInv, TypeOK, SharedTypes, CallerTypes, LockOwners, PcOfOp
<1>6. SpawnsOnce'
  BY SMT DEF IndInv, TypeOK, SharedTypes, CallerTypes, CoroutineTypes,
     LockOwners, PcOfOp, SpawnsOnce, Born, Pending
<1>7. Registrations'
  BY SMT DEF IndInv, TypeOK, SharedTypes, CallerTypes, CoroutineTypes,
     LockOwners, PcOfOp, SpawnsOnce, Registrations, Born
<1>8. StrayLeaves'
  BY SMT DEF IndInv, TypeOK, SharedTypes, CallerTypes, CoroutineTypes,
     Registrations, StrayLeaves, Born, Retired
<1> QED  BY <1>1, <1>2, <1>3, <1>4, <1>5, <1>6, <1>7, <1>8 DEF IndInv, TypeOK

\* The invariant is kept by start() setting the flag.
LEMMA StartPreserves ==
  ASSUME IndInv, NEW p \in Callers, Start(p)
  PROVE  IndInv'
<1> USE DEF Start, coVars
<1>1. CoroutineTypes' /\ ArmedApart'
  BY CoroutineFrame
<1>2. SharedTypes'
  BY SMT DEF IndInv, TypeOK, SharedTypes, CallerTypes, PcOfOp
<1>3. CallerTypes'
  BY SMT DEF IndInv, TypeOK, SharedTypes, CallerTypes, PcOfOp, Ops, CallerPCs
<1>4. LockOwners'
  BY SMT DEF IndInv, TypeOK, SharedTypes, CallerTypes, LockOwners, PcOfOp
<1>5. PcOfOp'
  BY SMT DEF IndInv, TypeOK, SharedTypes, CallerTypes, LockOwners, PcOfOp
<1>6. SpawnsOnce'
  BY SMT DEF IndInv, TypeOK, SharedTypes, CallerTypes, CoroutineTypes,
     LockOwners, PcOfOp, SpawnsOnce, Born, Pending
<1>7. Registrations'
  BY SMT DEF IndInv, TypeOK, SharedTypes, CallerTypes, CoroutineTypes,
     LockOwners, PcOfOp, SpawnsOnce, Registrations, Born
<1>8. StrayLeaves'
  BY SMT DEF IndInv, TypeOK, SharedTypes, CallerTypes, CoroutineTypes,
     Registrations, StrayLeaves, Born, Retired
<1> QED  BY <1>1, <1>2, <1>3, <1>4, <1>5, <1>6, <1>7, <1>8 DEF IndInv, TypeOK

\* The invariant is kept by shutdown() sending the signal.
LEMMA ShutdownSendPreserves ==
  ASSUME IndInv, NEW p \in Callers, ShutdownSend(p)
  PROVE  IndInv'
<1> USE DEF ShutdownSend, coVars
<1>1. CoroutineTypes' /\ ArmedApart'
  BY CoroutineFrame
<1>2. SharedTypes'
  BY SMT DEF IndInv, TypeOK, SharedTypes, CallerTypes, PcOfOp
<1>3. CallerTypes'
  BY SMT DEF IndInv, TypeOK, SharedTypes, CallerTypes, PcOfOp, Ops, CallerPCs
<1>4. LockOwners'
  BY SMT DEF IndInv, TypeOK, SharedTypes, CallerTypes, LockOwners, PcOfOp
<1>5. PcOfOp'
  BY SMT DEF IndInv, TypeOK, SharedTypes, CallerTypes, LockOwners, PcOfOp
<1>6. SpawnsOnce'
  BY SMT DEF IndInv, TypeOK, SharedTypes, CallerTypes, CoroutineTypes,
     LockOwners, PcOfOp, SpawnsOnce, Born, Pending
<1>7. Registrations'
  BY SMT DEF IndInv, TypeOK, SharedTypes, CallerTypes, CoroutineTypes,
     LockOwners, PcOfOp, SpawnsOnce, Registrations, Born
<1>8. StrayLeaves'
  BY SMT DEF IndInv, TypeOK, SharedTypes, CallerTypes, CoroutineTypes,
     Registrations, StrayLeaves, Born, Retired
<1> QED  BY <1>1, <1>2, <1>3, <1>4, <1>5, <1>6, <1>7, <1>8 DEF IndInv, TypeOK

\* The invariant is kept by shutdown() clearing the flag.
LEMMA ShutdownFlagPreserves ==
  ASSUME IndInv, NEW p \in Callers, ShutdownFlag(p)
  PROVE  IndInv'
<1> USE DEF ShutdownFlag, coVars
<1>1. CoroutineTypes' /\ ArmedApart'
  BY CoroutineFrame
<1>2. SharedTypes'
  BY DEF IndInv, TypeOK, SharedTypes
<1>3. CallerTypes'
  BY SMT DEF IndInv, TypeOK, SharedTypes, CallerTypes, PcOfOp, Ops, CallerPCs
<1>4. LockOwners'
  BY SMT DEF IndInv, TypeOK, SharedTypes, CallerTypes, LockOwners, PcOfOp
<1>5. PcOfOp'
  BY SMT DEF IndInv, TypeOK, SharedTypes, CallerTypes, LockOwners, PcOfOp
<1>6. SpawnsOnce'
  BY SMT DEF IndInv, TypeOK, SharedTypes, CallerTypes, CoroutineTypes,
     LockOwners, PcOfOp, SpawnsOnce, Born, Pending
<1>7. Registrations'
  BY SMT DEF IndInv, TypeOK, SharedTypes, CallerTypes, CoroutineTypes,
     LockOwners, PcOfOp, SpawnsOnce, Registrations, Born
<1>8. StrayLeaves'
  BY SMT DEF IndInv, TypeOK, SharedTypes, CallerTypes, CoroutineTypes,
     Registrations, StrayLeaves, Born, Retired
<1> QED  BY <1>1, <1>2, <1>3, <1>4, <1>5, <1>6, <1>7, <1>8 DEF IndInv, TypeOK

\* The invariant is kept by shutdown() taking the handles.
LEMMA ShutdownLockPreserves ==
  ASSUME IndInv, NEW p \in Callers, ShutdownLock(p)
  PROVE  IndInv'
<1> USE DEF ShutdownLock, coVars
<1>1. CoroutineTypes' /\ ArmedApart'
  BY CoroutineFrame
<1>2. SharedTypes'
  BY SMT DEF IndInv, TypeOK, SharedTypes, CallerTypes, PcOfOp
<1>3. CallerTypes'
  BY SMT DEF IndInv, TypeOK, SharedTypes, CallerTypes, PcOfOp, Ops, CallerPCs
<1>4. LockOwners'
  BY SMT DEF IndInv, TypeOK, SharedTypes, CallerTypes, LockOwners, PcOfOp
<1>5. PcOfOp'
  BY SMT DEF IndInv, TypeOK, SharedTypes, CallerTypes, LockOwners, PcOfOp
<1>6. SpawnsOnce'
  BY SMT DEF IndInv, TypeOK, SharedTypes, CallerTypes, CoroutineTypes,
     LockOwners, PcOfOp, SpawnsOnce, Born, Pending
<1>7. Registrations'
  BY SMT DEF IndInv, TypeOK, SharedTypes, CallerTypes, CoroutineTypes,
     LockOwners, PcOfOp, SpawnsOnce, Registrations, Born
<1>8. StrayLeaves'
  BY SMT DEF IndInv, TypeOK, SharedTypes, CallerTypes, CoroutineTypes,
     Registrations, StrayLeaves, Born, Retired
<1> QED  BY <1>1, <1>2, <1>3, <1>4, <1>5, <1>6, <1>7, <1>8 DEF IndInv, TypeOK

\* The invariant is kept by register() deciding whether to spawn.
LEMMA RegisterCheckPreserves ==
  ASSUME IndInv, NEW p \in Callers, RegisterCheck(p)
  PROVE  IndInv'
<1> USE DEF RegisterCheck, LateSpawn, coVars, Finished, GoesOn, OthersStay
<1>1. /\ CallerTypes' /\ OthersStay(p)
      /\ (LateSpawn(p) = {} /\ Finished(p)) \/ GoesOn(p, LateSpawn(p))
  BY SpawnOneOfEffect DEF IndInv, TypeOK, CallerTypes, PcOfOp
<1>2. CoroutineTypes' /\ ArmedApart'
  BY CoroutineFrame
<1>3. SharedTypes'
  BY <1>1, SMT DEF IndInv, TypeOK, SharedTypes, CallerTypes, PcOfOp
<1>4. CallerTypes'
  BY <1>1
<1>5. LockOwners'
  BY <1>1, SMT DEF IndInv, TypeOK, SharedTypes, CallerTypes, LockOwners,
     PcOfOp
<1>6. PcOfOp' /\ SpawnsOnce'
  <2>1. /\ op[p] = "register" /\ cur[p] \in Names
        /\ UNCHANGED <<running, signalled>>
    BY DEF IndInv, PcOfOp
  <2> HIDE DEF RegisterCheck, Finished, GoesOn, OthersStay
  <2>2. CASE running
    BY <1>1, <2>1, <2>2, SpawnOneOfKeeps DEF RegisterCheck
  <2>3. CASE ~running
    BY <1>1, <2>1, <2>3, SpawnOneOfKeeps DEF RegisterCheck
  <2> QED  BY <2>2, <2>3
<1>8. Registrations'
  BY <1>1, SMT DEF IndInv, TypeOK, SharedTypes, CallerTypes, CoroutineTypes,
     LockOwners, PcOfOp, SpawnsOnce, Registrations, Born
<1>9. StrayLeaves'
  BY <1>1, SMT DEF IndInv, TypeOK, SharedTypes, CallerTypes, CoroutineTypes,
     Registrations, StrayLeaves, Born, Retired
<1> QED  BY <1>2, <1>3, <1>4, <1>5, <1>6, <1>8, <1>9 DEF IndInv, TypeOK

\* The invariant is kept by start() reading the names.
LEMMA StartReadPreserves ==
  ASSUME IndInv, NEW p \in Callers, StartRead(p)
  PROVE  IndInv'
<1> USE DEF StartRead, RegisteredNames, coVars, TasksReadable, Finished,
            GoesOn, OthersStay
<1>1. /\ CallerTypes' /\ OthersStay(p)
      /\ (RegisteredNames = {} /\ Finished(p)) \/ GoesOn(p, RegisteredNames)
  BY SpawnOneOfEffect DEF IndInv, TypeOK, CallerTypes, PcOfOp
<1>2. CoroutineTypes' /\ ArmedApart'
  BY CoroutineFrame
<1>3. SharedTypes'
  BY <1>1, SMT DEF IndInv, TypeOK, SharedTypes, CallerTypes, PcOfOp
<1>4. CallerTypes'
  BY <1>1
<1>5. LockOwners'
  BY <1>1, SMT DEF IndInv, TypeOK, SharedTypes, CallerTypes, LockOwners,
     PcOfOp
<1>6. PcOfOp' /\ SpawnsOnce'
  <2>1. /\ op[p] = "start" /\ UNCHANGED <<running, signalled>>
        /\ ~signalled => \A c \in Coroutines : ~Born(c)
    BY DEF IndInv, PcOfOp, SpawnsOnce
  <2> HIDE DEF StartRead, Finished, GoesOn, OthersStay
  <2>2. RegisteredNames \in SUBSET Names
    OBVIOUS
  <2> QED  BY <1>1, <2>1, <2>2, SpawnOneOfKeeps DEF StartRead
<1>8. Registrations'
  BY <1>1, SMT DEF IndInv, TypeOK, SharedTypes, CallerTypes, CoroutineTypes,
     LockOwners, PcOfOp, SpawnsOnce, Registrations, Born
<1>9. StrayLeaves'
  BY <1>1, SMT DEF IndInv, TypeOK, SharedTypes, CallerTypes, CoroutineTypes,
     Registrations, StrayLeaves, Born, Retired
<1> QED  BY <1>2, <1>3, <1>4, <1>5, <1>6, <1>8, <1>9 DEF IndInv, TypeOK

\* The invariant is kept by spawn_task() storing its handle.
LEMMA SpawnPushPreserves ==
  ASSUME IndInv, NEW p \in Callers, SpawnPush(p)
  PROVE  IndInv'
<1> USE DEF SpawnPush, coVars, Finished, GoesOn, OthersStay
<1>1. /\ CallerTypes' /\ OthersStay(p)
      /\ ((todo[p]) = {} /\ Finished(p)) \/ GoesOn(p, todo[p])
  BY SpawnOneOfEffect DEF IndInv, TypeOK, CallerTypes, PcOfOp
<1>2. CoroutineTypes' /\ ArmedApart'
  BY CoroutineFrame
<1>3. SharedTypes'
  <2>1. handles \in Seq(Coroutines) /\ held[p] \in Coroutines
    BY DEF IndInv, TypeOK, SharedTypes, CallerTypes
  <2>2. handles' \in Seq(Coroutines)
    BY <2>1, AppendProperties
  <2> QED  BY <1>1, <2>2, SMT DEF IndInv, TypeOK, SharedTypes
<1>4. CallerTypes'
  BY <1>1
<1>5. LockOwners'
  BY <1>1, SMT DEF IndInv, TypeOK, SharedTypes, CallerTypes, LockOwners,
     PcOfOp
<1>6. PcOfOp' /\ SpawnsOnce'
  BY <1>1, SpawnOneOfKeeps DEF IndInv, TypeOK, CallerTypes, PcOfOp,
     SpawnsOnce, Pending, Finished, GoesOn, OthersStay
<1>8. Registrations'
  BY <1>1, SMT DEF IndInv, TypeOK, SharedTypes, CallerTypes, CoroutineTypes,
     LockOwners, PcOfOp, SpawnsOnce, Registrations, Born
<1>9. StrayLeaves'
  BY <1>1, SMT DEF IndInv, TypeOK, SharedTypes, CallerTypes, CoroutineTypes,
     Registrations, StrayLeaves, Born, Retired
<1> QED  BY <1>2, <1>3, <1>4, <1>5, <1>6, <1>8, <1>9 DEF IndInv, TypeOK

\* The invariant is kept by spawn_task() looking at the flag again.
LEMMA SpawnCheckPreserves ==
  ASSUME IndInv, NEW p \in Callers, SpawnCheck(p)
  PROVE  IndInv'
<1> USE DEF SpawnCheck, coVars
<1>1. CASE running
  <2>1. CoroutineTypes' /\ ArmedApart'
    BY <1>1, CoroutineFrame DEF coVars
  <2>2. SharedTypes'
    BY <1>1, SMT DEF IndInv, TypeOK, SharedTypes, CallerTypes, PcOfOp
  <2>3. CallerTypes'
    BY <1>1, SMT DEF IndInv, TypeOK, CallerTypes, CallerPCs
  <2>4. LockOwners'
    BY <1>1, SMT DEF IndInv, TypeOK, SharedTypes, CallerTypes, LockOwners,
       PcOfOp
  <2>5. PcOfOp'
    BY <1>1, SMT DEF IndInv, TypeOK, SharedTypes, CallerTypes, LockOwners,
       PcOfOp
  <2>6. SpawnsOnce'
    BY <1>1, SMT DEF IndInv, TypeOK, SharedTypes, CallerTypes, CoroutineTypes,
       LockOwners, PcOfOp, SpawnsOnce, Born, Pending
  <2>7. Registrations'
    BY <1>1, SMT DEF IndInv, TypeOK, SharedTypes, CallerTypes, CoroutineTypes,
       LockOwners, PcOfOp, SpawnsOnce, Registrations, Born
  <2>8. StrayLeaves'
    BY <1>1, SMT DEF IndInv, TypeOK, SharedTypes, CallerTypes, CoroutineTypes,
       Registrations, StrayLeaves, Born, Retired
  <2> QED  BY <2>1, <2>2, <2>3, <2>4, <2>5, <2>6, <2>7, <2>8 DEF IndInv,
     TypeOK
<1>2. CASE ~running
  <2> USE DEF Finished, GoesOn, OthersStay
  <2>a. /\ CallerTypes' /\ OthersStay(p)
        /\ (todo[p] = {} /\ Finished(p)) \/ GoesOn(p, todo[p])
    BY <1>2, SpawnOneOfEffect DEF IndInv, TypeOK, CallerTypes
  <2>1. CoroutineTypes' /\ ArmedApart'
    BY <1>2, <2>a, CoroutineFrame DEF coVars
  <2>2. SharedTypes'
    BY <1>2, <2>a, SMT DEF IndInv, TypeOK, SharedTypes, CallerTypes, PcOfOp
  <2>3. CallerTypes'
    BY <2>a
  <2>4. LockOwners'
    BY <1>2, <2>a, SMT DEF IndInv, TypeOK, SharedTypes, CallerTypes,
       LockOwners, PcOfOp
  <2>5. PcOfOp' /\ SpawnsOnce'
    BY <1>2, <2>a, SpawnOneOfKeeps DEF IndInv, TypeOK, CallerTypes, PcOfOp,
       SpawnsOnce, Pending, Finished, GoesOn, OthersStay
  <2>7. Registrations'
    BY <1>2, <2>a, SMT DEF IndInv, TypeOK, SharedTypes, CallerTypes,
       CoroutineTypes, LockOwners, PcOfOp, SpawnsOnce, Registrations, Born
  <2>8. StrayLeaves'
    BY <1>2, <2>a, SMT DEF IndInv, TypeOK, SharedTypes, CallerTypes,
       CoroutineTypes, Registrations, StrayLeaves, Born, Retired
  <2> QED  BY <2>1, <2>2, <2>3, <2>4, <2>5, <2>7, <2>8 DEF IndInv, TypeOK
<1> QED  BY <1>1, <1>2

\* The invariant is kept by spawn_task() spawning: the only caller step that adds a coroutine.
LEMMA SpawnReadPreserves ==
  ASSUME IndInv, NEW p \in Callers, SpawnRead(p)
  PROVE  IndInv'
<1> USE DEF SpawnRead, TasksReadable, Registered
\* A register() in flight cannot be here: it would need its own write guard.
<1>1. /\ op[p] = "start" /\ cur[p] \in Names \ todo[p]
      /\ tasksWriter = NoCaller
  BY SMT DEF IndInv, TypeOK, LockOwners, PcOfOp
<1>2. CASE ~Registered(cur[p])
  <2> USE DEF Finished, GoesOn, OthersStay, coVars
  <2>a. /\ CallerTypes' /\ OthersStay(p)
        /\ (todo[p] = {} /\ Finished(p)) \/ GoesOn(p, todo[p])
    BY <1>2, SpawnOneOfEffect DEF IndInv, TypeOK, CallerTypes
  <2>1. CoroutineTypes' /\ ArmedApart'
    BY <1>1, <1>2, <2>a, CoroutineFrame DEF coVars
  <2>2. SharedTypes'
    BY <1>1, <1>2, <2>a, SMT DEF IndInv, TypeOK, SharedTypes, CallerTypes,
       PcOfOp
  <2>3. CallerTypes'
    BY <2>a
  <2>4. LockOwners'
    BY <1>1, <1>2, <2>a, SMT DEF IndInv, TypeOK, SharedTypes, CallerTypes,
       LockOwners, PcOfOp
  <2>5. PcOfOp' /\ SpawnsOnce'
    BY <1>1, <1>2, <2>a, SpawnOneOfKeeps DEF IndInv, TypeOK, CallerTypes,
       PcOfOp, SpawnsOnce, Pending, Finished, GoesOn, OthersStay
  <2>7. Registrations'
    BY <1>1, <1>2, <2>a, SMT DEF IndInv, TypeOK, SharedTypes, CallerTypes,
       CoroutineTypes, LockOwners, PcOfOp, SpawnsOnce, Registrations, Born
  <2>8. StrayLeaves'
    BY <1>1, <1>2, <2>a, SMT DEF IndInv, TypeOK, SharedTypes, CallerTypes,
       CoroutineTypes, Registrations, StrayLeaves, Born, Retired
  <2> QED  BY <2>1, <2>2, <2>3, <2>4, <2>5, <2>7, <2>8 DEF IndInv, TypeOK
<1>3. CASE Registered(cur[p])
  <2>a. PICK c \in Coroutines :
          /\ cpc[c] = "unborn"
          /\ cpc' = [cpc EXCEPT ![c] = "check"]
          /\ cname' = [cname EXCEPT ![c] = cur[p]]
          /\ creg' = [creg EXCEPT ![c] = tasks[cur[p]]]
          /\ held' = [held EXCEPT ![p] = c]
          /\ pc' = [pc EXCEPT ![p] = "spawnPush"]
          /\ UNCHANGED <<op, cur, todo, tasksWriter, stray>>
    BY <1>3 DEF NextCoroutine
  <2>b. UNCHANGED <<tasks, running, signalled, handles, handlesHolder, regs,
                    starts>>
    OBVIOUS
  <2> HIDE DEF SpawnRead
  <2>1. SharedTypes'
    BY <1>1, <1>3, <2>a, <2>b, SMT DEF IndInv, TypeOK, SharedTypes,
       CallerTypes, PcOfOp
  <2>2. CallerTypes'
    BY <1>1, <1>3, <2>a, <2>b, SMT DEF IndInv, TypeOK, SharedTypes,
       CallerTypes, PcOfOp, Ops, CallerPCs
  <2>3. CoroutineTypes'
    BY <1>1, <1>3, <2>a, <2>b, SMT DEF IndInv, TypeOK, SharedTypes,
       CallerTypes, CoroutineTypes, CoPCs
  <2>4. LockOwners'
    BY <1>1, <1>3, <2>a, <2>b, SMT DEF IndInv, TypeOK, SharedTypes,
       CallerTypes, LockOwners, PcOfOp
  <2>5. PcOfOp'
    BY <1>1, <1>3, <2>a, <2>b, SMT DEF IndInv, TypeOK, SharedTypes,
       CallerTypes, LockOwners, PcOfOp
  <2>6. SpawnsOnce'
    <3> SUFFICES ASSUME ~signalled PROVE SpawnsOnce'
      BY <2>b DEF SpawnsOnce
    <3>1. /\ cur[p] \in Pending(p) /\ pc[p] = "spawnRead"
          /\ \A d \in Coroutines : Born(d) => cname[d] # cur[p]
      BY <1>1, SMT DEF IndInv, SpawnsOnce, Pending, SpawnRead
    <3>2. /\ cname'[c] = cur[p] /\ Born(c)'
          /\ \A d \in Coroutines \ {c} :
                cname'[d] = cname[d] /\ (Born(d)' <=> Born(d))
      BY <2>a, SMT DEF IndInv, TypeOK, CoroutineTypes, Born
    <3>3. \A d, e \in Coroutines :
            Born(d)' /\ Born(e)' /\ cname'[d] = cname'[e] => d = e
      BY <3>1, <3>2 DEF IndInv, SpawnsOnce
    <3>4. /\ running' = running /\ running
          /\ \A q \in Callers : op'[q] = "start" <=> q = p
      BY <1>1, <2>a, <2>b DEF IndInv, SpawnsOnce
    <3>5. ASSUME NEW d \in Coroutines, Born(d)'
          PROVE  pc'[p] # "startRead" /\ cname'[d] \notin Pending(p)'
      <4>1. pc'[p] = "spawnPush" /\ Pending(p)' = todo[p]
        BY <2>a, SMT DEF IndInv, TypeOK, CallerTypes, Pending
      <4>2. CASE d = c
        BY <1>1, <3>2, <4>1, <4>2
      <4>3. CASE d # c
        BY <1>1, <3>2, <3>5, <4>1, <4>3 DEF IndInv, SpawnsOnce, Pending
      <4> QED  BY <4>2, <4>3
    <3> QED  BY <3>3, <3>4, <3>5 DEF SpawnsOnce
  <2>7. ArmedApart'
    BY <1>1, <1>3, <2>a, <2>b, SMT DEF IndInv, TypeOK, SharedTypes,
       CallerTypes, CoroutineTypes, SpawnsOnce, ArmedApart, Armed, Born
  <2>8. Registrations'
    BY <1>1, <1>3, <2>a, <2>b, SMT DEF IndInv, TypeOK, SharedTypes,
       CallerTypes, CoroutineTypes, LockOwners, PcOfOp, SpawnsOnce,
       Registrations, Born
  <2>9. StrayLeaves'
    BY <1>1, <1>3, <2>a, <2>b, SMT DEF IndInv, TypeOK, SharedTypes,
       CallerTypes, CoroutineTypes, Registrations, StrayLeaves, Born, Retired
  <2> QED  BY <2>1, <2>2, <2>3, <2>4, <2>5, <2>6, <2>7, <2>8, <2>9 DEF IndInv,
     TypeOK
<1> QED  BY <1>2, <1>3

\* The invariant is kept by shutdown() joining a handle.
LEMMA ShutdownJoinPreserves ==
  ASSUME IndInv, NEW p \in Callers, ShutdownJoin(p)
  PROVE  IndInv'
<1> USE DEF ShutdownJoin, coVars
<1>1. CASE handles = <<>>
  <2> USE DEF Finished, OthersStay
  <2>a. CallerTypes' /\ OthersStay(p) /\ Finished(p)
    BY <1>1, ReturnEffect DEF IndInv, TypeOK
  <2>1. CoroutineTypes' /\ ArmedApart'
    BY <1>1, <2>a, CoroutineFrame DEF coVars
  <2>2. SharedTypes'
    BY <1>1, <2>a, SMT DEF IndInv, TypeOK, SharedTypes, CallerTypes, PcOfOp
  <2>3. CallerTypes'
    BY <2>a
  <2>4. LockOwners'
    BY <1>1, <2>a, SMT DEF IndInv, TypeOK, SharedTypes, CallerTypes,
       LockOwners, PcOfOp
  <2>5. PcOfOp'
    BY <1>1, <2>a, SMT DEF IndInv, TypeOK, SharedTypes, CallerTypes,
       LockOwners, PcOfOp
  <2>6. SpawnsOnce'
    BY <1>1, <2>a, SMT DEF IndInv, TypeOK, SharedTypes, CallerTypes,
       CoroutineTypes, LockOwners, PcOfOp, SpawnsOnce, Born, Pending
  <2>7. Registrations'
    BY <1>1, <2>a, SMT DEF IndInv, TypeOK, SharedTypes, CallerTypes,
       CoroutineTypes, LockOwners, PcOfOp, SpawnsOnce, Registrations, Born
  <2>8. StrayLeaves'
    BY <1>1, <2>a, SMT DEF IndInv, TypeOK, SharedTypes, CallerTypes,
       CoroutineTypes, Registrations, StrayLeaves, Born, Retired
  <2> QED  BY <2>1, <2>2, <2>3, <2>4, <2>5, <2>6, <2>7, <2>8 DEF IndInv,
     TypeOK
<1>2. CASE handles # <<>>
  <2> USE DEF callVars
  <2>a. handles' \in Seq(Coroutines)
    BY <1>2, HeadTailProperties DEF IndInv, TypeOK, SharedTypes
  <2>1. CoroutineTypes' /\ ArmedApart'
    BY <1>2, <2>a, CoroutineFrame DEF coVars
  <2>2. SharedTypes'
    BY <1>2, <2>a, SMT DEF IndInv, TypeOK, SharedTypes, CallerTypes, PcOfOp
  <2>3. CallerTypes'
    BY <1>2, <2>a, SMT DEF IndInv, TypeOK, SharedTypes, CallerTypes, PcOfOp,
       Ops, CallerPCs
  <2>4. LockOwners'
    BY <1>2, <2>a, SMT DEF IndInv, TypeOK, SharedTypes, CallerTypes,
       LockOwners, PcOfOp
  <2>5. PcOfOp'
    BY <1>2, <2>a, SMT DEF IndInv, TypeOK, SharedTypes, CallerTypes,
       LockOwners, PcOfOp
  <2>6. SpawnsOnce'
    BY <1>2, <2>a, SMT DEF IndInv, TypeOK, SharedTypes, CallerTypes,
       CoroutineTypes, LockOwners, PcOfOp, SpawnsOnce, Born, Pending
  <2>7. Registrations'
    BY <1>2, <2>a, SMT DEF IndInv, TypeOK, SharedTypes, CallerTypes,
       CoroutineTypes, LockOwners, PcOfOp, SpawnsOnce, Registrations, Born
  <2>8. StrayLeaves'
    <3>1. UNCHANGED <<cpc, cname, creg, stray, tasks, signalled>>
      BY <1>2 DEF coVars
    <3> QED  BY <3>1 DEF IndInv, StrayLeaves, Born, Retired
  <2> QED  BY <2>1, <2>2, <2>3, <2>4, <2>5, <2>6, <2>7, <2>8 DEF IndInv,
     TypeOK
<1> QED  BY <1>1, <1>2

\* The invariant is kept by shutdown() out of budget.
LEMMA ShutdownTimeoutPreserves ==
  ASSUME IndInv, NEW p \in Callers, ShutdownTimeout(p)
  PROVE  IndInv'
<1> USE DEF ShutdownTimeout, coVars, OthersStay, Finished
<1>1. CallerTypes' /\ OthersStay(p) /\ Finished(p)
  BY ReturnEffect DEF IndInv, TypeOK
<1>2. CoroutineTypes' /\ ArmedApart'
  BY CoroutineFrame
<1>3. SharedTypes'
  BY <1>1, SMT DEF IndInv, TypeOK, SharedTypes, CallerTypes, PcOfOp
<1>4. CallerTypes'
  BY <1>1
<1>5. LockOwners'
  BY <1>1, SMT DEF IndInv, TypeOK, SharedTypes, CallerTypes, LockOwners,
     PcOfOp
<1>6. PcOfOp'
  BY <1>1, SMT DEF IndInv, TypeOK, SharedTypes, CallerTypes, LockOwners,
     PcOfOp
<1>7. SpawnsOnce'
  BY <1>1, SMT DEF IndInv, TypeOK, SharedTypes, CallerTypes, CoroutineTypes,
     LockOwners, PcOfOp, SpawnsOnce, Born, Pending
<1>8. Registrations'
  BY <1>1, SMT DEF IndInv, TypeOK, SharedTypes, CallerTypes, CoroutineTypes,
     LockOwners, PcOfOp, SpawnsOnce, Registrations, Born
<1>9. StrayLeaves'
  BY <1>1, SMT DEF IndInv, TypeOK, SharedTypes, CallerTypes, CoroutineTypes,
     Registrations, StrayLeaves, Born, Retired
<1> QED  BY <1>2, <1>3, <1>4, <1>5, <1>6, <1>7, <1>8, <1>9 DEF IndInv, TypeOK

\* The invariant is kept by the top of the coroutine loop: the only step that arms a coroutine.
LEMMA CoCheckPreserves ==
  ASSUME IndInv, NEW c \in Coroutines, CoCheck(c)
  PROVE  IndInv'
<1> USE DEF CoCheck, Goto, StillRegistered, SignalPending, TasksReadable,
   Registered, Retired
<1>1. SharedTypes' /\ CallerTypes' /\ LockOwners' /\ PcOfOp'
  BY CallerFrame
<1>2. CoroutineTypes'
  BY SMT DEF IndInv, TypeOK, callerState, callVars, SharedTypes, CallerTypes,
     CoroutineTypes, CoPCs
<1>3. SpawnsOnce'
  BY SMT DEF IndInv, TypeOK, callerState, callVars, SharedTypes, CallerTypes,
     CoroutineTypes, LockOwners, PcOfOp, SpawnsOnce, Born, Pending
<1>4. ArmedApart'
  <2>1. \A d \in Coroutines : Armed(d)' /\ d # c => Armed(d)
    BY SMT DEF IndInv, TypeOK, CoroutineTypes, Armed
  <2>2. Armed(c)' => ~signalled /\ Born(c)
    BY SMT DEF IndInv, TypeOK, CoroutineTypes, Armed, Born
  <2>3. ASSUME NEW d \in Coroutines, NEW e \in Coroutines,
               Armed(d)', Armed(e)', cname[d] = cname[e]
        PROVE  d = e
    <3>1. CASE Armed(c)'
      <4>1. Born(d) /\ Born(e)
        BY <2>1, <2>2, <2>3, <3>1 DEF Armed, Born
      <4> QED  BY <2>2, <2>3, <3>1, <4>1 DEF IndInv, SpawnsOnce
    <3>2. CASE ~Armed(c)'
      BY <2>1, <2>3, <3>2 DEF IndInv, ArmedApart
    <3> QED  BY <3>1, <3>2
  <2>4. cname' = cname
    OBVIOUS
  <2> QED  BY <2>3, <2>4 DEF ArmedApart
<1>5. Registrations'
  BY SMT DEF IndInv, TypeOK, callerState, callVars, SharedTypes, CallerTypes,
     CoroutineTypes, LockOwners, PcOfOp, SpawnsOnce, Registrations, Born
<1>6. StrayLeaves'
  BY SMT DEF IndInv, TypeOK, callerState, callVars, SharedTypes, CallerTypes,
     CoroutineTypes, Registrations, StrayLeaves, Born, Retired
<1> QED  BY <1>1, <1>2, <1>3, <1>4, <1>5, <1>6 DEF IndInv, TypeOK

\* The invariant is kept by the sleep branch of select!.
LEMMA CoSleepElapsedPreserves ==
  ASSUME IndInv, NEW c \in Coroutines, CoSleepElapsed(c)
  PROVE  IndInv'
<1> USE DEF CoSleepElapsed, Goto, StillRegistered, SignalPending,
   TasksReadable, Registered, Retired
<1>1. SharedTypes' /\ CallerTypes' /\ LockOwners' /\ PcOfOp'
  BY CallerFrame
<1>2. CoroutineTypes'
  BY SMT DEF IndInv, TypeOK, callerState, callVars, SharedTypes, CallerTypes,
     CoroutineTypes, CoPCs
<1>3. SpawnsOnce'
  BY SMT DEF IndInv, TypeOK, callerState, callVars, SharedTypes, CallerTypes,
     CoroutineTypes, LockOwners, PcOfOp, SpawnsOnce, Born, Pending
<1>4. ArmedApart'
  BY SMT DEF IndInv, TypeOK, callerState, callVars, SharedTypes, CallerTypes,
     CoroutineTypes, SpawnsOnce, ArmedApart, Armed, Born
<1>5. Registrations'
  BY SMT DEF IndInv, TypeOK, callerState, callVars, SharedTypes, CallerTypes,
     CoroutineTypes, LockOwners, PcOfOp, SpawnsOnce, Registrations, Born
<1>6. StrayLeaves'
  BY SMT DEF IndInv, TypeOK, callerState, callVars, SharedTypes, CallerTypes,
     CoroutineTypes, Registrations, StrayLeaves, Born, Retired
<1> QED  BY <1>1, <1>2, <1>3, <1>4, <1>5, <1>6 DEF IndInv, TypeOK

\* The invariant is kept by the shutdown branch of select!.
LEMMA CoShutdownSeenPreserves ==
  ASSUME IndInv, NEW c \in Coroutines, CoShutdownSeen(c)
  PROVE  IndInv'
<1> USE DEF CoShutdownSeen, Goto, StillRegistered, SignalPending,
   TasksReadable, Registered, Retired
<1>1. SharedTypes' /\ CallerTypes' /\ LockOwners' /\ PcOfOp'
  BY CallerFrame
<1>2. CoroutineTypes'
  BY SMT DEF IndInv, TypeOK, callerState, callVars, SharedTypes, CallerTypes,
     CoroutineTypes, CoPCs
<1>3. SpawnsOnce'
  BY SMT DEF IndInv, TypeOK, callerState, callVars, SharedTypes, CallerTypes,
     CoroutineTypes, LockOwners, PcOfOp, SpawnsOnce, Born, Pending
<1>4. ArmedApart'
  BY SMT DEF IndInv, TypeOK, callerState, callVars, SharedTypes, CallerTypes,
     CoroutineTypes, SpawnsOnce, ArmedApart, Armed, Born
<1>5. Registrations'
  BY SMT DEF IndInv, TypeOK, callerState, callVars, SharedTypes, CallerTypes,
     CoroutineTypes, LockOwners, PcOfOp, SpawnsOnce, Registrations, Born
<1>6. StrayLeaves'
  BY SMT DEF IndInv, TypeOK, callerState, callVars, SharedTypes, CallerTypes,
     CoroutineTypes, Registrations, StrayLeaves, Born, Retired
<1> QED  BY <1>1, <1>2, <1>3, <1>4, <1>5, <1>6 DEF IndInv, TypeOK

\* The invariant is kept by the check after the sleep.
LEMMA CoRecheckPreserves ==
  ASSUME IndInv, NEW c \in Coroutines, CoRecheck(c)
  PROVE  IndInv'
<1> USE DEF CoRecheck, Goto, StillRegistered, SignalPending, TasksReadable,
   Registered, Retired
<1>1. SharedTypes' /\ CallerTypes' /\ LockOwners' /\ PcOfOp'
  BY CallerFrame
<1>2. CoroutineTypes'
  BY SMT DEF IndInv, TypeOK, callerState, callVars, SharedTypes, CallerTypes,
     CoroutineTypes, CoPCs
<1>3. SpawnsOnce'
  BY SMT DEF IndInv, TypeOK, callerState, callVars, SharedTypes, CallerTypes,
     CoroutineTypes, LockOwners, PcOfOp, SpawnsOnce, Born, Pending
<1>4. ArmedApart'
  BY SMT DEF IndInv, TypeOK, callerState, callVars, SharedTypes, CallerTypes,
     CoroutineTypes, SpawnsOnce, ArmedApart, Armed, Born
<1>5. Registrations'
  BY SMT DEF IndInv, TypeOK, callerState, callVars, SharedTypes, CallerTypes,
     CoroutineTypes, LockOwners, PcOfOp, SpawnsOnce, Registrations, Born
<1>6. StrayLeaves'
  BY SMT DEF IndInv, TypeOK, callerState, callVars, SharedTypes, CallerTypes,
     CoroutineTypes, Registrations, StrayLeaves, Born, Retired
<1> QED  BY <1>1, <1>2, <1>3, <1>4, <1>5, <1>6 DEF IndInv, TypeOK

\* The invariant is kept by a callback beginning.
LEMMA CoCallbackPreserves ==
  ASSUME IndInv, NEW c \in Coroutines, CoCallback(c)
  PROVE  IndInv'
<1> USE DEF CoCallback, Goto, StillRegistered, SignalPending, TasksReadable,
   Registered, Retired
<1>1. SharedTypes' /\ CallerTypes' /\ LockOwners' /\ PcOfOp'
  BY CallerFrame
<1>2. CoroutineTypes'
  <2>1. /\ cpc' \in [Coroutines -> CoPCs]
        /\ UNCHANGED <<cname, creg>>
    BY SMT DEF IndInv, TypeOK, CoroutineTypes, CoPCs
  <2>2. stray' \in [Coroutines -> Nat]
    BY SMT DEF IndInv, TypeOK, CoroutineTypes
  <2> QED  BY <2>1, <2>2 DEF IndInv, TypeOK, CoroutineTypes
<1>3. SpawnsOnce'
  BY SMT DEF IndInv, TypeOK, callerState, callVars, SharedTypes, CallerTypes,
     CoroutineTypes, LockOwners, PcOfOp, SpawnsOnce, Born, Pending
<1>4. ArmedApart'
  BY SMT DEF IndInv, TypeOK, callerState, callVars, SharedTypes, CallerTypes,
     CoroutineTypes, SpawnsOnce, ArmedApart, Armed, Born
<1>5. Registrations'
  BY SMT DEF IndInv, TypeOK, callerState, callVars, SharedTypes, CallerTypes,
     CoroutineTypes, LockOwners, PcOfOp, SpawnsOnce, Registrations, Born
<1>6. StrayLeaves'
  BY SMT DEF IndInv, TypeOK, callerState, callVars, SharedTypes, CallerTypes,
     CoroutineTypes, Registrations, StrayLeaves, Born, Retired
<1> QED  BY <1>1, <1>2, <1>3, <1>4, <1>5, <1>6 DEF IndInv, TypeOK

\* The invariant is kept by a callback ending.
LEMMA CoReturnPreserves ==
  ASSUME IndInv, NEW c \in Coroutines, CoReturn(c)
  PROVE  IndInv'
<1> USE DEF CoReturn, Goto, StillRegistered, SignalPending, TasksReadable,
   Registered, Retired
<1>1. SharedTypes' /\ CallerTypes' /\ LockOwners' /\ PcOfOp'
  BY CallerFrame
<1>2. CoroutineTypes'
  BY SMT DEF IndInv, TypeOK, callerState, callVars, SharedTypes, CallerTypes,
     CoroutineTypes, CoPCs
<1>3. SpawnsOnce'
  BY SMT DEF IndInv, TypeOK, callerState, callVars, SharedTypes, CallerTypes,
     CoroutineTypes, LockOwners, PcOfOp, SpawnsOnce, Born, Pending
<1>4. ArmedApart'
  BY SMT DEF IndInv, TypeOK, callerState, callVars, SharedTypes, CallerTypes,
     CoroutineTypes, SpawnsOnce, ArmedApart, Armed, Born
<1>5. Registrations'
  BY SMT DEF IndInv, TypeOK, callerState, callVars, SharedTypes, CallerTypes,
     CoroutineTypes, LockOwners, PcOfOp, SpawnsOnce, Registrations, Born
<1>6. StrayLeaves'
  BY SMT DEF IndInv, TypeOK, callerState, callVars, SharedTypes, CallerTypes,
     CoroutineTypes, Registrations, StrayLeaves, Born, Retired
<1> QED  BY <1>1, <1>2, <1>3, <1>4, <1>5, <1>6 DEF IndInv, TypeOK

\* Every step preserves the invariant.
LEMMA StepInv == IndInv /\ [Next]_vars => IndInv'
<1> SUFFICES ASSUME IndInv, [Next]_vars PROVE IndInv'
  OBVIOUS
<1>1. ASSUME NEW p \in Callers, CallerEntry(p) PROVE IndInv'
  BY <1>1, RegisterPushPreserves, UnregisterPreserves, StartPreserves,
     ShutdownSendPreserves DEF CallerEntry
<1>2. ASSUME NEW p \in Callers, CallerStep(p) PROVE IndInv'
  BY <1>2, RegisterCheckPreserves, SpawnCheckPreserves, SpawnReadPreserves,
     SpawnPushPreserves, StartReadPreserves, ShutdownFlagPreserves,
     ShutdownLockPreserves, ShutdownJoinPreserves, ShutdownTimeoutPreserves
     DEF CallerStep
<1>3. ASSUME NEW c \in Coroutines, CoStep(c) PROVE IndInv'
  BY <1>3, CoCheckPreserves, CoSleepElapsedPreserves, CoShutdownSeenPreserves,
     CoRecheckPreserves, CoCallbackPreserves, CoReturnPreserves DEF CoStep
<1>4. CASE UNCHANGED vars
  <2> USE <1>4 DEF vars, callVars, coVars, IndInv
  <2>1. TypeOK'
    BY DEF TypeOK, SharedTypes, CallerTypes, CoroutineTypes, LockOwners
  <2>2. PcOfOp'
    BY DEF PcOfOp
  <2>3. SpawnsOnce'
    BY DEF SpawnsOnce, Born, Pending
  <2>4. ArmedApart'
    BY DEF ArmedApart, Armed
  <2>5. Registrations' /\ StrayLeaves'
    BY DEF Registrations, StrayLeaves, Born, Retired
  <2> QED  BY <2>1, <2>2, <2>3, <2>4, <2>5
<1> QED  BY <1>1, <1>2, <1>3, <1>4 DEF Next

\* Every reachable state of the scheduler satisfies the inductive invariant.
THEOREM Invariance == Spec => []IndInv
<1> QED  BY InitInv, StepInv, PTL DEF Spec

\* Types and lock owners: in particular the `tasks` write guard is held across
\* an await only by a register() in flight.
THEOREM TypeCorrect == Spec => []TypeOK
<1>1. IndInv => TypeOK
  BY DEF IndInv
<1> QED  BY <1>1, Invariance, PTL

\* No two coroutines run a callback of the same task at once, for any number of
\* callers, names, registrations and restarts.
THEOREM NoOverlap == Spec => []NoOverlappingCallbacks
<1>1. IndInv => NoOverlappingCallbacks
  BY DEF IndInv, ArmedApart, Armed, NoOverlappingCallbacks
<1> QED  BY <1>1, Invariance, PTL

\* A coroutine whose task is gone, replaced or shut down starts at most one
\* more callback.
THEOREM OneStray == Spec => []AtMostOneStrayCallback
<1>1. IndInv => AtMostOneStrayCallback
  BY DEF IndInv, StrayLeaves, AtMostOneStrayCallback
<1> QED  BY <1>1, Invariance, PTL

-----------------------------------------------------------------------------
(* Every registered task runs.  While a start() or a register() is under way *)
(* a task need not have its coroutine yet; then some call still owes it one. *)

\* The names for which p will still look at the task and spawn it.
Owed(p) ==
    IF pc[p] = "startRead" THEN Names
    ELSE IF pc[p] = "regCheck" THEN {cur[p]} ELSE Pending(p)
Served(n) == \E c \in Coroutines : Live(c) /\ cname[c] = n
Provided(n) == Served(n) \/ \E p \in Callers : n \in Owed(p)
NoneForgotten ==
    (running /\ ~signalled) => \A n \in Names : Registered(n) => Provided(n)

\* A call that goes on to the next name still owes the others.
LEMMA SpawnOneOfProvides ==
  ASSUME IndInv, NoneForgotten, NEW p \in Callers, NEW S \in SUBSET Names,
         SpawnOneOf(p, S), UNCHANGED <<tasks, running, signalled, coVars>>,
         \A n \in Owed(p) : Registered(n) /\ running => n \in S \/ Served(n)
  PROVE  NoneForgotten'
<1>1. OthersStay(p) /\ ((S = {} /\ Finished(p)) \/ GoesOn(p, S))
  BY SpawnOneOfEffect DEF IndInv, TypeOK
<1>2. SUFFICES ASSUME running, ~signalled, NEW n \in Names, Registered(n)
               PROVE  Provided(n)'
  BY DEF NoneForgotten, Registered
<1>3. Served(n) => Served(n)'
  BY DEF Served, Live, coVars
<1>4. CASE \E q \in Callers \ {p} : n \in Owed(q)
  BY <1>1, <1>4 DEF OthersStay, Owed, Pending, Provided
<1>5. CASE n \in S
  BY <1>1, <1>5 DEF GoesOn, Owed, Pending, Provided
<1> QED
  BY <1>2, <1>3, <1>4, <1>5 DEF NoneForgotten, Provided

\* The entries of calls: a new task is owed by its register(), a start() owes
\* every name, and whatever is removed is owed nothing.
LEMMA EntryProvides ==
  ASSUME IndInv, NoneForgotten, NEW p \in Callers, CallerEntry(p)
  PROVE  NoneForgotten'
<1> USE DEF IndInv, TypeOK, SharedTypes, CallerTypes
<1>1. UNCHANGED coVars /\ (\A n \in Names : Served(n)' = Served(n))
  BY DEF CallerEntry, RegisterPush, Unregister, Start, ShutdownSend, coVars, Served, Live
<1>2. ASSUME NEW m \in Names, RegisterPush(p, m) PROVE NoneForgotten'
  <2>1. /\ \A q \in Callers : q # p => Owed(q)' = Owed(q)
        /\ Owed(p) = {} /\ Owed(p)' = {m}
    BY <1>2 DEF RegisterPush, Owed, Pending, PcOfOp
  <2>2. \A n \in Names : Registered(n)' => n = m \/ Registered(n)
    BY <1>2 DEF RegisterPush, Registered
  <2>3. \A n \in Names : Provided(n) \/ n = m => Provided(n)'
    BY <1>1, <2>1 DEF Provided
  <2> QED
    BY <1>2, <2>2, <2>3 DEF NoneForgotten, RegisterPush
<1>3. ASSUME NEW m \in Names, Unregister(p, m) PROVE NoneForgotten'
  <2>1. \A n \in Names : Registered(n)' => Registered(n)
    BY <1>3 DEF Unregister, Registered
  <2>2. \A n \in Names : Provided(n)' = Provided(n)
    BY <1>1, <1>3 DEF Unregister, Provided, Owed, Pending, callVars
  <2> QED
    BY <1>3, <2>1, <2>2 DEF NoneForgotten, Unregister
<1>4. CASE Start(p)
  BY <1>4 DEF Start, NoneForgotten, Provided, Owed
<1>5. CASE ShutdownSend(p)
  BY <1>5 DEF ShutdownSend, NoneForgotten
<1> QED
  BY <1>2, <1>3, <1>4, <1>5 DEF CallerEntry

LEMMA CallProvides ==
  ASSUME IndInv, NoneForgotten, NEW p \in Callers, CallerStep(p)
  PROVE  NoneForgotten'
<1> USE DEF IndInv, TypeOK, CallerTypes
<1>1. CASE RegisterCheck(p)
  <2>1. Owed(p) = {cur[p]} /\ cur[p] \in Names
    BY <1>1 DEF RegisterCheck, Owed, PcOfOp
  <2> QED
    BY <1>1, <2>1, SpawnOneOfProvides DEF RegisterCheck, LateSpawn, IndInv
<1>2. CASE StartRead(p)
  BY <1>2, SpawnOneOfProvides DEF StartRead, RegisteredNames, Owed
<1>3. CASE SpawnCheck(p)
  <2>1. CASE running
    <3>1. /\ pc' = [pc EXCEPT ![p] = "spawnRead"] /\ pc[p] = "spawnCheck"
          /\ UNCHANGED <<cur, todo, tasks, running, signalled, coVars>>
      BY <1>3, <2>1 DEF SpawnCheck
    <3>2. \A q \in Callers : Owed(q)' = Owed(q)
      BY <3>1 DEF Owed, Pending
    <3>3. \A n \in Names : Served(n)' = Served(n)
      BY <3>1 DEF Served, Live, coVars
    <3> QED
      BY <3>1, <3>2, <3>3 DEF NoneForgotten, Provided, Registered
  <2>2. CASE ~running
    BY <1>3, <2>2 DEF SpawnCheck, NoneForgotten
  <2> QED
    BY <2>1, <2>2
<1>4. CASE SpawnRead(p)
  <2>1. CASE Registered(cur[p])
    <3>1. PICK c \in Coroutines :
            /\ cpc[c] = "unborn" /\ cpc' = [cpc EXCEPT ![c] = "check"]
            /\ cname' = [cname EXCEPT ![c] = cur[p]]
            /\ pc' = [pc EXCEPT ![p] = "spawnPush"]
            /\ UNCHANGED <<cur, todo, tasks, running, signalled>>
      BY <1>4, <2>1 DEF SpawnRead, NextCoroutine
    <3>2. \A n \in Names : Served(n) => Served(n)'
      <4> SUFFICES ASSUME NEW n \in Names, NEW d \in Coroutines, Live(d), cname[d] = n
                   PROVE  Live(d)' /\ cname'[d] = n
        BY DEF Served
      <4> QED
        BY <3>1 DEF Live, CoroutineTypes
    <3>3. \A n \in Names : n = cur[p] => Served(n)'
      BY <3>1 DEF Served, Live, CoroutineTypes
    <3>4. \A q \in Callers : q # p => Owed(q)' = Owed(q)
      BY <3>1 DEF Owed, Pending
    <3>5. \A n \in Owed(p) : n = cur[p] \/ n \in Owed(p)'
      BY <1>4, <3>1 DEF SpawnRead, Owed, Pending
    <3>6. \A n \in Names : Provided(n) => Provided(n)'
      BY <3>2, <3>3, <3>4, <3>5 DEF Provided
    <3> QED
      BY <3>1, <3>6 DEF NoneForgotten, Registered
  <2>2. CASE ~Registered(cur[p])
    BY <1>4, <2>2, SpawnOneOfProvides DEF SpawnRead, Owed, Pending
  <2> QED
    BY <2>1, <2>2
<1>5. CASE SpawnPush(p)
  BY <1>5, SpawnOneOfProvides DEF SpawnPush, Owed, Pending
<1>6. CASE ShutdownFlag(p) \/ ShutdownLock(p) \/ ShutdownJoin(p) \/ ShutdownTimeout(p)
  <2>1. signalled /\ signalled' = signalled
    BY <1>6 DEF ShutdownFlag, ShutdownLock, ShutdownJoin, ShutdownTimeout, PcOfOp
  <2> QED
    BY <2>1 DEF NoneForgotten
<1> QED
  BY <1>1, <1>2, <1>3, <1>4, <1>5, <1>6 DEF CallerStep

\* Before the signal a coroutine ends only when its task is gone.
LEMMA CoroutineProvides ==
  ASSUME IndInv, NoneForgotten, NEW c \in Coroutines, CoStep(c)
  PROVE  NoneForgotten'
<1> USE DEF IndInv, TypeOK, CoroutineTypes
<1>1. UNCHANGED callerState /\ cname' = cname
  BY DEF CoStep, CoCheck, CoSleepElapsed, CoShutdownSeen, CoRecheck, CoCallback, CoReturn
<1>2. ~signalled => \/ \E l \in CoPCs \ {"unborn", "done"} : cpc' = [cpc EXCEPT ![c] = l]
                    \/ ~Registered(cname[c]) /\ cpc' = [cpc EXCEPT ![c] = "done"]
  BY DEF CoStep, CoCheck, CoSleepElapsed, CoShutdownSeen, CoRecheck, CoCallback, CoReturn,
         Goto, SignalPending, StillRegistered, CoPCs
<1>3. \A n \in Names : ~signalled /\ Registered(n) /\ Served(n) => Served(n)'
  <2> SUFFICES ASSUME NEW n \in Names, NEW d \in Coroutines,
                      ~signalled, Registered(n), Live(d), cname[d] = n
               PROVE  Live(d)' /\ cname'[d] = n
    BY DEF Served
  <2> QED
    BY <1>1, <1>2 DEF Live
<1>4. \A p \in Callers : Owed(p)' = Owed(p)
  BY <1>1 DEF callerState, callVars, Owed, Pending
<1> QED
  BY <1>1, <1>3, <1>4 DEF NoneForgotten, Provided, Registered, callerState

\* Whatever register(), start() and unregister() were under way: once all have
\* returned and no shutdown was signalled, every registered task has a live
\* coroutine (start() loses none of the names it read).
THEOREM TasksRun == Spec => []RegisteredTaskRuns
<1>1. Init => NoneForgotten
  BY DEF Init, NoneForgotten
<1>2. IndInv /\ NoneForgotten /\ [Next]_vars => NoneForgotten'
  <2> SUFFICES ASSUME IndInv, NoneForgotten, [Next]_vars PROVE NoneForgotten'
    OBVIOUS
  <2>1. CASE UNCHANGED vars
    BY <2>1 DEF vars, callVars, coVars, NoneForgotten, Provided, Owed, Pending, Served, Live,
                Registered
  <2> QED
    BY <2>1, EntryProvides, CallProvides, CoroutineProvides DEF Next
<1>3. IndInv /\ NoneForgotten => RegisteredTaskRuns
  <2> SUFFICES ASSUME IndInv, NoneForgotten, running, ~signalled, AllIdle,
                      NEW n \in Names, Registered(n)
               PROVE  Served(n)
    BY DEF RegisteredTaskRuns, Served
  <2>1. \A p \in Callers : Owed(p) = {}
    BY DEF AllIdle, Owed, Pending, IndInv, PcOfOp
  <2> QED
    BY <2>1 DEF NoneForgotten, Provided
<1> QED  BY <1>1, <1>2, <1>3, Invariance, PTL DEF Spec
=============================================================================
