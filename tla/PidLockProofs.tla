--------------------------- MODULE PidLockProofs ---------------------------
(***************************************************************************)
(* Mutual exclusion of PidLock for any number of processes, crashing at    *)
(* any point, as long as acquisitions follow one another and nobody uses   *)
(* --force (PidLock_race.cfg shows that overlapping acquisitions break it).*)
(*                                                                         *)
(* MutualExclusion is not inductive: that a process past its inspection    *)
(* meets no holder rests on the file naming the holder (HolderIsNamed) and *)
(* on nobody becoming one meanwhile (Alone).  IndInv adds both.            *)
(***************************************************************************)
EXTENDS PidLock, TLAPS

\* Initially there is no lock file and no process.
LEMMA InitInv == Init => IndInv
  BY PidAssumption DEF Init, IndInv, TypeOK, NoForce, Alone, WriterOwnsFile,
     InspectorKnows, HolderIsNamed, MutualExclusion, PCs, Acquiring

\* Processes that are outside acquire() and hold nothing: being born, being
\* refused, failing to write, and dying anywhere.
LEMMA LeavePreserves ==
    ASSUME IndInv, NEW p \in Procs,
           Start(p) \/ Refused(p) \/ WriteFails(p) \/ Die(p)
    PROVE  IndInv'
  <1>1. TypeOK' /\ NoForce'
    BY DEF IndInv, TypeOK, NoForce, Start, Refused, WriteFails, Die, Goto, PCs
  <1>2. \A q \in Procs : q # p => pc'[q] = pc[q]
    BY DEF IndInv, TypeOK, Start, Refused, WriteFails, Die, Goto
  <1>3. pc'[p] \in {"free", "gone"} /\ file' = file /\ seen' = seen
    BY DEF IndInv, TypeOK, Start, Refused, WriteFails, Die, Goto
  <1>4. Alone' /\ MutualExclusion'
    BY <1>2, <1>3 DEF IndInv, Alone, MutualExclusion, Acquiring
  <1>5. WriterOwnsFile' /\ HolderIsNamed'
    BY <1>2, <1>3 DEF IndInv, WriterOwnsFile, HolderIsNamed
  <1>6. InspectorKnows'
    BY <1>2, <1>3 DEF IndInv, InspectorKnows
  <1> QED
    BY <1>1, <1>4, <1>5, <1>6 DEF IndInv

\* acquire() is entered while nobody else is in it; if there is no file there
\* is no holder either.
LEMMA AcquirePreserves ==
    ASSUME IndInv, Staggered, NEW p \in Procs, Acquire(p, FALSE)
    PROVE  IndInv'
  <1>1. TypeOK' /\ NoForce'
    BY DEF IndInv, TypeOK, NoForce, Acquire, MayAcquire, Goto, PCs
  <1>2. \A q \in Procs : q # p => pc'[q] = pc[q] /\ ~Acquiring(q)
    BY DEF IndInv, TypeOK, Acquire, MayAcquire, Goto
  <1>3. seen' = seen /\ pc[p] = "free"
    BY DEF Acquire, MayAcquire
  <1>4. CASE file = NoFile
    <2>1. pc'[p] = "write" /\ file' = [by |-> p, pid |-> Empty]
      BY <1>4 DEF IndInv, TypeOK, Acquire, Goto
    <2>2. \A q \in Procs : pc[q] # "held"
      BY <1>4, PidAssumption DEF IndInv, HolderIsNamed
    <2>3. Alone' /\ WriterOwnsFile' /\ MutualExclusion' /\ HolderIsNamed'
      BY <1>2, <2>1, <2>2
      DEF Alone, WriterOwnsFile, MutualExclusion, HolderIsNamed, Acquiring
    <2>4. InspectorKnows'
      BY <1>2, <2>1, <2>2 DEF InspectorKnows, Acquiring
    <2> QED
      BY <1>1, <2>3, <2>4 DEF IndInv
  <1>5. CASE file # NoFile
    <2>1. pc'[p] = "read" /\ file' = file
      BY <1>5 DEF IndInv, TypeOK, Acquire, Goto
    <2>2. Alone' /\ WriterOwnsFile' /\ MutualExclusion' /\ HolderIsNamed'
      BY <1>2, <2>1
      DEF IndInv, Alone, WriterOwnsFile, MutualExclusion, HolderIsNamed, Acquiring
    <2>3. InspectorKnows'
      BY <1>2, <1>3, <2>1 DEF IndInv, InspectorKnows, Acquiring
    <2> QED
      BY <1>1, <2>2, <2>3 DEF IndInv
  <1> QED
    BY <1>4, <1>5

\* Reading the file tells the inspector the holder's PID.
LEMMA ReadPreserves ==
    ASSUME IndInv, NEW p \in Procs, Read(p)
    PROVE  IndInv'
  <1>1. TypeOK' /\ NoForce'
    BY PidAssumption DEF IndInv, TypeOK, NoForce, Read, Goto, PCs
  <1>2. \A q \in Procs : q # p => pc'[q] = pc[q] /\ seen'[q] = seen[q]
    BY DEF IndInv, TypeOK, Read, Goto
  <1>3. pc'[p] = "alive" /\ pc[p] = "read" /\ file' = file
    BY DEF IndInv, TypeOK, Read, Goto
  <1>4. \A q \in Procs : pc[q] = "held" => seen'[p] = q
    <2> SUFFICES ASSUME NEW q \in Procs, pc[q] = "held" PROVE seen'[p] = q
      OBVIOUS
    <2>1. file = [by |-> q, pid |-> q]
      BY DEF IndInv, HolderIsNamed
    <2>2. file # NoFile
      BY <2>1, PidAssumption
    <2> QED
      BY <2>1, <2>2 DEF IndInv, TypeOK, Read
  <1>5. Alone' /\ WriterOwnsFile' /\ MutualExclusion' /\ HolderIsNamed'
    BY <1>2, <1>3
    DEF IndInv, Alone, WriterOwnsFile, MutualExclusion, HolderIsNamed, Acquiring
  <1>6. InspectorKnows'
    BY <1>2, <1>3, <1>4 DEF IndInv, InspectorKnows
  <1> QED
    BY <1>1, <1>5, <1>6 DEF IndInv

\* The lock is found stale: the holder would have been named and alive.
LEMMA StalePreserves ==
    ASSUME IndInv, NEW p \in Procs, Stale(p)
    PROVE  IndInv'
  <1>1. TypeOK' /\ NoForce'
    BY DEF IndInv, TypeOK, NoForce, Stale, Goto, PCs
  <1>2. \A q \in Procs : q # p => pc'[q] = pc[q]
    BY DEF IndInv, TypeOK, Stale, Goto
  <1>3. pc'[p] = "remove" /\ pc[p] = "alive" /\ file' = file /\ seen' = seen
    BY DEF IndInv, TypeOK, Stale, Goto
  <1>4. \A q \in Procs : pc[q] # "held"
    <2> SUFFICES ASSUME NEW q \in Procs, pc[q] = "held" PROVE FALSE
      OBVIOUS
    <2>1. seen[p] = q
      BY <1>3 DEF IndInv, InspectorKnows
    <2>2. OwnerAlive(p)
      BY <2>1, PidAssumption DEF OwnerAlive, ProcessAlive, Running
    <2> QED
      BY <2>2 DEF Stale, IndInv, NoForce
  <1>5. Alone' /\ WriterOwnsFile' /\ MutualExclusion' /\ HolderIsNamed'
    BY <1>2, <1>3
    DEF IndInv, Alone, WriterOwnsFile, MutualExclusion, HolderIsNamed, Acquiring
  <1>6. InspectorKnows'
    BY <1>2, <1>3, <1>4 DEF IndInv, InspectorKnows
  <1> QED
    BY <1>1, <1>5, <1>6 DEF IndInv

\* The stale file is removed, and the lock file created anew, by the only
\* process in acquire() while nobody holds the lock.
LEMMA ReplacePreserves ==
    ASSUME IndInv, NEW p \in Procs, Remove(p) \/ Recreate(p)
    PROVE  IndInv'
  <1>1. TypeOK' /\ NoForce'
    BY DEF IndInv, TypeOK, NoForce, Remove, Recreate, Goto, PCs
  <1>2. \A q \in Procs : q # p => pc'[q] = pc[q] /\ ~Acquiring(q)
    BY DEF IndInv, TypeOK, Remove, Recreate, Goto, Alone, Acquiring
  <1>3. \A q \in Procs : pc[q] # "held"
    BY DEF IndInv, InspectorKnows, Remove, Recreate
  <1>4. pc'[p] \in {"recreate", "free"}
        \/ (pc'[p] = "write" /\ file' = [by |-> p, pid |-> Empty])
    BY DEF IndInv, TypeOK, Remove, Recreate, Goto
  <1>5. \A q \in Procs : pc'[q] # "held"
    BY <1>2, <1>3, <1>4
  <1>6. Alone' /\ WriterOwnsFile' /\ MutualExclusion' /\ HolderIsNamed'
    BY <1>2, <1>4, <1>5
    DEF Alone, WriterOwnsFile, MutualExclusion, HolderIsNamed, Acquiring
  <1>7. InspectorKnows'
    BY <1>2, <1>4, <1>5 DEF InspectorKnows, Acquiring
  <1> QED
    BY <1>1, <1>6, <1>7 DEF IndInv

\* The PID is written to the file the writer created, which is still there.
LEMMA WritePreserves ==
    ASSUME IndInv, NEW p \in Procs, Write(p)
    PROVE  IndInv'
  <1>1. file = [by |-> p, pid |-> Empty] /\ pc[p] = "write"
    BY DEF IndInv, WriterOwnsFile, Write
  <1>2. file' = [by |-> p, pid |-> p] /\ pc'[p] = "held" /\ seen' = seen
    BY <1>1, PidAssumption DEF IndInv, TypeOK, Write, Goto, Linked
  <1>3. TypeOK' /\ NoForce'
    BY <1>2 DEF IndInv, TypeOK, NoForce, Write, Goto, PCs
  <1>4. \A q \in Procs : q # p => pc'[q] = pc[q] /\ ~Acquiring(q)
    BY <1>1 DEF IndInv, TypeOK, Write, Goto, Alone, Acquiring
  <1>5. \A q \in Procs : pc[q] # "held"
    BY <1>1 DEF IndInv, InspectorKnows
  <1>6. Alone' /\ WriterOwnsFile' /\ MutualExclusion' /\ HolderIsNamed'
    BY <1>2, <1>4, <1>5
    DEF Alone, WriterOwnsFile, MutualExclusion, HolderIsNamed, Acquiring
  <1>7. InspectorKnows'
    BY <1>2, <1>4 DEF InspectorKnows, Acquiring
  <1> QED
    BY <1>3, <1>6, <1>7 DEF IndInv

\* The holder removes the file, and nobody else holds the lock or is about to.
LEMMA ReleasePreserves ==
    ASSUME IndInv, NEW p \in Procs, Release(p)
    PROVE  IndInv'
  <1>1. TypeOK' /\ NoForce'
    BY DEF IndInv, TypeOK, NoForce, Release, Goto, PCs
  <1>2. \A q \in Procs : q # p => pc'[q] = pc[q]
    BY DEF IndInv, TypeOK, Release, Goto
  <1>3. pc[p] = "held" /\ pc'[p] = "free" /\ seen' = seen
    BY DEF IndInv, TypeOK, Release, Goto
  <1>4. \A q \in Procs : pc'[q] \notin {"held", "write", "remove", "recreate"}
    BY <1>2, <1>3 DEF IndInv, MutualExclusion, InspectorKnows
  <1>5. Alone' /\ WriterOwnsFile' /\ MutualExclusion' /\ HolderIsNamed'
    BY <1>2, <1>3, <1>4
    DEF IndInv, Alone, WriterOwnsFile, MutualExclusion, HolderIsNamed, Acquiring
  <1>6. InspectorKnows'
    BY <1>4 DEF InspectorKnows
  <1> QED
    BY <1>1, <1>5, <1>6 DEF IndInv

\* Every step keeps the invariant.
LEMMA StepInv ==
    ASSUME Staggered, MayForce = FALSE, IndInv, [Next]_vars
    PROVE  IndInv'
  <1>1. CASE UNCHANGED vars
    BY <1>1 DEF vars, IndInv, TypeOK, NoForce, Alone, WriterOwnsFile,
       InspectorKnows, HolderIsNamed, MutualExclusion, Acquiring
  <1>2. CASE Next
    <2> PICK p \in Procs :
          \/ Start(p)
          \/ \E f \in {MayForce, FALSE} : Acquire(p, f)
          \/ AcquireStep(p) \/ WriteFails(p)
          \/ Release(p) \/ Die(p)
      BY <1>2 DEF Next
    <2>1. CASE Start(p) \/ Refused(p) \/ WriteFails(p) \/ Die(p)
      BY <2>1, LeavePreserves
    <2>2. CASE Acquire(p, FALSE)
      BY <2>2, AcquirePreserves
    <2>3. CASE Read(p)
      BY <2>3, ReadPreserves
    <2>4. CASE Stale(p)
      BY <2>4, StalePreserves
    <2>5. CASE Remove(p) \/ Recreate(p)
      BY <2>5, ReplacePreserves
    <2>6. CASE Write(p)
      BY <2>6, WritePreserves
    <2>7. CASE Release(p)
      BY <2>7, ReleasePreserves
    <2> QED
      BY <2>1, <2>2, <2>3, <2>4, <2>5, <2>6, <2>7 DEF AcquireStep
  <1> QED
    BY <1>1, <1>2

\* The inductive invariant holds in every reachable state.
THEOREM LockInvariance ==
    ASSUME Staggered, MayForce = FALSE
    PROVE  Spec => []IndInv
  <1>1. Init => IndInv
    BY InitInv
  <1>2. IndInv /\ [Next]_vars => IndInv'
    BY StepInv
  <1> QED
    BY <1>1, <1>2, PTL DEF Spec

\* One process at a time owns the workspace, whatever processes crash where.
THEOREM Exclusion ==
    ASSUME Staggered, MayForce = FALSE
    PROVE  Spec => []MutualExclusion
  <1>1. IndInv => MutualExclusion
    BY DEF IndInv
  <1> QED
    BY <1>1, LockInvariance, PTL

\* The lock file exists and names the owner for as long as it owns.
THEOREM HolderNamed ==
    ASSUME Staggered, MayForce = FALSE
    PROVE  Spec => []HolderIsNamed
  <1>1. IndInv => HolderIsNamed
    BY DEF IndInv
  <1> QED
    BY <1>1, LockInvariance, PTL

-----------------------------------------------------------------------------
(* Refusals.  RefusalJustified needs more than IndInv: that nobody finds his *)
(* own PID in the file, and that nobody creates the file between the removal *)
(* of a stale one and its replacement.                                       *)

\* The PID in the file is that of its holder, or of a process that is gone.
NamesAnother ==
    \A p \in Procs : file # NoFile /\ file.pid = p => pc[p] \in {"held", "gone"}
ReadAnother == \A p \in Procs : pc[p] = "alive" => seen[p] # p
StaleIsGone == \A p \in Procs : pc[p] = "recreate" => file = NoFile
RefusalInv == NamesAnother /\ ReadAnother /\ StaleIsGone

\* A step of a process moves no other process, and only from inside acquire()
\* does it create a file.
LEMMA RefusalStep ==
    ASSUME Staggered, MayForce = FALSE, IndInv, RefusalInv, [Next]_vars
    PROVE  RefusalInv'
  <1>1. CASE UNCHANGED vars
    BY <1>1 DEF vars, RefusalInv, NamesAnother, ReadAnother, StaleIsGone
  <1>2. CASE Next
    <2> PICK p \in Procs :
          \/ Start(p)
          \/ \E f \in {MayForce, FALSE} : Acquire(p, f)
          \/ AcquireStep(p) \/ WriteFails(p)
          \/ Release(p) \/ Die(p)
      BY <1>2 DEF Next
    <2> USE PidAssumption
        DEF IndInv, TypeOK, RefusalInv, NamesAnother, ReadAnother, StaleIsGone, Goto
    <2>1. CASE Start(p) \/ Refused(p) \/ Stale(p) \/ WriteFails(p) \/ Die(p)
      BY <2>1 DEF Start, Refused, Stale, WriteFails, Die
    <2>2. CASE Acquire(p, FALSE)
      <3>1. \A q \in Procs : q # p => ~Acquiring(q)
        BY <2>2 DEF Acquire, MayAcquire
      <3> QED
        BY <2>2, <3>1 DEF Acquire, MayAcquire, Acquiring
    <2>3. CASE Read(p)
      BY <2>3 DEF Read
    <2>4. CASE Remove(p)
      BY <2>4 DEF Remove
    <2>5. CASE Recreate(p)
      <3>1. \A q \in Procs : q # p => ~Acquiring(q)
        BY <2>5 DEF Recreate, Alone, Acquiring
      <3> QED
        BY <2>5, <3>1 DEF Recreate, Acquiring
    <2>6. CASE Write(p)
      <3>1. \A q \in Procs : q # p => ~Acquiring(q)
        BY <2>6 DEF Write, Alone, Acquiring
      <3>2. file' = [by |-> p, pid |-> p] /\ pc' = [pc EXCEPT ![p] = "held"] /\ seen' = seen
        BY <2>6 DEF Write, WriterOwnsFile, Linked
      <3> QED
        BY <3>1, <3>2 DEF Acquiring
    <2>7. CASE Release(p)
      BY <2>7 DEF Release
    <2> QED
      BY <2>1, <2>2, <2>3, <2>4, <2>5, <2>6, <2>7 DEF AcquireStep
  <1> QED
    BY <1>1, <1>2

\* The two ways out of acquire() without the lock: the owner is alive, and is
\* another process; or somebody was faster, which cannot happen here.
LEMMA RefusalHasCause ==
    ASSUME MayForce = FALSE, IndInv, RefusalInv, [Next]_vars, NEW p \in Procs,
           Acquiring(p), pc'[p] = "free", pc[p] # "write"
    PROVE  \E q \in Procs : q # p /\ Running(q)
  <1>1. PICK r \in Procs :
          \/ Start(r)
          \/ \E f \in {MayForce, FALSE} : Acquire(r, f)
          \/ AcquireStep(r) \/ WriteFails(r)
          \/ Release(r) \/ Die(r)
    BY DEF Next, vars, Acquiring
  <1>2. r = p
    <2> SUFFICES ASSUME r # p PROVE pc'[p] = pc[p]
      BY DEF Acquiring
    <2> QED
      BY <1>1 DEF IndInv, TypeOK, Goto, Start, Acquire, AcquireStep, Read, Refused, Stale,
             Remove, Recreate, Write, WriteFails, Release, Die
  <1>3. Refused(p) \/ (Recreate(p) /\ file # NoFile)
    BY <1>1, <1>2
    DEF IndInv, TypeOK, Goto, Acquiring, Start, Acquire, MayAcquire, AcquireStep, Read, Stale,
        Remove, Recreate, Write, WriteFails, Release, Die
  <1>4. Refused(p)
    BY <1>3 DEF RefusalInv, StaleIsGone, Recreate
  <1>5. seen[p] \in Procs /\ Running(seen[p]) /\ seen[p] # p
    BY <1>4 DEF Refused, OwnerAlive, ProcessAlive, IndInv, TypeOK, RefusalInv, ReadAnother
  <1> QED
    BY <1>5

\* What the file names holds in every reachable state.
LEMMA NamesInvariance ==
    ASSUME Staggered, MayForce = FALSE
    PROVE  Spec => []RefusalInv
  <1>1. Init => RefusalInv
    BY DEF Init, RefusalInv, NamesAnother, ReadAnother, StaleIsGone
  <1>2. IndInv /\ RefusalInv /\ [Next]_vars => RefusalInv'
    BY RefusalStep
  <1> QED
    BY <1>1, <1>2, LockInvariance, PTL DEF Spec

\* acquire() fails only because of another process that runs, or of a full
\* disk: what crashed processes left behind, at whatever point, is no obstacle.
THEOREM RefusalsAreJustified ==
    ASSUME Staggered, MayForce = FALSE
    PROVE  Spec => RefusalJustified
  <1>1. IndInv /\ RefusalInv /\ [Next]_vars
        => [\A p \in Procs :
              Acquiring(p) /\ pc'[p] = "free" /\ pc[p] # "write" =>
                  \E q \in Procs : q # p /\ Running(q)]_vars
    BY RefusalHasCause
  <1> QED
    BY <1>1, LockInvariance, NamesInvariance, PTL DEF Spec, RefusalJustified

-----------------------------------------------------------------------------
(* The abstract lock.  That the PID shown is never that of a running process *)
(* which is not the owner needs NamesAnother, and so does that a removal     *)
(* wipes off nobody's.                                                       *)

\* When nobody has the workspace, the file shows no running process.
LEMMA ShownIsDead ==
    ASSUME IndInv, RefusalInv, Holders = {}
    PROVE  Shown \notin Alive
  <1> SUFFICES ASSUME Shown \in Alive PROVE FALSE
    OBVIOUS
  <1>1. file # NoFile /\ Shown = file.pid
    BY PidAssumption DEF Shown, Alive
  <1>2. Shown \in Procs /\ Running(Shown)
    BY DEF Alive
  <1>3. pc[Shown] \in {"held", "gone"}
    BY <1>1, <1>2 DEF RefusalInv, NamesAnother
  <1> QED
    BY <1>2, <1>3 DEF Holders, Running

\* A step of the file's protocol is a step of the abstract lock, or changes neither who runs
\* nor who owns nor what is shown.
LEMMA StepImplements ==
    ASSUME Staggered, MayForce = FALSE, IndInv, RefusalInv, [Next]_vars
    PROVE  [Lock!Next]_(Lock!lvars)
  <1>1. CASE UNCHANGED vars
    BY <1>1 DEF vars, Holders, Alive, Running, Shown, Lock!lvars
  <1>2. CASE Next
    <2> PICK p \in Procs :
          \/ Start(p)
          \/ \E f \in {MayForce, FALSE} : Acquire(p, f)
          \/ AcquireStep(p) \/ WriteFails(p)
          \/ Release(p) \/ Die(p)
      BY <1>2 DEF Next
    <2>1. pc \in [Procs -> PCs]
      BY DEF IndInv, TypeOK
    <2>2. CASE Start(p)
      <3>1. file' = file /\ pc[p] = "unborn" /\ pc' = [pc EXCEPT ![p] = "free"]
        BY <2>2 DEF Start, Goto
      <3>2. Holders' = Holders /\ Shown' = Shown
        BY <2>1, <3>1 DEF Holders, Shown
      <3>3. p \notin Alive /\ Alive' = Alive \cup {p}
        BY <2>1, <3>1 DEF Alive, Running
      <3> QED
        BY <3>2, <3>3 DEF Lock!Next, Lock!Begin
    <2>3. CASE Write(p)
      <3>1. \A q \in Procs : pc[q] # "held"
        BY <2>3 DEF IndInv, InspectorKnows, Write
      <3>2. pc[p] = "write" /\ pc' = [pc EXCEPT ![p] = "held"]
        BY <2>3 DEF Write, Goto
      <3>3. file = [by |-> p, pid |-> Empty]
        BY <3>2 DEF IndInv, WriterOwnsFile
      <3>4. file' = [by |-> p, pid |-> p]
        BY <2>3, <3>3, PidAssumption DEF Write, Linked
      <3>5. file # NoFile /\ file' # NoFile
        BY <3>3, <3>4, PidAssumption
      <3>6. Shown = Empty /\ Shown' = p
        BY <3>3, <3>4, <3>5 DEF Shown
      <3>7. Holders = {} /\ Holders' = {p}
        BY <2>1, <3>1, <3>2 DEF Holders
      <3>8. p \in Alive /\ Alive' = Alive
        BY <2>1, <3>2 DEF Alive, Running
      <3> QED
        BY <3>6, <3>7, <3>8 DEF Lock!Next, Lock!Take
    <2>4. CASE Release(p)
      <3>1. pc[p] = "held" /\ pc' = [pc EXCEPT ![p] = "free"] /\ file' = NoFile
        BY <2>4 DEF Release, Goto
      <3>2. file = [by |-> p, pid |-> p]
        BY <3>1 DEF IndInv, HolderIsNamed
      <3>3. file # NoFile
        BY <3>2, PidAssumption
      <3>4. Shown = p /\ Shown' = Empty
        BY <3>1, <3>2, <3>3 DEF Shown
      <3>5. \A q \in Procs : pc[q] = "held" => q = p
        BY <3>1 DEF IndInv, MutualExclusion
      <3>6. Holders = {p} /\ Holders' = {}
        BY <2>1, <3>1, <3>5 DEF Holders
      <3>7. Alive' = Alive
        BY <2>1, <3>1 DEF Alive, Running
      <3> QED
        BY <3>4, <3>6, <3>7 DEF Lock!Next, Lock!Give
    <2>5. CASE Die(p)
      <3>1. Running(p) /\ pc' = [pc EXCEPT ![p] = "gone"] /\ file' = file
        BY <2>5 DEF Die, Goto
      <3>2. Shown' = Shown
        BY <3>1 DEF Shown
      <3>3. p \in Alive /\ Alive' = Alive \ {p}
        BY <2>1, <3>1 DEF Alive, Running
      <3>4. Holders' = Holders \ {p}
        BY <2>1, <3>1 DEF Holders
      <3> QED
        BY <3>2, <3>3, <3>4 DEF Lock!Next, Lock!End
    <2>6. CASE Remove(p)
      <3>1. pc[p] = "remove" /\ pc' = [pc EXCEPT ![p] = "recreate"] /\ file' = NoFile
        BY <2>6 DEF Remove, Goto
      <3>2. Holders = {}
        BY <3>1 DEF IndInv, InspectorKnows, Holders
      <3>3. Shown \notin Alive /\ Shown' = Empty
        BY <3>1, <3>2, ShownIsDead DEF Shown
      <3>4. p \in Alive /\ Alive' = Alive /\ Holders' = Holders
        BY <2>1, <3>1 DEF Alive, Running, Holders
      <3> QED
        BY <3>3, <3>4 DEF Lock!Next, Lock!Wipe
    <2>7. CASE (\E f \in {MayForce, FALSE} : Acquire(p, f)) \/ Recreate(p)
      <3>1. /\ pc[p] \in {"free", "recreate"}
            /\ pc' = [pc EXCEPT ![p] = "write"] \/ pc' = [pc EXCEPT ![p] = "read"]
               \/ pc' = [pc EXCEPT ![p] = "free"]
        BY <2>7 DEF Acquire, MayAcquire, Recreate, Goto
      <3>2. file' = file \/ (file = NoFile /\ file' = [by |-> p, pid |-> Empty])
        BY <2>7 DEF Acquire, Recreate
      <3>3. Shown' = Shown
        BY <3>2 DEF Shown
      <3>4. Alive' = Alive /\ Holders' = Holders
        BY <2>1, <3>1 DEF Alive, Running, Holders
      <3> QED
        BY <3>3, <3>4 DEF Lock!lvars
    <2>8. CASE Read(p) \/ Refused(p) \/ Stale(p) \/ WriteFails(p)
      <3>1. /\ pc[p] \in {"read", "alive", "write"}
            /\ pc' = [pc EXCEPT ![p] = "alive"] \/ pc' = [pc EXCEPT ![p] = "free"]
               \/ pc' = [pc EXCEPT ![p] = "remove"]
        BY <2>8 DEF Read, Refused, Stale, WriteFails, Goto
      <3>2. file' = file
        BY <2>8 DEF Read, Refused, Stale, WriteFails
      <3>3. Shown' = Shown
        BY <3>2 DEF Shown
      <3>4. Alive' = Alive /\ Holders' = Holders
        BY <2>1, <3>1 DEF Alive, Running, Holders
      <3> QED
        BY <3>3, <3>4 DEF Lock!lvars
    <2> QED
      BY <2>2, <2>3, <2>4, <2>5, <2>6, <2>7, <2>8 DEF AcquireStep
  <1> QED
    BY <1>1, <1>2

\* The lock file implements the abstract lock, for any number of processes that crash
\* anywhere: the owner is the one whose PID is shown and running.
THEOREM LockImplemented ==
    ASSUME Staggered, MayForce = FALSE
    PROVE  Spec => ImplementsLock
  <1>1. Init => Lock!Init
    BY DEF Init, Lock!Init, Holders, Alive, Running, Shown
  <1>2. IndInv /\ RefusalInv /\ [Next]_vars => [Lock!Next]_(Lock!lvars)
    BY StepImplements
  <1> QED
    BY <1>1, <1>2, LockInvariance, NamesInvariance, PTL DEF Spec, ImplementsLock, Lock!Spec
=============================================================================
