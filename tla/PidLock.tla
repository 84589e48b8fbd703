------------------------------ MODULE PidLock ------------------------------
(***************************************************************************)
(* The workspace lock of prism-cli (prism-cli/src/pid_lock.rs): a file     *)
(* holding the PID of the process that owns the workspace.  `serve` takes  *)
(* it with acquire() and Drop gives it back with release().                *)
(*                                                                         *)
(* The file system is modelled at the granularity of system calls: create  *)
(* with O_EXCL, write, read, unlink.  A write goes to the file the process *)
(* created, so it is lost if that file was unlinked meanwhile.             *)
(***************************************************************************)
EXTENDS Naturals

CONSTANTS
    Procs,       \* processes, by their PIDs; each runs once (no PID reuse)
    NoFile,      \* there is no lock file
    Empty,       \* the content of a file created and not written yet
    MayForce,    \* may --force be given?
    Staggered    \* do acquisitions follow one another?

ASSUME PidAssumption ==
    /\ MayForce \in BOOLEAN /\ Staggered \in BOOLEAN
    /\ Empty \notin Procs
    /\ NoFile \notin [by : Procs, pid : Procs \cup {Empty}]

VARIABLES
    file,   \* the lock file: which process created it and what it contains
    pc,     \* process -> where in its life and in acquire()
    force,  \* process -> the --force flag of its acquire()
    seen    \* process -> the PID it read, or Empty

vars == <<file, pc, force, seen>>

PCs == {"unborn", "free", "read", "alive", "remove", "recreate", "write",
        "held", "gone"}

Acquiring(p) == pc[p] \in {"read", "alive", "remove", "recreate", "write"}
Running(p)   == pc[p] \notin {"unborn", "gone"}

\* MUTANT of ProcessAlive: the answer is "no" for every process.
MutNeverAlive(id) == FALSE

\* kill(pid, 0) == 0
ProcessAlive(id) == Running(id)

\* The file read names a process, and it is running.
OwnerAlive(p) == seen[p] # Empty /\ ProcessAlive(seen[p])

Goto(p, l) == pc' = [pc EXCEPT ![p] = l]
Linked(p)  == file # NoFile /\ file.by = p

Init ==
    /\ file = NoFile
    /\ pc = [p \in Procs |-> "unborn"]
    /\ force = [p \in Procs |-> FALSE]
    /\ seen = [p \in Procs |-> Empty]

Start(p) ==
    /\ pc[p] = "unborn"
    /\ Goto(p, "free")
    /\ UNCHANGED <<file, force, seen>>

MayAcquire(p) == pc[p] = "free" /\ (Staggered => \A q \in Procs : ~Acquiring(q))

\* acquire(): create_new succeeds, or the file exists and is inspected.
Acquire(p, f) ==
    /\ MayAcquire(p)
    /\ force' = [force EXCEPT ![p] = f]
    /\ IF file = NoFile
       THEN file' = [by |-> p, pid |-> Empty] /\ Goto(p, "write")
       ELSE Goto(p, "read") /\ UNCHANGED file
    /\ UNCHANGED seen

\* A missing or unparsable file yields no PID, which counts as stale.
Read(p) ==
    /\ pc[p] = "read"
    /\ seen' = [seen EXCEPT ![p] = IF file = NoFile THEN Empty ELSE file.pid]
    /\ Goto(p, "alive")
    /\ UNCHANGED <<file, force>>

\* MUTANT of Refused: the message is shown, and the file removed all the same.
MutRefused(p) ==
    /\ pc[p] = "alive"
    /\ OwnerAlive(p) /\ ~force[p]
    /\ Goto(p, "remove")
    /\ UNCHANGED <<file, force, seen>>

\* The owner is alive and may not be overridden: acquire() returns Err.
Refused(p) ==
    /\ pc[p] = "alive"
    /\ OwnerAlive(p) /\ ~force[p]
    /\ Goto(p, "free")
    /\ UNCHANGED <<file, force, seen>>

Stale(p) ==
    /\ pc[p] = "alive"
    /\ OwnerAlive(p) => force[p]
    /\ Goto(p, "remove")
    /\ UNCHANGED <<file, force, seen>>

Remove(p) ==
    /\ pc[p] = "remove"
    /\ file' = NoFile
    /\ Goto(p, "recreate")
    /\ UNCHANGED <<force, seen>>

\* The second create_new: somebody may have been faster.
Recreate(p) ==
    /\ pc[p] = "recreate"
    /\ IF file = NoFile
       THEN file' = [by |-> p, pid |-> Empty] /\ Goto(p, "write")
       ELSE Goto(p, "free") /\ UNCHANGED file
    /\ UNCHANGED <<force, seen>>

\* MUTANT of Write: the PID never reaches the file.
MutNoPid(p) ==
    /\ pc[p] = "write"
    /\ Goto(p, "held")
    /\ UNCHANGED <<file, force, seen>>

Write(p) ==
    /\ pc[p] = "write"
    /\ file' = IF Linked(p) THEN [by |-> p, pid |-> p] ELSE file
    /\ Goto(p, "held")
    /\ UNCHANGED <<force, seen>>

\* The disk is full: acquire() returns Err and leaves the empty file.
WriteFails(p) ==
    /\ pc[p] = "write"
    /\ Goto(p, "free")
    /\ UNCHANGED <<file, force, seen>>

\* MUTANT of Release: the file stays.
MutFileKept(p) ==
    /\ pc[p] = "held"
    /\ Goto(p, "free")
    /\ UNCHANGED <<file, force, seen>>

\* release(), also by Drop: whatever file is there is removed.
Release(p) ==
    /\ pc[p] = "held"
    /\ file' = NoFile
    /\ Goto(p, "free")
    /\ UNCHANGED <<force, seen>>

\* The process exits, or is killed anywhere without running Drop.
Die(p) ==
    /\ Running(p)
    /\ Goto(p, "gone")
    /\ UNCHANGED <<file, force, seen>>

AcquireStep(p) ==
    Read(p) \/ Refused(p) \/ Stale(p) \/ Remove(p) \/ Recreate(p) \/ Write(p)

Next == \E p \in Procs :
    \/ Start(p)
    \/ \E f \in {MayForce, FALSE} : Acquire(p, f)
    \/ AcquireStep(p) \/ WriteFails(p)
    \/ Release(p) \/ Die(p)

Spec == Init /\ [][Next]_vars

-----------------------------------------------------------------------------

TypeOK ==
    /\ file \in [by : Procs, pid : Procs \cup {Empty}] \cup {NoFile}
    /\ pc \in [Procs -> PCs]
    /\ force \in [Procs -> BOOLEAN]
    /\ seen \in [Procs -> Procs \cup {Empty}]

\* "No two Prism instances work on one workspace": one holder at a time.
MutualExclusion == \A p, q \in Procs : pc[p] = "held" /\ pc[q] = "held" => p = q

\* While a process holds the lock the file exists, is its own and names it,
\* so that every later acquire() sees it.
HolderIsNamed ==
    \A p \in Procs : pc[p] = "held" => file = [by |-> p, pid |-> p]

\* The file and the system calls implement the lock they stand for.  The PID that the file
\* shows and the processes that run tell who has the workspace, at every instant of every
\* acquisition, release and crash: a PID that runs is the owner's, a file that shows nobody
\* belongs to no owner, a crash leaves its PID behind, and what a starting process removes
\* never showed a process that runs.  (acquire, release)
Holders == {p \in Procs : pc[p] = "held"}
Alive == {p \in Procs : Running(p)}
Shown == IF file = NoFile THEN Empty ELSE file.pid
Lock == INSTANCE WorkspaceLock
        WITH Nobody <- Empty, alive <- Alive, owners <- Holders, mark <- Shown
ImplementsLock == Lock!Spec

NoForce == \A p \in Procs : ~force[p]
Alone == \A p, q \in Procs : Acquiring(p) /\ Acquiring(q) => p = q

\* The process between create and write still owns the file it created.
WriterOwnsFile == \A p \in Procs : pc[p] = "write" => file = [by |-> p, pid |-> Empty]

\* An inspection under way knows the holder, if there is one; past it there
\* is no holder.
InspectorKnows ==
    /\ \A p, q \in Procs : pc[p] = "alive" /\ pc[q] = "held" => seen[p] = q
    /\ \A p, q \in Procs : pc[p] \in {"remove", "recreate", "write"} => pc[q] # "held"

\* The inductive invariant behind the two properties above.
IndInv ==
    TypeOK /\ NoForce /\ Alone /\ WriterOwnsFile /\ InspectorKnows
           /\ HolderIsNamed /\ MutualExclusion

\* acquire() fails only because of another process that is running, or of a
\* full disk: a file left by a crash, at any point of acquire() or while
\* holding, or by the process itself, is no obstacle.
RefusalJustified ==
    [][\A p \in Procs :
          Acquiring(p) /\ pc'[p] = "free" /\ pc[p] # "write" =>
              \E q \in Procs : q # p /\ Running(q)]_vars
=============================================================================
