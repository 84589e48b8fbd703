--------------------------- MODULE WorkspaceLock ---------------------------
\* What the workspace lock promises (prism-cli/src/pid_lock.rs) to a process that starts, and
\* to an administrator who reads the lock file: the workspace is given to one process at a
\* time, the mark on it is the owner's as long as the owner runs, outlives an owner that
\* crashes, and is wiped off, by whoever runs, only when it names nobody that runs.
CONSTANTS Procs, Nobody
VARIABLES
    alive,    \* the processes that are running
    owners,   \* those that have the workspace
    mark      \* the process the workspace is marked with, or Nobody

lvars == <<alive, owners, mark>>

Init == alive = {} /\ owners = {} /\ mark = Nobody

Begin(p) == p \notin alive /\ alive' = alive \cup {p} /\ UNCHANGED <<owners, mark>>
Wipe(p)  == p \in alive /\ mark \notin alive /\ mark' = Nobody /\ UNCHANGED <<alive, owners>>
Take(p)  == p \in alive /\ owners = {} /\ mark = Nobody
            /\ owners' = {p} /\ mark' = p /\ UNCHANGED alive
Give(p)  == owners = {p} /\ mark = p
            /\ owners' = {} /\ mark' = Nobody /\ UNCHANGED alive
\* The end of a process takes the workspace from it, not its mark from the workspace.
End(p)   == p \in alive
            /\ alive' = alive \ {p} /\ owners' = owners \ {p} /\ UNCHANGED mark

Next == \E p \in Procs : Begin(p) \/ Wipe(p) \/ Take(p) \/ Give(p) \/ End(p)
Spec == Init /\ [][Next]_lvars
=============================================================================
