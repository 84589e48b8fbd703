----------------------------- MODULE OutputFile -----------------------------
(* What atomic_write (target.rs) promises of the configuration file: writes    *)
(* come one at a time, and a write replaces the whole content or changes       *)
(* nothing.  Only where a failed rename is followed by a copy can the file be  *)
(* found torn: during the copy, or after it was interrupted.                   *)
CONSTANTS Contents, Torn, Nothing

VARIABLES
  file,     \* what a reader finds
  writing,  \* the content of the write under way, or Nothing
  copies    \* a failed rename is followed by a copy
fileVars == <<file, writing, copies>>

Init  == file \in Contents /\ writing = Nothing /\ copies \in BOOLEAN
Begin == writing = Nothing /\ writing' \in Contents /\ UNCHANGED <<file, copies>>
Commit == writing # Nothing /\ file' = writing /\ writing' = Nothing /\ UNCHANGED copies
\* An error, or the end of the process.
GiveUp == writing # Nothing /\ writing' = Nothing /\ UNCHANGED <<file, copies>>
Tear == copies /\ writing # Nothing /\ file' = Torn /\ UNCHANGED <<writing, copies>>

Next == Begin \/ Commit \/ GiveUp \/ Tear
Spec == Init /\ [][Next]_fileVars
=============================================================================
