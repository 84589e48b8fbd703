------------------------------ MODULE DiskCache ------------------------------
(* The second-level cache (cache.rs): one entry on disk, written through a       *)
(* temporary file whose name depends on the key alone.  Several instances, of    *)
(* one process or of several, share the directory; each has threads and a write  *)
(* lock of its own.  Names point to inodes, for a file renamed while another     *)
(* writer has it open goes on being written.  A value is written in two pieces.  *)
EXTENDS Integers, FiniteSets

CONSTANTS
  Writers,    \* threads
  Owner,      \* thread -> its DiskCache
  Values,
  CLEANUP_INTERVAL,
  MaxCalls    \* bound on calls and crashes

\* "free" is no thread; a new file fits beside the entry.
ASSUME DiskAssumption == "free" \notin Writers /\ MaxCalls \in Nat \ {0, 1}

VARIABLES
  dir,        \* name -> inode, 0 if there is no such file
  inode,      \* inode -> its two pieces, each a value or "-"
  lock,       \* instance -> the thread holding write_lock, or "free"
  wpc, val, fd,  \* thread -> step of set(), value, open file
  count,      \* instance -> write_count
  answer,     \* what the last get() read, <<>> if there was no file
  calls,
  clash       \* history: two instances were writing the entry at the same time

diskVars == <<dir, inode, lock, wpc, val, fd, count, answer, calls, clash>>
Instances == {Owner[t] : t \in Writers}
Whole(v) == <<v, v>>
NoFile == <<"-", "-">>
Names(tmp, cache) == [tmp |-> tmp, cache |-> cache]

DiskInit ==
  /\ dir = Names(0, 0)
  /\ inode = [n \in 1..MaxCalls |-> NoFile]
  /\ lock = [c \in Instances |-> "free"] /\ count = [c \in Instances |-> 0]
  /\ wpc = [t \in Writers |-> "idle"] /\ val = [t \in Writers |-> "-"] /\ fd = [t \in Writers |-> 0]
  /\ answer = NoFile /\ calls = 0 /\ clash = FALSE

Writing(t) == wpc[t] \in {"create", "first", "second", "rename"}
Unlock(t) == /\ wpc' = [wpc EXCEPT ![t] = "idle"]
             /\ lock' = [lock EXCEPT ![Owner[t]] = "free"]
Goto(t, p) == wpc' = [wpc EXCEPT ![t] = p] /\ UNCHANGED lock

\* MUTANT of LockFree: nobody waits for the lock.
MutLockFree(t) == TRUE
\* set(): the lock of the instance, then create, write, rename.
LockFree(t) == lock[Owner[t]] = "free"
SetBegin(t, v) ==
  /\ wpc[t] = "idle" /\ LockFree(t) /\ calls < MaxCalls
  /\ calls' = calls + 1
  /\ lock' = [lock EXCEPT ![Owner[t]] = t]
  /\ wpc' = [wpc EXCEPT ![t] = "create"] /\ val' = [val EXCEPT ![t] = v]
  /\ clash' = (clash \/ \E u \in Writers : Writing(u) /\ Owner[u] # Owner[t])
  /\ UNCHANGED <<dir, inode, fd, count, answer>>

\* File::create truncates the file it finds.
Fresh == CHOOSE n \in DOMAIN inode : n \notin {dir.tmp, dir.cache} /\ (\A u \in Writers : fd[u] # n)
Create(t) ==
  /\ wpc[t] = "create"
  /\ LET n == IF dir.tmp = 0 THEN Fresh ELSE dir.tmp
     IN /\ dir' = Names(n, dir.cache)
        /\ inode' = [inode EXCEPT ![n] = NoFile]
        /\ fd' = [fd EXCEPT ![t] = n]
  /\ Goto(t, "first")
  /\ UNCHANGED <<val, count, answer, calls, clash>>

WritePiece(t) ==
  /\ wpc[t] \in {"first", "second"}
  /\ inode' = [inode EXCEPT ![fd[t]] = IF wpc[t] = "first" THEN <<val[t], @[2]>> ELSE <<@[1], val[t]>>]
  /\ Goto(t, IF wpc[t] = "first" THEN "second" ELSE "rename")
  /\ UNCHANGED <<dir, val, fd, count, answer, calls, clash>>

\* The temporary file may be gone: the rename fails then.  Every CLEANUP_INTERVAL writes a
\* temporary file beside an entry is removed (cleanup_stale_tmp_files).
CleanTmp(d) == IF d.cache # 0 THEN Names(0, d.cache) ELSE d
RenameTmp(t) ==
  /\ wpc[t] = "rename"
  /\ IF dir.tmp = 0 THEN UNCHANGED <<dir, count>>
     ELSE /\ count' = [count EXCEPT ![Owner[t]] = (@ + 1) % CLEANUP_INTERVAL]
          /\ LET d == Names(0, dir.tmp)
             IN dir' = IF count'[Owner[t]] = 0 THEN CleanTmp(d) ELSE d
  /\ Unlock(t) /\ fd' = [fd EXCEPT ![t] = 0]
  /\ UNCHANGED <<inode, val, answer, calls, clash>>

\* An error on the way leaves the temporary file.
SetFails(t) ==
  /\ Writing(t) /\ calls < MaxCalls
  /\ calls' = calls + 1
  /\ Unlock(t) /\ fd' = [fd EXCEPT ![t] = 0]
  /\ UNCHANGED <<dir, inode, val, count, answer, clash>>

\* remove(), and cleanup() of an old entry.
RemoveEntry(t) ==
  /\ wpc[t] = "idle" /\ LockFree(t) /\ dir.cache # 0
  /\ dir' = Names(dir.tmp, 0)
  /\ UNCHANGED <<inode, lock, wpc, val, fd, count, answer, calls, clash>>

\* get() takes no lock.
GetEntry ==
  /\ answer' = IF dir.cache = 0 THEN NoFile ELSE inode[dir.cache]
  /\ UNCHANGED <<dir, inode, lock, wpc, val, fd, count, calls, clash>>

\* The process of an instance ends, or the instance is dropped: only the latter cleans up.
CrashInstance(c) ==
  /\ calls < MaxCalls /\ calls' = calls + 1
  /\ wpc' = [t \in Writers |-> IF Owner[t] = c THEN "idle" ELSE wpc[t]]
  /\ fd' = [t \in Writers |-> IF Owner[t] = c THEN 0 ELSE fd[t]]
  /\ lock' = [lock EXCEPT ![c] = "free"] /\ count' = [count EXCEPT ![c] = 0]
  /\ UNCHANGED <<dir, inode, val, answer, clash>>
DropInstance(c) ==
  /\ calls < MaxCalls /\ calls' = calls + 1
  /\ \A t \in Writers : Owner[t] = c => wpc[t] = "idle"
  /\ dir' = CleanTmp(dir) /\ count' = [count EXCEPT ![c] = 0]
  /\ UNCHANGED <<inode, lock, wpc, val, fd, answer, clash>>

DiskNext ==
  \/ \E t \in Writers : \/ \E v \in Values : SetBegin(t, v)
                        \/ Create(t) \/ WritePiece(t) \/ RenameTmp(t) \/ SetFails(t) \/ RemoveEntry(t)
  \/ \E c \in Instances : CrashInstance(c) \/ DropInstance(c)
  \/ GetEntry
DiskSpec == DiskInit /\ [][DiskNext]_diskVars

------------------------------------------------------------------------------
\* Whatever threads, crashes, errors and clean-ups do, what get() reads was written by one
\* set(), whole, unless two instances wrote the entry at the same time: they share the name
\* of the temporary file and no lock.  (DiskCache::set, cleanup_stale_tmp_files)
EntriesWhole ==
  ~clash => answer \in {NoFile} \cup {Whole(v) : v \in Values}

=============================================================================
