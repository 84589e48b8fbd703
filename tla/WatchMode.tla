------------------------------ MODULE WatchMode ------------------------------
(* `prism watch`: the loop of FileWatcher, its debounce, the default pipeline   *)
(* (read, parse, execute, write, reload) and the steps of atomic_write, with    *)
(* edits of the watched files in between, errors, crashes and restarts.         *)
(*                                                                              *)
(* A configuration is the sequence of patched files it was made by: applying    *)
(* the patches of version v of file f to c gives Append(c, <<f, v>>).  The file *)
(* the kernel reads holds a configuration, or Half of one.                      *)
EXTENDS Integers, Sequences, FiniteSets, SequencesExt

CONSTANTS
  Files,      \* *.prism.yaml files under the watched directory, in path order
  Skipped,    \* those below a hidden directory or one of skip_dirs
  MaxEdits, MaxRestarts, MaxFaults  \* bounds

\* A name that is no file stands for half of a content, and for none.
ASSUME WatchAssumption == IsFiniteSet(Files) /\ Files \cap {"half", "none"} = {}

VARIABLES
  copies,     \* a rename that fails is followed by a copy: EXDEV, or no Unix
  disk,       \* file -> its version, and whether it exists and parses
  queue,      \* events of notify not yet received
  pending,    \* pending_events
  quiet,      \* debounce_ms have passed since last_trigger
  waited,     \* MAX_DEBOUNCE_WAIT has passed since first_pending_event
  pc,         \* where the process is
  base,       \* base_config
  batch,      \* events on_batch_change has still to read
  got,        \* patches it has collected
  temp,       \* content of the temporary file of the write under way
  output,     \* the configuration file
  leftover,   \* temporary files nobody will remove
  kernel,     \* the configuration the kernel loaded last
  restarts, faults,
  compiled,   \* history: file -> version in the last batch that was written
  unlucky     \* history: files whose events were drained by a batch that failed

vars == <<copies, disk, queue, pending, quiet, waited, pc, base, batch, got, temp, output,
          leftover, kernel, restarts, faults, compiled, unlucky>>
loopVars == <<queue, pending, quiet, waited>>
runVars  == <<base, batch, got, compiled, unlucky>>
fileVars == <<temp, output, leftover>>

Half   == <<<<"half", 0>>>>
NoTemp == <<<<"none", 0>>>>
Running == pc # "stopped"

Init ==
  /\ copies \in BOOLEAN
  /\ disk \in [Files -> {[ver |-> 0, is |-> k] : k \in {"good", "absent"}}]
  /\ queue = <<>> /\ pending = <<>> /\ quiet = TRUE /\ waited = FALSE
  /\ pc = "stopped" /\ base = <<>> /\ batch = <<>> /\ got = <<>>
  /\ temp = NoTemp /\ output = <<>> /\ leftover = 0 /\ kernel = <<>>
  /\ restarts = 0 /\ faults = 0
  /\ compiled = [f \in Files |-> -1] /\ unlucky = {}

------------------------------------------------------------------------------
\* The users and the clock.
Edits == FoldFunction(LAMBDA d, n : d.ver + n, 0, disk)
Edit(f, k) ==
  /\ Edits < MaxEdits /\ (k = "absent" => disk[f].is # "absent")
  /\ disk' = [disk EXCEPT ![f] = [ver |-> @.ver + 1, is |-> k]]
  \* filter_event: names decide, not directories.
  /\ queue' = IF Running
                THEN Append(queue, [path |-> f, kind |-> IF k = "absent" THEN "Removed" ELSE "Modified"])
                ELSE queue
  /\ UNCHANGED <<copies, pending, quiet, waited, pc, runVars, fileVars, kernel, restarts, faults>>

Tick ==
  /\ Running
  /\ \/ ~quiet /\ quiet' = TRUE /\ UNCHANGED waited
     \/ ~waited /\ pending # <<>> /\ waited' = TRUE /\ UNCHANGED quiet
  /\ UNCHANGED <<copies, disk, queue, pending, pc, runVars, fileVars, kernel, restarts, faults>>

------------------------------------------------------------------------------
\* cmd_watch, run: DefaultPipeline::new without a base configuration takes the output file
\* for one; an unreadable file counts as empty.
Start ==
  /\ pc = "stopped" /\ restarts < MaxRestarts
  /\ restarts' = restarts + 1
  /\ base' = IF output = Half THEN <<>> ELSE output
  /\ queue' = <<>> /\ pending' = <<>> /\ quiet' = TRUE /\ waited' = FALSE
  /\ pc' = "scan"
  /\ compiled' = [f \in Files |-> -1] /\ unlucky' = {}
  /\ UNCHANGED <<copies, disk, batch, got, fileVars, kernel, faults>>

\* compile_all_files, walkdir_prism_files: in path order.
Existing == {f \in Files : disk[f].is # "absent" /\ f \notin Skipped}
PathOrder == SetToSeq(Files)
InPathOrder(s) == \A m, n \in DOMAIN s : m < n =>
  \E i, j \in DOMAIN PathOrder : i < j /\ PathOrder[i] = s[m] /\ PathOrder[j] = s[n]
Scan ==
  /\ pc = "scan"
  /\ \E found \in SetToSeqs(Existing) :
       /\ InPathOrder(found)
       /\ batch' = [n \in DOMAIN found |-> [path |-> found[n], kind |-> "Modified"]]
  /\ got' = <<>>
  /\ pc' = IF Existing = {} THEN "idle" ELSE "read"
  /\ UNCHANGED <<copies, disk, loopVars, base, compiled, unlucky, fileVars, kernel, restarts, faults>>

\* MUTANT of LastEvents: the first event of a path counts.
MutLastEvents(s) == {s[n] : n \in {m \in DOMAIN s : \A k \in 1..m - 1 : s[k].path # s[m].path}}
\* flush_events: the last event of each path, in the order of a HashMap.
LastEvents(s) == {s[n] : n \in {m \in DOMAIN s : \A k \in m + 1..Len(s) : s[k].path # s[m].path}}
Flush(s) ==
  /\ batch' \in SetToSeqs(LastEvents(s))
  /\ got' = <<>> /\ pending' = <<>> /\ waited' = FALSE
  /\ pc' = "read"

\* recv_timeout returns an event: it is flushed at once if the last trigger is long ago.
FlushNow == quiet \/ waited
Receive ==
  /\ pc = "idle" /\ queue # <<>>
  /\ queue' = Tail(queue)
  /\ LET all == Append(pending, Head(queue)) IN
     IF FlushNow THEN Flush(all) /\ quiet' = FALSE
     ELSE pending' = all /\ UNCHANGED <<quiet, waited, pc, batch, got>>
  /\ UNCHANGED <<copies, disk, base, compiled, unlucky, fileVars, kernel, restarts, faults>>

\* MUTANT of Timeout: the timer is never looked at.
MutTimeout == FALSE /\ UNCHANGED vars
\* It times out.
Timeout ==
  /\ pc = "idle" /\ queue = <<>> /\ pending # <<>>
  /\ Flush(pending) /\ quiet' = FALSE
  /\ UNCHANGED <<copies, disk, queue, base, compiled, unlucky, fileVars, kernel, restarts, faults>>

\* Control-C is noticed between two events; what is pending is dropped.
Exit ==
  /\ pc = "idle"
  /\ pc' = "stopped"
  /\ UNCHANGED <<copies, disk, loopVars, runVars, fileVars, kernel, restarts, faults>>

------------------------------------------------------------------------------
\* on_batch_change.  Any failure ends the batch: its events are gone.
Batched == {got[n][1] : n \in DOMAIN got} \cup {batch[n].path : n \in DOMAIN batch}
Fail ==
  /\ unlucky' = unlucky \cup Batched
  /\ pc' = "idle" /\ batch' = <<>> /\ got' = <<>>
  /\ UNCHANGED <<base, compiled>>

ReadNext ==
  /\ pc = "read" /\ batch # <<>>
  /\ LET e == Head(batch) IN
     IF e.kind = "Modified" /\ disk[e.path].is # "good" THEN Fail
     ELSE /\ batch' = Tail(batch)
          /\ got' = IF e.kind = "Modified" THEN Append(got, <<e.path, disk[e.path].ver>>) ELSE got
          /\ UNCHANGED <<pc, base, compiled, unlucky>>
  /\ UNCHANGED <<copies, disk, loopVars, fileVars, kernel, restarts, faults>>

\* The executor has run: its result is written to a temporary file, in pieces.
Result == base \o got
\* MUTANT of OpenTemp: the output itself is opened.
MutOpenTemp ==
  /\ pc = "read" /\ batch = <<>>
  /\ output' = Half /\ temp' = Half /\ pc' = "write"
  /\ UNCHANGED <<copies, disk, loopVars, runVars, leftover, kernel, restarts, faults>>
OpenTemp ==
  /\ pc = "read" /\ batch = <<>>
  /\ temp' = Half /\ pc' = "write"
  /\ UNCHANGED <<copies, disk, loopVars, runVars, output, leftover, kernel, restarts, faults>>
WriteTemp ==
  /\ pc = "write"
  /\ temp' = Result /\ pc' = "rename"
  /\ UNCHANGED <<copies, disk, loopVars, runVars, output, leftover, kernel, restarts, faults>>

\* The directory, the temporary file, its writing or its sync fails: nothing is removed.
WriteFails ==
  /\ pc \in {"write", "rename"} /\ faults < MaxFaults
  /\ faults' = faults + 1 /\ leftover' = leftover + 1 /\ temp' = NoTemp
  /\ Fail
  /\ UNCHANGED <<copies, disk, loopVars, output, kernel, restarts>>

Written(f) == \E n \in DOMAIN got : got[n][1] = f
Commit ==
  /\ compiled' = [f \in Files |-> IF Written(f) THEN got[CHOOSE n \in DOMAIN got : got[n][1] = f][2]
                                                ELSE compiled[f]]
  /\ unlucky' = {f \in unlucky : ~Written(f)}
  /\ batch' = <<>> /\ got' = <<>> /\ pc' = "reload" /\ temp' = NoTemp
  /\ UNCHANGED base

Rename ==
  /\ pc = "rename"
  /\ output' = temp /\ Commit
  /\ UNCHANGED <<copies, disk, loopVars, leftover, kernel, restarts, faults>>
\* The rename fails: the temporary file is removed, or copied over the target.
RenameFails ==
  /\ pc = "rename" /\ faults < MaxFaults
  /\ faults' = faults + 1
  /\ IF copies THEN /\ output' = Half /\ pc' = "copy"
                      /\ UNCHANGED <<runVars, temp>>
                 ELSE Fail /\ temp' = NoTemp /\ UNCHANGED output
  /\ UNCHANGED <<copies, disk, loopVars, leftover, kernel, restarts>>
Copy ==
  /\ pc = "copy"
  /\ output' = temp /\ Commit
  /\ UNCHANGED <<copies, disk, loopVars, leftover, kernel, restarts, faults>>
CopyFails ==
  /\ pc = "copy"
  /\ temp' = NoTemp /\ Fail
  /\ UNCHANGED <<copies, disk, loopVars, output, leftover, kernel, restarts, faults>>

\* notify_hot_reload: the kernel loads the file, or is not told; neither is an error.
Reload ==
  /\ pc = "reload"
  /\ pc' = "idle"
  /\ kernel' \in {output, kernel}
  /\ UNCHANGED <<copies, disk, loopVars, runVars, fileVars, restarts, faults>>

Crash ==
  /\ Running /\ faults < MaxFaults
  /\ pc' = "stopped" /\ faults' = faults + 1
  /\ temp' = NoTemp /\ leftover' = IF temp = NoTemp THEN leftover ELSE leftover + 1
  /\ batch' = <<>> /\ got' = <<>>
  /\ UNCHANGED <<copies, disk, loopVars, base, compiled, unlucky, output, kernel, restarts>>

Env == (\E f \in Files, k \in {"good", "bad", "absent"} : Edit(f, k)) \/ Exit \/ Crash
Write == OpenTemp \/ WriteTemp \/ Rename \/ Copy \/ Reload
Errors == WriteFails \/ RenameFails \/ CopyFails
Loop == Tick \/ Scan \/ Receive \/ Timeout \/ ReadNext
Stopped == pc = "stopped" /\ restarts = MaxRestarts /\ UNCHANGED vars
Next == Env \/ Start \/ Loop \/ Write \/ Errors \/ Stopped

\* The process runs while it is not stopped; edits, errors and restarts are nobody's duty.
Spec == Init /\ [][Next]_vars /\ WF_vars(Loop \/ Write)

------------------------------------------------------------------------------
Out == INSTANCE OutputFile WITH
  Contents <- Seq(Files \X Nat),
  Torn     <- Half,
  Nothing  <- NoTemp,
  file     <- output,
  writing  <- IF pc \in {"write", "rename", "copy"} THEN Result ELSE NoTemp

\* The configuration file is replaced whole or not at all, whatever edits, errors and
\* crashes come in between, except where a failed rename is followed by a copy: WatchMode
\* implements OutputFile.  (atomic_write)
WholeFile == Out!Spec

Settled == pc = "idle" /\ queue = <<>> /\ pending = <<>>

\* When the watcher has nothing left to do, no edit has slipped through between reading a
\* file and clearing its event: each file that parses was last compiled as it is now, but
\* for those whose batch failed and those a scan does not see.  (run_with_callback, flush_events)
NoEditMissed ==
  Settled => \A f \in Files :
    disk[f].is = "good" /\ f \notin unlucky /\ ~(f \in Skipped /\ compiled[f] = -1)
      => compiled[f] = disk[f].ver

\* Events never stay in the buffer of the debounce, though none may follow.  (RecvTimeoutError::Timeout)
PendingFlushed == pending # <<>> ~> pending = <<>> \/ ~Running

=============================================================================
