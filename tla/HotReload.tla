----------------------------- MODULE HotReload -----------------------------
(* target.rs: the configuration adapted to the kernel that is to load it, the *)
(* compact form of its text, and write_and_reload, which replaces the file    *)
(* and tells the kernel, by a signal or over HTTP.                            *)
(*                                                                            *)
(* A configuration maps each dotted path to what stands there.  How the file  *)
(* itself is replaced is OutputFile's.                                        *)
EXTENDS Integers, Sequences, Lists

CONSTANTS
  Settings,       \* configurations: path -> value, "absent" where there is none
  YamlTexts,      \* texts: sequences of lines
  Pids, MaxPid,   \* what may be given as a PID; i32::MAX
  HttpReload      \* is the feature http-reload built in

ASSUME PidAssumption == Pids \subseteq Nat /\ MaxPid \in Nat
\* A blank line is no header.
ASSUME YamlAssumption ==
  /\ YamlTexts \subseteq Seq([blank : BOOLEAN, indent : Nat, opens : BOOLEAN, end : {"colon-bar", "bar", "other"}])
  /\ \A lines \in YamlTexts : \A n \in DOMAIN lines : lines[n].blank => lines[n].end = "other" /\ ~lines[n].opens

-----------------------------------------------------------------------------
(* field_mappings, and what is done to a field.  The parent of a field that is there is an object   *)
(* and stays one, so the new place of a renamed field exists.  (set_json_path)                      *)
NoField == ""
For(target, path, to) == [target |-> target, path |-> path, to |-> to]
FieldMappings ==
  <<For("clash-rs", "tun.device", NoField), For("clash-rs", "tun.stack", "tun.interface-name"),
    For("clash-rs", "experimental.ignore-certificate-errors", NoField),
    For("clash-rs", "external-controller-tls", NoField), For("clash-rs", "secret", NoField),
    For("mihomo", "log.level", "log-level")>>
\* A configuration has a place for every field of the table, whatever stands there; NoField is no place.
ASSUME SettingsAssumption ==
  \A c \in Settings :
    /\ NoField \notin DOMAIN c
    /\ \A n \in DOMAIN FieldMappings : {FieldMappings[n].path, FieldMappings[n].to} \subseteq DOMAIN c \cup {NoField}
RemoveField(c, path) == [c EXCEPT ![path] = "absent"]
\* MUTANT of RenameField: a field that is not there is renamed all the same.
MutRenameField(c, path, to) == [c EXCEPT ![to] = c[path], ![path] = "absent"]
RenameField(c, path, to) == IF c[path] = "absent" THEN c ELSE [c EXCEPT ![to] = c[path], ![path] = "absent"]
AdaptField(c, mapping) ==
  IF mapping.to = NoField THEN RemoveField(c, mapping.path) ELSE RenameField(c, mapping.path, mapping.to)
\* A configuration written as JSON is not adapted: no mapping is for it.
AdaptForTarget(c, target) ==
  LET adapted[n \in 0..Len(FieldMappings)] ==
        IF n = 0 THEN c
        ELSE IF FieldMappings[n].target # target THEN adapted[n - 1]
        ELSE AdaptField(adapted[n - 1], FieldMappings[n])
  IN adapted[Len(FieldMappings)]

-----------------------------------------------------------------------------
(* compact_yaml.  A line that is not blank has an indentation, may open a block scalar, and ends in *)
(* a bar after a colon ("key: |"), in another bar ("- |", "a|") or otherwise ("key: |-").  The code *)
(* takes the first for headers, and the second neither for a header nor for the end of a scalar.    *)
\* in_block_scalar and block_scalar_indent after each line.
BlockScalar(lines) ==
  LET after[n \in 0..Len(lines)] ==
        IF n = 0 THEN [inside |-> FALSE, indent |-> 0]
        ELSE LET line == lines[n]  before == after[n - 1] IN
          IF line.blank THEN before
          ELSE IF line.end = "colon-bar" THEN [inside |-> TRUE, indent |-> line.indent]
          ELSE IF line.end = "bar" THEN before
          ELSE [inside |-> before.inside /\ line.indent > before.indent, indent |-> before.indent]
  IN after
\* A blank line that stays is written empty.
Pushed(lines) == LET after == BlockScalar(lines) IN {n \in DOMAIN lines : lines[n].blank => after[n - 1].inside}
\* The blank lines at the end are cut off.
TrimEnd(lines, places) == {n \in places : \E k \in places : k >= n /\ ~lines[k].blank}
CompactYaml(lines) == Chosen(lines, TrimEnd(lines, Pushed(lines)))

-----------------------------------------------------------------------------
VARIABLES
  wanted,     \* what write_and_reload was given: a configuration, a kernel and a strategy
  disk,       \* the configuration in the output file
  procs,      \* PID -> "gone", "kernel" or "stranger"
  running,    \* the configuration the kernel has loaded
  told,       \* the processes that got the word of the call under way
  phase, answer,
  printed     \* a text and its compact form
reloadVars == <<wanted, disk, procs, running, told, phase, answer, printed>>

Old == [path \in {"old"} |-> "old"]
NoText == [of |-> <<>>, compact |-> <<>>]
Strategies == [by : {"signal"}, pid : Pids] \cup {[by |-> "http"], [by |-> "none"]}

\* The calls of write_and_reload in their order.
CallOrder == <<"write", "tell">>
Following(s) == IF s = CallOrder[1] THEN CallOrder[2] ELSE "idle"

CallReload(c, target, how) ==
  /\ phase = "idle" /\ answer = "none" /\ printed = NoText
  /\ wanted' = [settings |-> c, target |-> target, how |-> how] /\ phase' = CallOrder[1]
  /\ UNCHANGED <<disk, procs, running, told, answer, printed>>
Write ==
  /\ phase = "write" /\ disk' = AdaptForTarget(wanted.settings, wanted.target)
  /\ phase' = Following("write")
  /\ UNCHANGED <<wanted, procs, running, told, answer, printed>>
\* The file is as it was.  (A copy between file systems that fails may cut it: OutputFile.)
WriteFails ==
  /\ phase = "write" /\ answer' = "error" /\ phase' = "idle"
  /\ UNCHANGED <<wanted, disk, procs, running, told, printed>>

Answered(a) == answer' = a /\ phase' = Following("tell")
\* The error of a failed write and that of a failed call here differ only in their wording.
NotTold == Answered("error") /\ UNCHANGED <<told, running>>
\* What the kernel does when it is told: it loads the file.
Tell(who) ==
  /\ told' = told \cup {who}
  /\ running' = IF who = "kernel" THEN disk ELSE running
\* reload_by_signal.  The look into /proc and the kill(pid, 0) before it refuse no PID: a failed
\* kill answers -1, which is not the error number the code compares it with.
Refused(pid) == pid \in {0, 1} \/ pid > MaxPid
ReloadBySignal ==
  /\ phase = "tell" /\ wanted.how.by = "signal"
  /\ \/ NotTold   \* the PID is refused, nobody has it, or its process is another user's
     \/ /\ ~Refused(wanted.how.pid) /\ procs[wanted.how.pid] # "gone"
        /\ Answered("success") /\ Tell(procs[wanted.how.pid])
  /\ UNCHANGED <<wanted, disk, procs, printed>>
\* reload_by_http_api: without the feature, and with it.  Any process may listen at the URL.
Listening == {procs[q] : q \in DOMAIN procs} \ {"gone"}
ReloadByHttp ==
  /\ phase = "tell" /\ wanted.how.by = "http"
  /\ \/ ~HttpReload /\ Answered("unsupported") /\ UNCHANGED <<told, running>>
     \/ HttpReload /\ NotTold
     \/ HttpReload /\ \E who \in Listening :
          \/ Answered("success") /\ Tell(who)
          \* It answers with an error, or the answer is lost: it may have loaded the file or not.
          \/ Answered("error") /\ Tell(who)
          \/ Answered("error") /\ told' = told \cup {who} /\ UNCHANGED running
  /\ UNCHANGED <<wanted, disk, procs, printed>>
TellNoOne ==
  /\ phase = "tell" /\ wanted.how.by = "none" /\ Answered("success")
  /\ UNCHANGED <<wanted, disk, procs, running, told, printed>>
NotifyHotReload == ReloadBySignal \/ ReloadByHttp \/ TellNoOne

\* A process ends, or a new one gets its PID.  The PIDs that are refused are whole groups to kill().
Process(pid) ==
  /\ printed = NoText /\ pid > 1 /\ pid <= MaxPid
  /\ procs' = [procs EXCEPT ![pid] = IF @ = "gone" THEN "stranger" ELSE "gone"]
  /\ UNCHANGED <<wanted, disk, running, told, phase, answer, printed>>
Compact(lines) ==
  /\ phase = "idle" /\ answer = "none" /\ printed = NoText
  /\ printed' = [of |-> lines, compact |-> CompactYaml(lines)]
  /\ UNCHANGED <<wanted, disk, procs, running, told, phase, answer>>

ReloadInit ==
  /\ wanted = [target |-> "no call"] /\ disk = Old /\ running = Old /\ told = {} /\ phase = "idle"
  /\ answer = "none" /\ printed = NoText
  /\ procs \in {f \in [Pids -> {"gone", "kernel", "stranger"}] :
                  \A q \in Pids : q \in {0, 1} \/ q > MaxPid => f[q] = "stranger"}

Outputs == {"mihomo", "clash-rs", "json"}
ReloadNext ==
  \/ \E c \in Settings, target \in Outputs, how \in Strategies : CallReload(c, target, how)
  \/ \E lines \in YamlTexts : Compact(lines)
  \/ Write \/ WriteFails \/ NotifyHotReload
  \/ \E pid \in Pids : Process(pid)
ReloadSpec == ReloadInit /\ [][ReloadNext]_reloadVars

-----------------------------------------------------------------------------
(* What is written is the configuration with the fields of the table gone or under their new name   *)
(* and every other field as it was.  The compact text has lost no line but blank ones; of these     *)
(* it has those inside a block scalar that do not end the text, and no other, except in texts with  *)
(* a header that does not end in ": |" or ": >" ("- |", "|-"), with a line that ends so and is no   *)
(* header, or with a line outside of the scalars that ends in another bar.  (target.rs:574, :793)   *)
Untouched(c, target, path) ==
  ~\E n \in DOMAIN FieldMappings : FieldMappings[n].target = target /\ path \in {FieldMappings[n].path, FieldMappings[n].to}
InScalar(lines, n) ==
  \E h \in 1..n - 1 : /\ lines[h].opens
                       /\ \A k \in h + 1..n : lines[k].blank \/ lines[k].indent > lines[h].indent
Plainly(lines) == \A n \in DOMAIN lines :
  IF InScalar(lines, n) THEN lines[n].end # "colon-bar"
  ELSE lines[n].end # "bar" /\ (lines[n].opens <=> lines[n].end = "colon-bar")
OutputMeaning ==
  /\ disk # Old => LET c == wanted.settings IN
       /\ DOMAIN disk = DOMAIN c
       /\ \A path \in DOMAIN c :
            \/ Untouched(c, wanted.target, path) /\ disk[path] = c[path]
            \/ \E n \in DOMAIN FieldMappings : LET f == FieldMappings[n] IN
                 /\ f.target = wanted.target
                 /\ \/ path = f.path /\ disk[path] = "absent"
                    \/ path = f.to /\ disk[path] = IF c[f.path] = "absent" THEN c[path] ELSE c[f.path]
  /\ \E kept \in SUBSET DOMAIN printed.of :
       /\ \A n \in DOMAIN printed.of \ kept : printed.of[n].blank
       /\ printed.compact = Chosen(printed.of, kept)
  /\ Plainly(printed.of) =>
       LET lines == printed.of
           stays(n) == ~lines[n].blank \/ (InScalar(lines, n) /\ \E k \in n..Len(lines) : ~lines[k].blank)
       IN  printed.compact = Chosen(lines, {n \in DOMAIN lines : stays(n)})

(* No one is told before the file is what write_and_reload was asked to write, and a kernel that    *)
(* loads it loads that; a success by signal or over HTTP means that someone was told, and if it was *)
(* the kernel that it runs the new file; an error by signal means that no one was told.  An error   *)
(* does not say whether the file was replaced, nor one over HTTP whether the kernel has loaded it.  *)
(* No call tells the processes that are never to be told.  (target.rs:513, :345, :486)              *)
ReloadTold ==
  /\ told # {} => disk = AdaptForTarget(wanted.settings, wanted.target)
  /\ running # Old => "kernel" \in told /\ running = disk
  /\ answer = "success" /\ wanted.how.by # "none" => told # {}
  /\ answer = "success" /\ "kernel" \in told => running = disk
  /\ answer \in {"none", "unsupported"} => told = {}
  /\ answer = "error" /\ wanted.how.by = "signal" => told = {}
  /\ told # {} /\ wanted.how.by = "signal" => wanted.how.pid \notin {0, 1} /\ wanted.how.pid <= MaxPid

(* What is written is what the target understands, and a success means what it says.                *)
(* (target.rs:513, :573, :808)                                                                      *)
OutputReaches == OutputMeaning /\ ReloadTold
=============================================================================
