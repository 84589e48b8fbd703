----------------------------- MODULE PluginHost -----------------------------
(* The two tables of the plugin crate: what PluginLoader has read from the   *)
(* search paths, and the states and hook subscriptions that LifecycleManager *)
(* keeps.  A host calls both in any order, with the loaded manifest and the  *)
(* listeners the lifecycle names, while the files of the plugins change.     *)
EXTENDS Functions, Lists

CONSTANTS
  PlIds,        \* plugin ids, and the directories the search paths hold
  Paths,        \* the number of search paths
  PlDisks,      \* initial contents of the search paths
  Texts,        \* contents of an entry file
  PlHooks,      \* the hooks manifests name
  Defines,      \* [Texts -> SUBSET PlHooks]: the handlers a text declares
  Throws,       \* the texts whose top level fails, or that validate() refuses
  HookNames,    \* what a caller names: [hook, form]
  EditBound     \* changes to entry files in a behaviour

\* Every search path is a directory of plugins.
ASSUME PlDisksAssumption == \A d \in PlDisks : DOMAIN d = 1..Paths /\ \A p \in 1..Paths : DOMAIN d[p] = PlIds

VARIABLES plDisk, loaded, states, registry,
          loading,                    \* the call of load() that is under way, which borrows the loader
          outcome,                    \* what the last execute_* call returned
          promised, entryRuns, edits, \* history: manifest hooks, entry scripts run by hooks, file changes
          slipped                     \* history: plugins whose entry file changed between the two reads of their load
plVars == <<plDisk, loaded, states, registry, loading, outcome, promised, entryRuns, edits, slipped>>

NotLoaded == [is |-> "not loaded"]
Plugin(man, path, script, initialized) ==
  [is |-> "loaded", man |-> man, path |-> path, script |-> script, initialized |-> initialized]

(* PluginManifest::validate: every defect is reported, an empty list is Ok. *)
ManifestDefects(man) ==
  (IF man.idShape # "lower-case words" THEN {man.idShape} ELSE {}) \cup
  (IF man.entryShape # "relative" THEN {man.entryShape} ELSE {}) \cup
  (IF man.type = "config" /\ "network:outbound" \in man.permissions THEN {"network"} ELSE {}) \cup
  (IF man.timeout \notin 100..300000 THEN {"timeout"} ELSE {})

HasManifest(p, id) == plDisk[p][id].manifest.is # "absent"
ValidManifest(man) == man.is = "json" /\ ManifestDefects(man) = {}

(* discover(): the manifests of every path that parse and validate; the others are skipped. *)
Discovered == {id \in PlIds : \E p \in 1..Paths, dir \in PlIds :
                 LET man == plDisk[p][dir].manifest IN ValidManifest(man) /\ man.id = id}

Readable(entry) == entry \notin {"absent", "unreadable"}
(* load(), for an id that is a plain name: the first search path that has the manifest decides, also by its errors. *)
Found(id) == {p \in 1..Paths : HasManifest(p, id) /\ \A q \in 1..p - 1 : ~HasManifest(q, id)}
ChecksumHolds(man, entry) == man.sum = "none" \/ (Readable(entry) /\ entry = man.sum)
Loadable(id) ==
  \E p \in Found(id) : LET d == plDisk[p][id] IN ValidManifest(d.manifest) /\ ChecksumHolds(d.manifest, d.entry)

(* load() reads the entry file up to three times: for the checksum, to see whether it is there, and *)
(* for the text it keeps.  The file may change in between; other calls of the loader may not come.  *)
NoLoad == [is |-> "nothing"]
Loading(step, id, p, man) == [is |-> step, id |-> id, path |-> p, man |-> man]
LoaderIdle == loading.is = "nothing"
LoaderLoad(id) ==
  /\ LoaderIdle
  /\ IF loaded[id].is = "loaded" \/ ~Loadable(id)
     THEN UNCHANGED <<loading, slipped>>
     ELSE /\ \E p \in Found(id) : loading' = Loading("verified", id, p, plDisk[p][id].manifest)
          /\ slipped' = slipped \ {id}
  /\ outcome' = <<>>
  /\ UNCHANGED <<plDisk, loaded, states, registry, promised, entryRuns, edits>>

Kept(script) ==
  /\ loaded' = [loaded EXCEPT ![loading.id] = Plugin(loading.man, loading.path, script, FALSE)]
  /\ entryRuns' = [entryRuns EXCEPT ![loading.id] = 0]
EntryFile == plDisk[loading.path][loading.id].entry

(* The entry file is there, or the plugin is kept without a text. *)
LoaderLook ==
  /\ loading.is = "verified"
  /\ IF EntryFile = "absent"
     THEN Kept("none") /\ loading' = NoLoad
     ELSE loading' = Loading("present", loading.id, loading.path, loading.man) /\ UNCHANGED <<loaded, entryRuns>>
  /\ outcome' = <<>>
  /\ UNCHANGED <<plDisk, states, registry, promised, edits, slipped>>

(* Its text is kept, or load() fails. *)
LoaderRead ==
  /\ loading.is = "present"
  /\ IF Readable(EntryFile) THEN Kept(EntryFile) ELSE UNCHANGED <<loaded, entryRuns>>
  /\ loading' = NoLoad
  /\ outcome' = <<>>
  /\ UNCHANGED <<plDisk, states, registry, promised, edits, slipped>>

LoaderUnload(id) ==
  /\ LoaderIdle
  /\ loaded' = [loaded EXCEPT ![id] = NotLoaded]
  /\ outcome' = <<>>
  /\ UNCHANGED <<plDisk, states, registry, loading, promised, entryRuns, edits, slipped>>

-----------------------------------------------------------------------------
(* is_permitted *)
Permitted(man, action) == action \in man.permissions

(* The script of a loaded plugin: the cached one, or the file as it is now. *)
EntryScript(id) == IF loaded[id].script # "none" THEN loaded[id].script ELSE plDisk[loaded[id].path][id].entry

(* Hook::from_str takes the three spellings of a built-in hook; a display name passes the list of  *)
(* allowed names as it is, and names a function no plugin has; a cron expression must pass          *)
(* is_valid_schedule_hook, which knows no names of days or months.                                  *)
Accepted(name) == name.form \in {"Pascal", "camel", "snake", "display", "cron"}
Function(name) == IF name.form = "display" THEN "none" ELSE name.hook

(* entry: the entry script ran; due: it declares the handler; handled: the handler ran. *)
Answer(id, ok, ran, text, due, handled) ==
  [id |-> id, ok |-> ok, entry |-> ran, text |-> text, due |-> due, handled |-> handled]
Refused(id) == Answer(id, FALSE, FALSE, "none", FALSE, FALSE)

\* MUTANT of FirstRun: every hook runs the entry script.
MutFirstRun(p) == TRUE
FirstRun(p) == ~p.initialized

(* One plugin of execute_hook: the entry script runs with the first hook only, and a later call     *)
(* starts in an empty runtime, where no handler is defined.                                         *)
Reaches(id, name) ==
  /\ loaded[id].is = "loaded" /\ Permitted(loaded[id].man, "config:read")
  /\ Readable(EntryScript(id)) /\ Accepted(name)
RunHook(id, name) ==
  IF ~Reaches(id, name) THEN Refused(id)
  ELSE LET text == EntryScript(id)
           first == FirstRun(loaded[id])
           due == Function(name) \in Defines[text]
       IN  Answer(id, ~first \/ text \notin Throws, first, text, due, due /\ first /\ text \notin Throws)

Initialized(p) == Plugin(p.man, p.path, p.script, TRUE)
ExecuteHook(ids, name) ==
  /\ LoaderIdle
  /\ outcome' = [i \in DOMAIN ids |-> RunHook(ids[i], name)]
  /\ loaded' = [id \in PlIds |-> IF (\E i \in DOMAIN ids : ids[i] = id) /\ Reaches(id, name)
                                 THEN Initialized(loaded[id]) ELSE loaded[id]]
  /\ entryRuns' = [id \in PlIds |-> IF \E i \in DOMAIN ids : ids[i] = id /\ RunHook(id, name).entry
                                    THEN entryRuns[id] + 1 ELSE entryRuns[id]]
  /\ UNCHANGED <<plDisk, states, registry, loading, promised, edits, slipped>>

(* The host triggers a hook: the plugins that listen to it are told. *)
Trigger(name) == name.hook \in PlHooks /\ registry[name.hook] # <<>> /\ ExecuteHook(registry[name.hook], name)

ExecutePlugin(id) ==
  LET text == EntryScript(id)
  IN  /\ LoaderIdle /\ loaded[id].is = "loaded" /\ Readable(text) /\ Permitted(loaded[id].man, "config:read")
      /\ outcome' = <<Answer(id, text \notin Throws, TRUE, text, FALSE, FALSE)>>
      /\ UNCHANGED <<plDisk, loaded, states, registry, loading, promised, entryRuns, edits, slipped>>

-----------------------------------------------------------------------------
InState(id, from) == states[id] \in from
Unsubscribed(id) == [h \in PlHooks |-> Retained(registry[h], {id})]
Subscribed(id, man) ==
  [h \in PlHooks |-> IF h \in man.hooks /\ id \notin Range(registry[h])
                     THEN Append(registry[h], id) ELSE registry[h]]

To(id, state, reg) ==
  /\ states' = [states EXCEPT ![id] = state]
  /\ registry' = reg
  /\ promised' = [promised EXCEPT ![id] = IF state = "Active" THEN loaded[id].man.hooks ELSE {}]
  /\ outcome' = <<>>
  /\ UNCHANGED <<plDisk, loaded, loading, entryRuns, edits, slipped>>

Untracked == {"untracked"}
LcDiscover(id) == LoaderIdle /\ id \in Discovered /\ InState(id, Untracked) /\ To(id, "Discovered", registry)
LcLoad(id) == InState(id, {"Discovered"}) /\ To(id, "Loaded", registry)
RegisterHooks(id) ==
  loaded[id].is = "loaded" /\ InState(id, {"Loaded", "Suspended"}) /\ To(id, "Active", Subscribed(id, loaded[id].man))
Resume(id) == loaded[id].is = "loaded" /\ InState(id, {"Suspended"}) /\ To(id, "Active", Subscribed(id, loaded[id].man))
Suspend(id) == InState(id, {"Active"}) /\ To(id, "Suspended", Unsubscribed(id))
LcUnload(id) == InState(id, {"Active", "Suspended"}) /\ To(id, "Unloaded", Unsubscribed(id))

(* An author, or an update, replaces the entry file of an installed plugin. *)
EditEntry(p, id, text) ==
  /\ edits < EditBound /\ HasManifest(p, id) /\ plDisk[p][id].entry # text
  /\ plDisk' = [plDisk EXCEPT ![p][id].entry = text]
  /\ edits' = edits + 1 /\ outcome' = <<>>
  /\ slipped' = IF ~LoaderIdle /\ loading.id = id /\ loading.path = p THEN slipped \cup {id} ELSE slipped
  /\ UNCHANGED <<loaded, states, registry, loading, promised, entryRuns>>

PlInit ==
  /\ plDisk \in PlDisks
  /\ loaded = [id \in PlIds |-> NotLoaded]
  /\ states = [id \in PlIds |-> "untracked"]
  /\ registry = [h \in PlHooks |-> <<>>]
  /\ loading = NoLoad /\ outcome = <<>> /\ slipped = {}
  /\ promised = [id \in PlIds |-> {}] /\ entryRuns = [id \in PlIds |-> 0] /\ edits = 0
PlNext ==
  \/ LoaderLook \/ LoaderRead
  \/ \E id \in PlIds : \/ LoaderLoad(id) \/ LoaderUnload(id) \/ ExecutePlugin(id)
                       \/ LcDiscover(id) \/ LcLoad(id) \/ RegisterHooks(id)
                       \/ Resume(id) \/ Suspend(id) \/ LcUnload(id)
  \/ \E name \in HookNames : Trigger(name) \/ \E id \in PlIds : ExecuteHook(<<id>>, name)
  \/ \E p \in 1..Paths, id \in PlIds, text \in Texts \cup {"absent"} : EditEntry(p, id, text)
PlSpec == PlInit /\ [][PlNext]_plVars

-----------------------------------------------------------------------------
(* The listeners of a hook are exactly the active plugins whose manifest named it when they became  *)
(* active, each once, whatever calls came in between (lifecycle.rs:90, :166).                 *)
RegistryExact ==
  \A h \in PlHooks : /\ Range(registry[h]) = {id \in PlIds : states[id] = "Active" /\ h \in promised[id]}
                     /\ IsInjective(registry[h])

(* The hooks of one loaded plugin run its entry script at most once (loader.rs:486), and a handler  *)
(* runs with it or not at all, although loader.rs:338 says that every hook reaches its handlers.     *)
EntryOnce ==
  /\ \A id \in PlIds : entryRuns[id] <= 1
  /\ \A i \in DOMAIN outcome : outcome[i].handled => outcome[i].due /\ outcome[i].entry

(* A plugin with a checksum runs only the text that has it, also after its file has changed or has  *)
(* been away (loader.rs:184, :279, :378), except for one that came in between the check and the      *)
(* second read of the same load (loader.rs:187, :210): load() checks one read and keeps another.     *)
VerifiedRuns ==
  \A i \in DOMAIN outcome : LET r == outcome[i] IN
    (r.entry /\ loaded[r.id].is = "loaded" /\ loaded[r.id].man.sum # "none" /\ r.id \notin slipped)
      => r.text = loaded[r.id].man.sum

(* An unloaded plugin stays unloaded: no discovery, load or registration brings it back.  So the doc *)
(* at lifecycle.rs:305 has it; the diagram at :63 draws a rediscovery that discover() does not make. *)
UnloadedIsFinal == [][\A id \in PlIds : states[id] = "Unloaded" => states'[id] = "Unloaded"]_plVars

(* Plugins, subscriptions and entry scripts agree, whatever the order of the calls and whatever      *)
(* changes in the files meanwhile (loader.rs, lifecycle.rs).                                         *)
PluginsAgree == [](RegistryExact /\ EntryOnce /\ VerifiedRuns) /\ UnloadedIsFinal
=============================================================================
