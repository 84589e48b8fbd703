------------------------------ MODULE Migration ------------------------------
(***************************************************************************)
(* Migrations of a configuration (clash-prism-core/src/migration.rs): the  *)
(* ones above its `prism_version` run in the order of their numbers, up to *)
(* the first that fails.  What a migration does is a change it makes; one  *)
(* that fails has made half of it.  A call is one run: it begins, takes    *)
(* one migration after the other and ends.                                 *)
(***************************************************************************)
EXTENDS Integers, Sequences

CONSTANTS
  Releases,      \* the lists of migrations of successive releases, as registered
  VersionLimit,  \* the largest number of a version (u32::MAX)
  Stated,        \* what configurations state as their version at first
  MaxMigrationRuns   \* bound: runs in a behaviour

Migrations == UNION {{Releases[r][i] : i \in DOMAIN Releases[r]} : r \in DOMAIN Releases}

\* Names are unique, numbers fit, and a release keeps what was there and adds higher numbers.
ASSUME MigrationAssumption ==
  /\ Releases \in Seq(Seq(Migrations)) /\ Releases # <<>> /\ VersionLimit \in Nat
  /\ \A m \in Migrations : m.version \in 0..VersionLimit
  /\ \A m, n \in Migrations : m.name = n.name => m = n
  /\ \A r \in DOMAIN Releases : \A m \in Migrations, i \in DOMAIN Releases[r] :
       m.version <= Releases[r][i].version => \E j \in DOMAIN Releases[r] : Releases[r][j] = m
  /\ \A s \in Stated : s.is = "number" => s.n \in Nat

VARIABLES
  release,    \* which of Releases is installed
  migrated,   \* the configuration: is it an object, its version and its changes
  running,    \* a run is under way
  todo,       \* the positions of its pending migrations
  latest,     \* latest_version
  reports,    \* what the last run reported
  migrationRuns
mgVars == <<release, migrated, running, todo, latest, reports, migrationRuns>>

Registered == Releases[release]
Complete(name) == [name |-> name, whole |-> TRUE]
Partial(name) == [name |-> name, whole |-> FALSE]
NumberVersion(n) == [is |-> "number", n |-> n]
Configuration(object, version, changes) == [object |-> object, version |-> version, changes |-> changes]
Report(m, changed, ok) == [name |-> m.name, migrated |-> changed, ok |-> ok]

\* No number, or no object, counts as version 0; a number too large as the largest.
Version(cfg) ==
  IF ~cfg.object \/ cfg.version.is # "number" THEN 0
  ELSE IF cfg.version.n > VersionLimit THEN VersionLimit ELSE cfg.version.n

BeginRun ==
  /\ ~running /\ migrationRuns < MaxMigrationRuns
  /\ running' = TRUE /\ migrationRuns' = migrationRuns + 1
  /\ todo' = {i \in DOMAIN Registered : Registered[i].version > Version(migrated)}
  /\ latest' = Version(migrated) /\ reports' = <<>>
  /\ UNCHANGED <<release, migrated>>

\* sort_by_key is stable.
FirstPending(i) ==
  /\ i \in todo
  /\ \A j \in todo : \/ Registered[i].version < Registered[j].version
                     \/ Registered[i].version = Registered[j].version /\ i <= j
MigrationSucceeds(i) ==
  LET m == Registered[i] IN
  /\ running /\ FirstPending(i)
  /\ migrated' = Configuration(migrated.object, migrated.version, migrated.changes \cup {Complete(m.name)})
  /\ latest' = IF m.version > latest THEN m.version ELSE latest
  /\ reports' = Append(reports, Report(m, Complete(m.name) \notin migrated.changes, TRUE))
  /\ todo' = todo \ {i}
  /\ UNCHANGED <<release, running, migrationRuns>>

\* MUTANT of RolledBack: what a failing migration did stays.
MutRolledBack(before, after) == after
RolledBack(before, after) == before
MigrationFails(i) ==
  LET m == Registered[i] IN
  /\ running /\ FirstPending(i)
  /\ migrated' = Configuration(migrated.object, migrated.version,
                               RolledBack(migrated.changes, migrated.changes \cup {Partial(m.name)}))
  /\ reports' = Append(reports, Report(m, FALSE, FALSE))
  /\ todo' = {}
  /\ UNCHANGED <<release, running, latest, migrationRuns>>

\* A configuration that is no object keeps no version: the next run starts anew.
EndRun ==
  /\ running /\ todo = {}
  /\ running' = FALSE
  /\ migrated' = Configuration(migrated.object,
                               IF latest > Version(migrated) /\ migrated.object THEN NumberVersion(latest) ELSE migrated.version,
                               migrated.changes)
  /\ UNCHANGED <<release, todo, latest, reports, migrationRuns>>

Upgrade ==
  /\ ~running /\ release < Len(Releases)
  /\ release' = release + 1 /\ reports' = <<>>
  /\ UNCHANGED <<migrated, running, todo, latest, migrationRuns>>

\* A configuration that states a version has been made by the releases up to it.
MgInit ==
  /\ release = 1 /\ running = FALSE /\ todo = {} /\ latest = 0 /\ reports = <<>> /\ migrationRuns = 0
  /\ \E isObject \in BOOLEAN, stated \in Stated :
       LET made == {m \in Migrations : m.version <= Version(Configuration(isObject, stated, {}))}
       IN migrated = Configuration(isObject, stated, {Complete(m.name) : m \in made})
MgNext ==
  \/ BeginRun \/ EndRun \/ Upgrade
  \/ \E i \in todo : MigrationSucceeds(i) \/ MigrationFails(i)
MgSpec == MgInit /\ [][MgNext]_mgVars

-----------------------------------------------------------------------------
\* Made, or skipped because another migration of the same number was made.
Provided(m) ==
  \/ Complete(m.name) \in migrated.changes
  \/ \E n \in Migrations : n # m /\ n.version = m.version /\ Complete(n.name) \in migrated.changes
\* Through failures and upgrades a configuration never holds half a change, and between runs its
\* version tells what it holds: every migration up to it is settled.  A run reports at most one
\* failure, as its last word; without one nothing is left to do.  (run_migrations;
\* "重新运行迁移即可从断点继续")
MigrationsResume ==
  /\ \A change \in migrated.changes : change.whole
  /\ ~running => \A i \in DOMAIN Registered : Registered[i].version <= Version(migrated) => Provided(Registered[i])
  /\ \A k \in DOMAIN reports : ~reports[k].ok => k = Len(reports)
  /\ ~running /\ reports # <<>> /\ reports[Len(reports)].ok =>
       \A i \in DOMAIN Registered : Provided(Registered[i])
==============================================================================
