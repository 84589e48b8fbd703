------------------------------- MODULE MCHost -------------------------------
(* What runs beside the pipeline: the watch mode, the two caches, the plugin *)
(* tables, the failure tracker, the smart selector, the HTTP server and the  *)
(* migrations.  In each behaviour one of them runs.                          *)
EXTENDS WatchMode, Caches, PluginHost, Failover, Smart, Server, Migration

VARIABLE part
MCOwner == [t \in Writers |-> IF t = "t3" THEN "other" ELSE "one"]

MCDefines == [t \in Texts |-> IF t = "t2" THEN {"merged"} ELSE PlHooks]
MCHookNames ==
  {[hook |-> "merged", form |-> "camel"], [hook |-> "fetched", form |-> "Pascal"], [hook |-> "merged", form |-> "display"],
   [hook |-> "fetched", form |-> "cron with names"]}
Man(id, hooks, perms, sum) ==
  [is |-> "json", id |-> id, idShape |-> "lower-case words", entryShape |-> "relative", type |-> "config",
   permissions |-> perms, timeout |-> 5000, hooks |-> hooks, sum |-> sum]
Here(man, entry) == [manifest |-> man, entry |-> entry]
TwoPlugins(onP, onQ) == <<[id \in PlIds |-> IF id = "p" THEN onP ELSE onQ]>>
MCDisks ==
  {TwoPlugins(Here(Man("p", PlHooks, {"config:read"}, "t1"), "t1"), Here(Man("q", {"merged"}, {"config:read"}, "none"), "absent")),
   TwoPlugins(Here(Man("p", {"merged"}, {"config:read"}, "none"), "t2"), Here(Man("q", PlHooks, {"config:write"}, "none"), "t1")),
   TwoPlugins(Here([is |-> "garbled"], "t1"), Here([Man("q", PlHooks, {"config:read"}, "none") EXCEPT !.timeout = 0], "t1")),
   TwoPlugins(Here(Man("p", PlHooks, {"config:read"}, "t1"), "bad"), Here(Man("q", {"merged"}, {"config:read"}, "none"), "bad"))}

MCSamples == {[ms |-> 400, ok |-> TRUE], [ms |-> 1500, ok |-> TRUE], [ms |-> 400, ok |-> FALSE], [ms |-> NoNumber, ok |-> TRUE]}
MCWeights == [latency |-> 4, success |-> 4, stability |-> 2]
Schedule(secs, adaptive, good, bad, lo, hi) ==
  [base |-> secs, adaptive |-> adaptive, good |-> good, bad |-> bad, min |-> lo, max |-> hi]
MCSchedules == {Schedule(300, TRUE, 9, 3, 10, 3600), Schedule(20, TRUE, 5, 4, 10, 50), Schedule(300, FALSE, 9, 3, 10, 60),
                Schedule(300, TRUE, 3, 3, 10, 3600), Schedule(300, TRUE, 9, 3, 60, 10)}
MCQualities == {NoNumber} \cup {0, 3, 5, 6, 9, 10}

MCReleases ==
  LET mig(name, v) == [name |-> name, version |-> v]
      first == <<mig("b", 2), mig("a", 1)>>
  IN <<first, first \o <<mig("c", 3), mig("d", 3), mig("e", 4)>>>>
MCStated == {NumberVersion(k) : k \in {0, 1, 3, 9}} \cup {[is |-> "text", n |-> 0]}
OldConfig == Configuration(TRUE, NumberVersion(0), {})

MCInit ==
  /\ part \in {"watch", "disk cache", "memory cache", "plugins", "failover", "smart", "server", "migrations"}
  /\ Init /\ DiskInit /\ MemInit /\ PlInit /\ FoInit /\ SmInit /\ SrvInit /\ MgInit
  /\ part # "watch" => ~copies /\ \A f \in Files : disk[f].is = "good"
  /\ part # "migrations" => migrated = OldConfig
  /\ part # "plugins" => plDisk = CHOOSE d \in PlDisks : TRUE
Only(p, A) == part = p /\ A /\ UNCHANGED part
MCNext ==
  \* Of edits, starts and faults, a behaviour has at most four.
  \/ Only("watch", Next) /\ (Edits + restarts + faults)' <= 4 /\ UNCHANGED <<diskVars, memVars, plVars, foVars, smVars, srvVars, mgVars>>
  \/ Only("disk cache", DiskNext) /\ UNCHANGED <<vars, memVars, plVars, foVars, smVars, srvVars, mgVars>>
  \/ Only("memory cache", MemNext) /\ UNCHANGED <<vars, diskVars, plVars, foVars, smVars, srvVars, mgVars>>
  \/ Only("plugins", PlNext) /\ UNCHANGED <<vars, diskVars, memVars, foVars, smVars, srvVars, mgVars>>
  \/ Only("failover", FoNext) /\ UNCHANGED <<vars, diskVars, memVars, plVars, smVars, srvVars, mgVars>>
  \/ Only("smart", SmNext) /\ UNCHANGED <<vars, diskVars, memVars, plVars, foVars, srvVars, mgVars>>
  \/ Only("server", SrvNext) /\ UNCHANGED <<vars, diskVars, memVars, plVars, foVars, smVars, mgVars>>
  \/ Only("migrations", MgNext) /\ UNCHANGED <<vars, diskVars, memVars, plVars, foVars, smVars, srvVars>>
MCSpec ==
  /\ MCInit /\ [][MCNext]_<<vars, diskVars, memVars, plVars, foVars, smVars, srvVars, mgVars, part>>
  /\ WF_vars((Loop \/ Write) /\ UNCHANGED <<diskVars, memVars, plVars, foVars, smVars, srvVars, mgVars, part>>)

=============================================================================
