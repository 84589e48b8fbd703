------------------------------ MODULE Failover ------------------------------
(* FailoverTracker: the connection results of the nodes of one group, the    *)
(* counts of failures in a row, the switch they cause and the eviction that  *)
(* bounds the table.                                                         *)
EXTENDS Integers, Lists

CONSTANTS
  FoNodes,
  Threshold,    \* failures in a row before a switch
  Cooldown,     \* time between two switches, in ticks
  FoCap,        \* entries beyond which a failure evicts (100 000 in the code)
  FoEvict,      \* entries one eviction removes (a tenth in the code)
  FoReports     \* bound: reports and ticks in a behaviour

ASSUME FailoverAssumption == Threshold \in Nat /\ Cooldown \in Nat

VARIABLES
  failureCounts, lastSwitch,    \* [tracked nodes -> Nat]
  accessOrder,
  groupSwitch, foNow, foSteps,
  streak, switched              \* history: failures in a row, and the switch of the last step
foVars == <<failureCounts, lastSwitch, accessOrder, groupSwitch, foNow, foSteps, streak, switched>>

Never == -1
NoEntries == [n \in {} |-> 0]
NoSwitch == [node |-> "none", count |-> 0]
Minus(f, S) == [n \in DOMAIN f \ S |-> f[n]]
With(f, n, v) == [m \in DOMAIN f \cup {n} |-> IF m = n THEN v ELSE f[m]]
Take(order, k) == {order[i] : i \in 1..(IF Len(order) < k THEN Len(order) ELSE k)}
Cooled(t) == t = Never \/ foNow - t >= Cooldown

ReportSuccess(n) ==
  /\ failureCounts' = With(failureCounts, n, 0)
  /\ accessOrder' = Append(Retained(accessOrder, {n}), n)
  /\ streak' = [streak EXCEPT ![n] = 0]
  /\ switched' = NoSwitch
  /\ UNCHANGED <<lastSwitch, groupSwitch>>

(* Recovered nodes go first, in any order of the map; with none, the oldest of the order. *)
Evictions(order) ==
  LET zero == {n \in DOMAIN failureCounts : failureCounts[n] = 0}
  IN  IF Cardinality(DOMAIN failureCounts) <= FoCap THEN {{}}
      ELSE IF zero # {} THEN {S \in SUBSET zero : Cardinality(S) = (IF Cardinality(zero) < FoEvict THEN Cardinality(zero) ELSE FoEvict)}
      ELSE {Take(order, FoEvict)}

\* MUTANT of MaySwitch: the cooldown of the group is forgotten.
MutMaySwitch(n, last, count) == count >= Threshold /\ Cooled(IF n \in DOMAIN last THEN last[n] ELSE Never)
MaySwitch(n, last, count) ==
  count >= Threshold /\ Cooled(groupSwitch) /\ Cooled(IF n \in DOMAIN last THEN last[n] ELSE Never)

ReportFailure(n) ==
  LET order == IF n \in DOMAIN failureCounts THEN accessOrder ELSE Append(accessOrder, n)
  IN  \E gone \in Evictions(order) :
        LET kept == Minus(failureCounts, gone)
            last == Minus(lastSwitch, gone)
            count == (IF n \in DOMAIN kept THEN kept[n] ELSE 0) + 1
            go == MaySwitch(n, last, count)
        IN  /\ accessOrder' = Retained(order, gone)
            /\ failureCounts' = With(kept, n, IF go THEN 0 ELSE count)
            /\ lastSwitch' = IF go THEN With(last, n, foNow) ELSE last
            /\ groupSwitch' = IF go THEN foNow ELSE groupSwitch
            /\ switched' = IF go THEN [node |-> n, count |-> count] ELSE NoSwitch
            /\ streak' = [streak EXCEPT ![n] = IF go THEN 0 ELSE @ + 1]

ResetAll ==
  /\ failureCounts' = NoEntries /\ lastSwitch' = NoEntries /\ accessOrder' = <<>> /\ groupSwitch' = Never
  /\ streak' = [n \in FoNodes |-> 0] /\ switched' = NoSwitch
FoTick == foNow' = foNow + 1 /\ switched' = NoSwitch
        /\ UNCHANGED <<failureCounts, lastSwitch, accessOrder, groupSwitch, streak>>

FoInit ==
  /\ failureCounts = NoEntries /\ lastSwitch = NoEntries /\ accessOrder = <<>>
  /\ groupSwitch = Never /\ foNow = 0 /\ foSteps = 0
  /\ streak = [n \in FoNodes |-> 0] /\ switched = NoSwitch
FoNext ==
  /\ foSteps < FoReports /\ foSteps' = foSteps + 1
  /\ \/ (ResetAll \/ \E n \in FoNodes : ReportSuccess(n) \/ ReportFailure(n)) /\ UNCHANGED foNow
     \/ FoTick
FoSpec == FoInit /\ [][FoNext]_foVars

-----------------------------------------------------------------------------
(* A switch is earned and rare (failover.rs:28, :37): the node failed at least Threshold times since *)
(* it last worked or was switched from, whatever was evicted in between, and two switches of the     *)
(* group without a reset between them are at least the cooldown apart.                               *)
SwitchEarned ==
  [][switched'.node # "none" =>
       /\ streak[switched'.node] + 1 >= Threshold
       /\ groupSwitch = Never \/ foNow - groupSwitch >= Cooldown]_foVars
=============================================================================
