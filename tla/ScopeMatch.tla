----------------------------- MODULE ScopeMatch -----------------------------
(* When a patch applies: __when__ as compile_when reads it, and the scope it  *)
(* becomes against the state of the machine (check_patch_condition).          *)
(*                                                                            *)
(* A value of __when__ is a record: its YAML type, and for a string or a list *)
(* what it says.  A time of day is a minute; a profile name and a pattern are *)
(* sequences of characters.                                                   *)
EXTENDS Integers, Sequences, Functions

CONSTANTS
  DayMinutes,      \* 24 * 60
  PlatformAlias,   \* what may be written for a platform -> the platform
  CoreAlias,       \* old names of mihomo -> "mihomo"
  RegexMatches,    \* <<profile, regular expression>> that match: the regex crate
  Conditions,      \* values of __when__
  Machines         \* states of the machine a pipeline runs on

\* The clock of a machine shows a minute of the day, and its kernel goes by the name it has now.
ASSUME ScopeAssumption ==
  /\ DayMinutes \in Nat \ {0}
  /\ CoreAlias = [name \in {"clash", "meta"} |-> "mihomo"]
  /\ \A m \in Machines : m.now \in 0..DayMinutes - 1 /\ m.core \notin {"clash", "meta"}

Unsaid == [is |-> "unsaid"]
Text(w) == [is |-> "string", says |-> w]
ManyOf(w) == [is |-> "list", says |-> w]
NoOne == <<>>                 \* a condition that is not set
Said(x) == <<x>>

-----------------------------------------------------------------------------
(* TimeRange: both ends belong to it, equal ends are the whole day, and an end before the start is  *)
(* past midnight.                                                                                   *)
TimeParses(t) == t.from \in 0..DayMinutes - 1 /\ t.to \in 0..DayMinutes - 1
\* MUTANT of InTimeRange: midnight is never crossed.
MutInTimeRange(t, m) == m >= t.from /\ m <= t.to
InTimeRange(t, m) ==
  IF t.from = t.to THEN TRUE
  ELSE IF t.from < t.to THEN m >= t.from /\ m <= t.to
  ELSE m >= t.from \/ m <= t.to

\* profile_matches: the same name, /regex/, or a pattern with * and ?.
Glob(p, s) ==
  LET matches[i \in 1..Len(p) + 1, j \in 1..Len(s) + 1] ==   \* p from i on and s from j on
        IF i > Len(p) THEN j > Len(s)
        ELSE IF p[i] = "*" THEN matches[i + 1, j] \/ (j <= Len(s) /\ matches[i, j + 1])
        ELSE j <= Len(s) /\ p[i] \in {"?", s[j]} /\ matches[i + 1, j + 1]
  IN matches[1, 1]
Wildcards(p) == \E n \in DOMAIN p : p[n] \in {"*", "?"}
ProfileMatches(name, p) ==
  \/ p.regex /\ <<name, p.text>> \in RegexMatches
  \/ ~p.regex /\ (name = p.text \/ (Wildcards(p.text) /\ Glob(p.text, name)))

-----------------------------------------------------------------------------
(* compile_when.  A core, a time, an SSID or a switch of the wrong type is passed over without an   *)
(* error, as if it were not written; a platform or a profile of the wrong type is refused.          *)
AsList(v) == IF v.is = "string" THEN <<v.says>> ELSE v.says
PlatformNames(v) == Range(AsList(v)) \ {"number"}
WhenError(w) ==
  \/ w.platform.is \notin {"unsaid", "string", "list"}
  \/ w.platform.is \in {"string", "list"} /\ ~(PlatformNames(w.platform) \subseteq DOMAIN PlatformAlias)
  \/ w.profile.is \notin {"unsaid", "string", "list"}
  \/ w.time.is = "string" /\ ~TimeParses(w.time.says)
NormalizedCore(c) == IF c \in DOMAIN CoreAlias THEN CoreAlias[c] ELSE c
Scope(w) ==
  [profile  |-> IF w.profile.is = "unsaid" THEN NoOne
                ELSE Said(AsList(w.profile)),
   platform |-> IF w.platform.is = "unsaid" THEN NoOne ELSE Said({PlatformAlias[a] : a \in PlatformNames(w.platform)}),
   core     |-> IF w.core.is = "string" THEN Said(NormalizedCore(w.core.says)) ELSE NoOne,
   time     |-> IF w.time.is = "string" THEN Said(w.time.says) ELSE NoOne,
   enabled  |-> w.enabled.is # "boolean" \/ w.enabled.says,
   ssid     |-> IF w.ssid.is = "string" THEN Said(w.ssid.says) ELSE NoOne]

(* check_patch_condition for a compiled scope.  A machine whose SSID or profile is unknown fails a  *)
(* condition on it; one whose core or platform is unknown passes.                                   *)
Unknown == "unknown"
SsidHolds(s, machine) == s.ssid # NoOne => s.ssid = Said(machine.ssid)
CoreHolds(s, machine) == s.core # NoOne /\ machine.core # Unknown => s.core = Said(machine.core)
PlatformHolds(s, machine) ==
  s.platform # NoOne /\ machine.platform # Unknown =>
    s.platform[1] # {} /\ machine.platform \in s.platform[1] \cup {"all"}
ProfileHolds(s, machine) ==
  s.profile # NoOne =>
    machine.profile.known /\ \E n \in DOMAIN s.profile[1] : ProfileMatches(machine.profile.name, s.profile[1][n])
Applies(s, machine) ==
  /\ s.enabled /\ SsidHolds(s, machine)
  /\ s.time # NoOne => InTimeRange(s.time[1], machine.now)
  /\ CoreHolds(s, machine) /\ PlatformHolds(s, machine) /\ ProfileHolds(s, machine)

-----------------------------------------------------------------------------
VARIABLES when, machine, applies
scopeVars == <<when, machine, applies>>

\* compile_when, then check_patch_condition as often as a pipeline runs, on a machine that changes.
Compile(w) ==
  /\ applies = "not compiled" /\ when' = w
  /\ applies' = IF WhenError(w) THEN "refused" ELSE IF Applies(Scope(w), machine) THEN "yes" ELSE "no"
  /\ UNCHANGED machine
Recheck(m) ==
  /\ applies \in {"yes", "no"} /\ machine' = m
  /\ applies' = IF Applies(Scope(when), m) THEN "yes" ELSE "no"
  /\ UNCHANGED when

NoWhen == [profile |-> Unsaid, platform |-> Unsaid, core |-> Unsaid, time |-> Unsaid, enabled |-> Unsaid, ssid |-> Unsaid]
ScopeInit == when = NoWhen /\ machine \in Machines /\ applies = "not compiled"
ScopeNext == (\E w \in Conditions : Compile(w)) \/ (\E m \in Machines : Recheck(m))
ScopeSpec == ScopeInit /\ [][ScopeNext]_scopeVars

-----------------------------------------------------------------------------
\* Walking the clock from the start to the end, over midnight if need be.
Walk(from, to) == {(from + k) % DayMinutes : k \in 0..(to - from) % DayMinutes}

(* A patch applies exactly while all of its conditions that were understood hold on the machine as  *)
(* it is now: at the minutes the clock shows from the start of the range to its end, on the         *)
(* platforms, the core, the network and the profiles named, and not at all when switched off.       *)
(* (scope.rs:340, executor.rs:1545)                                                                 *)
ScopeExact ==
  applies \in {"yes", "no"} => LET w == when  m == machine IN
    applies = "yes" <=>
      /\ w.enabled.is = "boolean" => w.enabled.says
      /\ w.time.is = "string" =>
           w.time.says.from = w.time.says.to \/ m.now \in Walk(w.time.says.from, w.time.says.to)
      /\ w.ssid.is = "string" => m.ssid = w.ssid.says
      /\ w.core.is = "string" /\ m.core # Unknown =>
           m.core = w.core.says \/ (m.core = "mihomo" /\ w.core.says \in {"clash", "meta"})
      /\ w.platform.is # "unsaid" /\ m.platform # Unknown =>
           \E a \in PlatformNames(w.platform) : m.platform \in {PlatformAlias[a], "all"}
      /\ w.profile.is # "unsaid" =>
           m.profile.known /\ \E p \in Range(AsList(w.profile)) : ProfileMatches(m.profile.name, p)
=============================================================================
