----------------------------- MODULE CronSearch -----------------------------
(* The two searches for the next time of a cron expression: next_after of the *)
(* scheduler and next_trigger_time of the hooks, step by step, and the calls  *)
(* of HookScheduler, which skips the hooks whose next time is still to come.  *)
(*                                                                            *)
(* The calendar is small: years of a few short months, days of a few hours.   *)
(* A time is the number of minutes since its first day.                       *)
EXTENDS CronFields, Lists, SequencesExt, FiniteSetsExt

CONSTANTS
  CronYears, LeapEvery,
  MonthLengths,       \* is the year a leap year -> the lengths of its months
  HoursPerDay, MinutesPerHour, DaysPerWeek,
  SafeDay,            \* 28: a day every month has
  LongJump,           \* 32 days, which lead from the first of January into February
  SearchDays,         \* 365 * 8 + 2
  Expressions,        \* cron expressions: field -> text
  HookExpressions,    \* those the plugins schedule
  Starts,             \* times from which is searched
  FieldTexts,         \* texts of one field
  MaxRounds,          \* more rounds of a search than any that ends takes
  Plugins, MaxHooks, MaxPolls

Leap(y) == y % LeapEvery = 0
\* The days of all years, in order; a week begins with the first.
Days ==
  FlattenSeq([y \in 1..CronYears |->
    FlattenSeq([m \in DOMAIN MonthLengths[Leap(y)] |->
      [d \in 1..MonthLengths[Leap(y)][m] |-> [year |-> y, month |-> m, day |-> d]]])])
DayLength == HoursPerDay * MinutesPerHour
Minute(t) == t % MinutesPerHour
Hour(t)   == (t \div MinutesPerHour) % HoursPerDay
Date(t)   == Days[t \div DayLength + 1]
Weekday(t) == (t \div DayLength) % DaysPerWeek

\* DateTime::with_*: the time is kept when the date does not exist.
At(day, h, mi) == (day - 1) * DayLength + h * MinutesPerHour + mi
Midnight(t) == t - (t % DayLength)
Dated(y, m, d) == {i \in DOMAIN Days : Days[i] = [year |-> y, month |-> m, day |-> d]}
OnDate(y, m, d, otherwise) ==
  IF Dated(y, m, d) = {} THEN otherwise ELSE At(CHOOSE i \in Dated(y, m, d) : TRUE, 0, 0)

-----------------------------------------------------------------------------
(* What a search asks of the fields.  The scheduler has parsed them; the hooks ask the text. *)
Legal(e) == \A f \in FieldNames : Parses(f, e[f])
Admits(by, e, f) == IF by = "scheduler" THEN Allowed(f, e[f]) ELSE Matching(f, e[f])
Unconstrained(f, S) == Cardinality(S) = Cardinality(Values(f))
DayMatches(by, e, t) ==
  LET days == Admits(by, e, "days")  weekdays == Admits(by, e, "weekdays")
      onDay == Date(t).day \in days  onWeekday == Weekday(t) \in weekdays
  IN  IF by = "hooks" THEN onDay \/ onWeekday
      ELSE IF Unconstrained("days", days) /\ Unconstrained("weekdays", weekdays) THEN TRUE
      ELSE IF Unconstrained("days", days) THEN onWeekday
      ELSE IF Unconstrained("weekdays", weekdays) THEN onDay
      ELSE onDay \/ onWeekday
\* CronExpr::matches.
Matches(e, t) ==
  /\ Minute(t) \in Allowed("minutes", e["minutes"]) /\ Hour(t) \in Allowed("hours", e["hours"])
  /\ Date(t).month \in Allowed("months", e["months"]) /\ DayMatches("scheduler", e, t)

-----------------------------------------------------------------------------
(* Where a search goes from a time at which one field does not match. *)
Later(S, v) == {w \in S : w > v}
\* The next month of the same year, or the first one again.
NextMonth(by, e, t) ==
  LET months == Admits(by, e, "months") IN
  IF Later(months, Date(t).month) # {} THEN Min(Later(months, Date(t).month))
  ELSE IF months # {} THEN Min(months) ELSE 1
\* The scheduler changes the month under the day of the candidate, the hooks go by a safe day.
ScheduledMonth(e, t) ==
  LET m == NextMonth("scheduler", e, t)  y == Date(t).year IN
  IF m <= Date(t).month THEN OnDate(y + 1, m, 1, t)
  ELSE IF Dated(y, m, Date(t).day) = {} THEN t ELSE OnDate(y, m, 1, t)
HookMonth(e, t) ==
  LET m == NextMonth("hooks", e, t)
      start == IF m <= Date(t).month THEN OnDate(Date(t).year, 1, 1, t) + LongJump * DayLength ELSE t
  IN  IF Dated(Date(start).year, m, SafeDay) = {} THEN start ELSE OnDate(Date(start).year, m, 1, start)
MonthSkip(by, e, t) == IF by = "scheduler" THEN ScheduledMonth(e, t) ELSE HookMonth(e, t)

Tomorrow(t) == Midnight(t) + DayLength
HourSkip(by, e, t, minute) ==
  LET hours == Later(Admits(by, e, "hours"), Hour(t)) IN
  IF hours = {} THEN Tomorrow(t) ELSE Midnight(t) + Min(hours) * MinutesPerHour + minute
\* MUTANT of MinuteSkip: the next hour keeps the minute.
MutMinuteSkip(by, e, t) ==
  LET minutes == Admits(by, e, "minutes") IN
  IF Later(minutes, Minute(t)) # {} THEN t - Minute(t) + Min(Later(minutes, Minute(t))) ELSE HourSkip(by, e, t, Minute(t))
MinuteSkip(by, e, t) ==
  LET minutes == Admits(by, e, "minutes") IN
  IF Later(minutes, Minute(t)) # {} THEN t - Minute(t) + Min(Later(minutes, Minute(t)))
  ELSE HourSkip(by, e, t, IF by = "scheduler" THEN Min(minutes) ELSE 0)

\* The field that a search corrects next.
Unmet(by, e, t) ==
  IF Date(t).month \notin Admits(by, e, "months") THEN "month"
  ELSE IF ~DayMatches(by, e, t) THEN "day"
  ELSE IF Hour(t) \notin Admits(by, e, "hours") THEN "hour"
  ELSE IF Minute(t) \notin Admits(by, e, "minutes") THEN "minute" ELSE "none"
Corrected(by, e, t, field) ==
  IF field = "month" THEN MonthSkip(by, e, t)
  ELSE IF field = "day" THEN Tomorrow(t)
  ELSE IF field = "hour" THEN HourSkip(by, e, t, 0) ELSE MinuteSkip(by, e, t)
Moved(by, e, t) == Corrected(by, e, t, Unmet(by, e, t))
Deadline(from) == from + SearchDays * DayLength

-----------------------------------------------------------------------------
(* The days follow one another, LongJump days after the first of January are in the same year, and  *)
(* a search ends before the calendar does.                                                          *)
Sooner(a, b) ==
  \/ a.year < b.year
  \/ a.year = b.year /\ (a.month < b.month \/ (a.month = b.month /\ a.day < b.day))
ASSUME CalendarAssumption ==
  /\ {HoursPerDay, MinutesPerHour, DaysPerWeek} \subseteq Nat \ {0} /\ {LongJump, SearchDays} \subseteq Nat
  /\ Values("minutes") = 0..MinutesPerHour - 1 /\ Values("hours") = 0..HoursPerDay - 1
  /\ Days \in Seq([year : Nat, month : Nat, day : Values("days") \ {0}])
  /\ \A i, j \in DOMAIN Days : i < j => Sooner(Days[i], Days[j])
  /\ \A i \in DOMAIN Days : Dated(Days[i].year, 1, 1) # {}
  /\ \A i \in DOMAIN Days : Days[i].month = 1 /\ Days[i].day = 1 =>
       i + LongJump \in DOMAIN Days /\ Days[i + LongJump].year = Days[i].year
ASSUME StartsAssumption ==
  /\ Starts \subseteq Nat /\ {MaxRounds, MaxPolls} \subseteq Nat
  /\ \E t \in Starts : t > 1 /\ \A u \in Starts : u <= t
  /\ Deadline(Max(Starts) + MaxPolls * DayLength) < Len(Days) * DayLength
ASSUME TextsAssumption ==
  /\ FieldTexts \subseteq Texts
  /\ \A e \in Expressions \cup HookExpressions, f \in FieldNames : e[f] \in Texts

-----------------------------------------------------------------------------
VARIABLES
  asked,     \* a field and a text of it, which three readers read
  search,    \* the search under way: whose, for which expression, from where, at which candidate
  found,     \* its result
  hooks,     \* scheduled_hooks
  clock,     \* the time in parts of a minute, of 20 seconds each
  due,       \* what poll_due_hooks and get_next_due_time answered last
  polls      \* bound

searchVars == <<asked, search, found>>
hookVars == <<hooks, clock, due, polls>>
cronVars == <<asked, search, found, hooks, clock, due, polls>>

\* next_after, or next_trigger_time of one hook.
NothingYet == [is |-> "nothing", at |-> 0]
Searching == found = NothingYet
Skip(field) ==
  /\ Searching /\ search.at <= Deadline(search.from) /\ Unmet(search.by, search.cron, search.at) = field
  /\ search' = [search EXCEPT !.at = Moved(search.by, search.cron, search.at)]
  /\ UNCHANGED <<asked, found, hookVars>>
Find ==
  /\ Searching /\ search.at <= Deadline(search.from) /\ Unmet(search.by, search.cron, search.at) = "none"
  /\ found' = [is |-> "time", at |-> search.at]
  /\ UNCHANGED <<asked, search, hookVars>>
\* No match within eight years: the scheduler answers with the next minute, the hooks with None.
GiveUp ==
  /\ Searching /\ search.at > Deadline(search.from)
  /\ found' = IF search.by = "scheduler" THEN [is |-> "given up", at |-> search.from + 1] ELSE [is |-> "none", at |-> 0]
  /\ UNCHANGED <<asked, search, hookVars>>
SearchStep == Find \/ GiveUp \/ \E field \in {"month", "day", "hour", "minute"} : Skip(field)

(* next_trigger_time as HookScheduler calls it: where its loop is after each round, and its answer. *)
Rounds(e, start, until) ==
  LET at[n \in 0..MaxRounds] ==
        IF n = 0 THEN start
        ELSE LET t == at[n - 1] IN IF t > until \/ Unmet("hooks", e, t) = "none" THEN t ELSE Moved("hooks", e, t)
  IN at
SoughtAt(e, t, until) ==
  IF t > until THEN [is |-> "none", at |-> 0]
  ELSE [is |-> IF Unmet("hooks", e, t) = "none" THEN "time" ELSE "never ends", at |-> t]
Sought(e, start, until) == SoughtAt(e, Rounds(e, start, until)[MaxRounds], until)
NextTrigger(h, after) ==
  IF h.enabled THEN Sought(h.cron, after + 1, Deadline(after)) ELSE [is |-> "none", at |-> 0]

-----------------------------------------------------------------------------
(* HookScheduler. *)
Now == clock \div 3
NoAnswer == [is |-> "none"]
NeverFired == -100

\* schedule: five fields, and none that is a star with a step of zero and nothing more.
NeverSteps(text) == Len(text) = 1 /\ text[1].is = "every" /\ text[1].step = Number(0)
Schedulable(e) == \A f \in FieldNames : ~NeverSteps(e[f])
Schedule(p, e) ==
  /\ Len(hooks) < MaxHooks /\ Schedulable(e)
  /\ hooks' = Append(hooks, [plugin |-> p, cron |-> e, last |-> NeverFired, enabled |-> TRUE])
  /\ due' = NoAnswer /\ UNCHANGED <<searchVars, clock, polls>>
Unschedule(p) ==
  /\ \E i \in DOMAIN hooks : hooks[i].plugin = p
  /\ hooks' = Chosen(hooks, {i \in DOMAIN hooks : hooks[i].plugin # p})
  /\ due' = NoAnswer /\ UNCHANGED <<searchVars, clock, polls>>
SetEnabled(p, on) ==
  /\ \E i \in DOMAIN hooks : hooks[i].plugin = p
  /\ hooks' = [i \in DOMAIN hooks |-> IF hooks[i].plugin = p THEN [hooks[i] EXCEPT !.enabled = on] ELSE hooks[i]]
  /\ due' = NoAnswer /\ UNCHANGED <<searchVars, clock, polls>>

\* should_trigger_now: 30 seconds are more than one part of a minute and less than two.
CooledDown(h) == clock - h.last >= 2
ShouldTrigger(h) ==
  /\ h.enabled /\ CooledDown(h)
  /\ IF Legal(h.cron) THEN Matches(h.cron, Now)
     ELSE /\ Minute(Now) \in Matching("minutes", h.cron["minutes"]) /\ Hour(Now) \in Matching("hours", h.cron["hours"])
          /\ Date(Now).month \in Matching("months", h.cron["months"]) /\ Date(Now).day \in Matching("days", h.cron["days"])
          /\ Weekday(Now) \in Matching("weekdays", h.cron["weekdays"])
IsToCome(next) == next.is = "time" /\ next.at > Now
StillToCome(h) == IsToCome(NextTrigger(h, Now - 2))

Hangs(after) == \E i \in DOMAIN hooks : NextTrigger(hooks[i], after).is = "never ends"
\* poll_due_hooks, after which the host runs what is due and marks it.
Poll ==
  /\ polls < MaxPolls /\ polls' = polls + 1 /\ hooks # <<>> /\ ~Hangs(Now - 2)
  /\ LET dueNow == {i \in DOMAIN hooks : ~StillToCome(hooks[i]) /\ ShouldTrigger(hooks[i])} IN
     due' = [is |-> "hooks", set |-> dueNow]
  /\ UNCHANGED <<searchVars, hooks, clock>>
\* mark_triggered goes by plugin and expression: the same hook registered twice is marked twice.
MarkTriggered ==
  /\ due.is = "hooks" /\ due.set # {}
  /\ hooks' = [i \in DOMAIN hooks |->
       IF \E j \in due.set : hooks[j].plugin = hooks[i].plugin /\ hooks[j].cron = hooks[i].cron
         THEN [hooks[i] EXCEPT !.last = clock] ELSE hooks[i]]
  /\ due' = NoAnswer /\ UNCHANGED <<searchVars, clock, polls>>
GetNextDueTime ==
  /\ polls < MaxPolls /\ polls' = polls + 1 /\ hooks # <<>> /\ ~Hangs(Now)
  /\ LET times == {n \in {NextTrigger(hooks[i], Now) : i \in DOMAIN hooks} : n.is = "time"} IN
     due' = IF times = {} THEN [is |-> "no time"] ELSE [is |-> "time", at |-> Min({n.at : n \in times})]
  /\ UNCHANGED <<searchVars, hooks, clock>>
\* An expression no time matches, which schedule() takes: the call never returns.
Hang ==
  /\ due.is = "none" /\ Hangs(Now - 2)
  /\ due' = [is |-> "no return"]
  /\ UNCHANGED <<searchVars, hooks, clock, polls>>
Sleep ==
  /\ polls < MaxPolls /\ polls' = polls + 1 /\ hooks # <<>> /\ due.is # "no return"
  /\ clock' \in {clock + 1, clock + 2, clock + 3 * DayLength}
  /\ due' = NoAnswer /\ UNCHANGED <<searchVars, hooks>>

HookCall ==
  \/ \E p \in Plugins : Unschedule(p) \/ (\E e \in HookExpressions : Schedule(p, e)) \/ \E on \in BOOLEAN : SetEnabled(p, on)
  \/ Poll \/ MarkTriggered \/ GetNextDueTime \/ Hang \/ Sleep

SearchInit ==
  /\ search \in [by : {"scheduler", "hooks"}, cron : Expressions, from : Starts, at : {t + 1 : t \in Starts}]
  /\ search.at = search.from + 1
  /\ search.by = "scheduler" => Legal(search.cron)
AskedInit == asked \in [field : FieldNames, text : FieldTexts]
HooksInit == hooks = <<>> /\ clock = 3 * Max(Starts) /\ due = NoAnswer /\ polls = 0
CronInit == AskedInit /\ SearchInit /\ found = NothingYet /\ HooksInit
CronSpec == CronInit /\ [][SearchStep \/ HookCall]_cronVars

-----------------------------------------------------------------------------
(* What next_after finds is the first minute after `from` that the expression matches, and it gives *)
(* up only where none matches in eight years; what next_trigger_time finds is never later than the  *)
(* first.  (cron_scheduler.rs:161, hook.rs:283)                                                     *)
Missed(from, to) == \E t \in from + 1..to : Matches(search.cron, t)
NextExact ==
  Legal(search.cron) =>
    /\ found.is = "time" => ~Missed(search.from, found.at - 1)
    /\ found.is = "time" /\ search.by = "scheduler" => found.at > search.from /\ Matches(search.cron, found.at)
    /\ found.is \in {"given up", "none"} => ~Missed(search.from, Deadline(search.from))

(* Passing over the hooks whose next time is to come loses no trigger: a poll answers exactly the   *)
(* enabled hooks whose expression matches the minute of the poll and whose last mark is 30 seconds  *)
(* old, and the host that sleeps until get_next_due_time sleeps through none.  (hook.rs:648, :709)  *)
HooksOnTime ==
  /\ due.is = "hooks" => \A i \in DOMAIN hooks :
       Legal(hooks[i].cron) =>
         (i \in due.set <=> hooks[i].enabled /\ CooledDown(hooks[i]) /\ Matches(hooks[i].cron, Now))
  /\ due.is \in {"time", "no time"} => \A i \in DOMAIN hooks :
       hooks[i].enabled /\ Legal(hooks[i].cron) =>
         ~\E t \in Now + 1..(IF due.is = "time" THEN due.at - 1 ELSE Deadline(Now)) : Matches(hooks[i].cron, t)

(* A field means the same to its three readers, a search finds the first match, and a poll answers  *)
(* the hooks that are due at it.  That is not once for every time of a hook: polls 40 seconds apart *)
(* in one minute both answer it, a minute without a poll passes.  (cron_scheduler.rs, hook.rs,      *)
(* loader.rs)                                                                                       *)
SchedulesExact == FieldsAgree(asked.field, asked.text) /\ NextExact /\ HooksOnTime

(* "最坏情况：搜索 4 年（闰年周期），保证一定能找到匹配": a search ends.  (cron_scheduler.rs:160)          *)
SearchEnds == Searching /\ search.by = "scheduler" ~> ~Searching
=============================================================================
