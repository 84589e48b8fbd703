------------------------------- MODULE Smart --------------------------------
(* The smart selector: the windows of latency records and their statistics   *)
(* (history.rs), the score and the ranking (scorer.rs) and the probe interval *)
(* (scheduler.rs).  Times are in tenths of a millisecond, scores in           *)
(* thousandths; ages are whole half-lives, so that the decay is a power of 2. *)
EXTENDS Integers, Sequences, FiniteSets, Functions, SequencesExt, FiniteSetsExt, Lists

CONSTANTS
  SmNodes,      \* 1..n, the order of the slice the scorer is given
  MaxRecords,
  Samples,      \* the results a probe may have: [ms, ok]; ms = NoNumber is NaN or negative
  Weights,      \* [latency, success, stability], in tenths
  Schedules,    \* scheduler configurations
  Qualities,    \* network qualities in tenths; NoNumber is NaN
  SmSteps       \* bound: operations in a behaviour

\* Latencies are not negative where they are numbers; a weight may be any.
ASSUME SmAssumption ==
  /\ SmNodes \in SUBSET Int /\ IsFiniteSet(SmNodes) /\ SmNodes # {}
  /\ MaxRecords \in Nat
  /\ Samples \subseteq [ms : Nat \cup {-1}, ok : BOOLEAN]
  /\ Weights \in [latency : Int, success : Int, stability : Int]
  /\ Schedules \subseteq [base : Nat, adaptive : BOOLEAN, good : Int, bad : Int, min : Nat, max : Nat]
  /\ Qualities \subseteq Int

VARIABLES records, rate, p90, spread, age,  \* per node: NodeHistory; age counts half-lives since last_test
          ranked, best,                     \* the last answers of rank() and select_best()
          probe,                            \* the last question to next_interval() and its answer
          judged,                           \* history: per node the last window that was not empty
          smSteps
NoProbe == [secs |-> 0]
Unasked == ranked' = <<>> /\ best' = 0 /\ probe' = NoProbe
smVars == <<records, rate, p90, spread, age, ranked, best, probe, judged, smSteps>>

NoNumber == -1
Stored(s) == IF s.ms = NoNumber THEN [ms |-> NoNumber, ok |-> FALSE] ELSE s
Newest(s, k) == SubSeq(s, Len(s) - k + 1, Len(s))

-----------------------------------------------------------------------------
(* recalculate() *)
Successes(recs) == Retained(recs, {r \in Range(recs) : ~r.ok})
Latencies(recs) == Ascending([i \in DOMAIN Successes(recs) |-> Successes(recs)[i].ms])
SuccessRate(recs) == (1000 * Len(Successes(recs))) \div Len(recs)

(* Linear interpolation at index 0.9 (n - 1). *)
P90(sorted) ==
  LET n == Len(sorted)
      lo == (9 * (n - 1)) \div 10
      part == (9 * (n - 1)) % 10
  IN  IF n = 0 THEN NoNumber ELSE sorted[lo + 1] * (10 - part) + sorted[Min({lo + 2, n})] * part

Root(v) == CHOOSE r \in 0..v : r * r <= v /\ (r + 1) * (r + 1) > v
Spread(sorted) ==
  LET n == Len(sorted)
      sum == Total(sorted)
      squares == Total([i \in DOMAIN sorted |-> (n * sorted[i] - sum) * (n * sorted[i] - sum)])
  IN  IF n = 0 THEN NoNumber ELSE IF n = 1 THEN 0 ELSE Root(squares \div (n * n * (n - 1)))

\* MUTANT of Recalculate: a window without a success keeps the old statistics.
MutRecalculate(n, recs) ==
  IF Successes(recs) = <<>> THEN UNCHANGED <<rate, p90, spread>>
  ELSE /\ rate' = [rate EXCEPT ![n] = SuccessRate(recs)]
       /\ p90' = [p90 EXCEPT ![n] = P90(Latencies(recs))]
       /\ spread' = [spread EXCEPT ![n] = Spread(Latencies(recs))]
Recalculate(n, recs) ==
  IF recs = <<>> THEN UNCHANGED <<rate, p90, spread>>
  ELSE /\ rate' = [rate EXCEPT ![n] = SuccessRate(recs)]
       /\ p90' = [p90 EXCEPT ![n] = P90(Latencies(recs))]
       /\ spread' = [spread EXCEPT ![n] = Spread(Latencies(recs))]

\* History of Recalculate, which passes over an empty window.
Judge(n, recs) == judged' = IF recs = <<>> THEN judged ELSE [judged EXCEPT ![n] = recs]

(* trim(): the newest k records stay; a window that is short enough keeps its statistics. *)
Trim(n, k) ==
  /\ Len(records[n]) > k
  /\ records' = [records EXCEPT ![n] = Newest(@, k)]
  /\ Recalculate(n, Newest(records[n], k)) /\ Judge(n, Newest(records[n], k))
  /\ UNCHANGED age /\ Unasked

(* add_record() is a batch of one; add_records() recalculates once, at the end. *)
Window(recs) == IF Len(recs) > MaxRecords THEN Newest(recs, MaxRecords) ELSE recs
AddRecords(n, batch) ==
  LET recs == Window(records[n] \o [i \in DOMAIN batch |-> Stored(batch[i])])
  IN  /\ records' = [records EXCEPT ![n] = recs]
      /\ Recalculate(n, recs) /\ Judge(n, recs)
      /\ age' = [age EXCEPT ![n] = 0]
      /\ Unasked

-----------------------------------------------------------------------------
(* score_at() *)
LatencyScore(p) ==
  IF p = NoNumber THEN 0
  ELSE IF p < 500 THEN 100000
  ELSE IF p < 2000 THEN 100000 - (p - 500) * 40
  ELSE Max({40000 - (p - 2000) * 5, 0})
StabilityScore(d) == IF d = NoNumber THEN 0 ELSE Max({100000 - d * 500, 0})
Confidence(recs) == IF recs = <<>> THEN 1 ELSE 2  \* in halves
Weight(w) == Max({w, 0})

Decay == <<1, 2, 4>>  \* after no, one and two half-lives
Score(n) ==
  LET w == [k \in DOMAIN Weights |-> Weight(Weights[k])]
      sum == w.latency + w.success + w.stability
      merit == IF sum = 0 THEN 0
              ELSE (LatencyScore(p90[n]) * w.latency + rate[n] * 100 * w.success + StabilityScore(spread[n]) * w.stability) \div sum
  IN  Min({Max({((merit \div Decay[age[n] + 1]) * Confidence(records[n])) \div 2, 0}), 100000})

(* rank(): a stable sort by falling score; select_best(): max_by() answers with the last of the best. *)
Ranking == Along(SmNodes, {p \in SmNodes \X SmNodes :
  Score(p[1]) > Score(p[2]) \/ (Score(p[1]) = Score(p[2]) /\ p[1] < p[2])})
Best == CHOOSE n \in SmNodes : \A m \in SmNodes : Score(n) > Score(m) \/ (Score(n) = Score(m) /\ n >= m)
Select ==
  /\ ranked' = Ranking /\ best' = Best
  /\ UNCHANGED <<records, rate, p90, spread, age, judged>> /\ probe' = NoProbe

Age(n) ==
  /\ age[n] + 1 < Len(Decay) /\ age' = [age EXCEPT ![n] = @ + 1]
  /\ UNCHANGED <<records, rate, p90, spread, judged>> /\ Unasked

-----------------------------------------------------------------------------
(* The scheduler part of SmartConfig::validate. *)
ScheduleErrors(c) ==
  (IF c.base = 0 THEN {"base"} ELSE {}) \cup
  (IF c.good \notin 1..10 THEN {"good"} ELSE {}) \cup
  (IF c.bad \notin 0..9 THEN {"bad"} ELSE {}) \cup
  (IF c.good <= c.bad THEN {"order"} ELSE {})

(* In hundredths: 3.0 above the good threshold, 0.25 below the bad one, a line between them. *)
Multiplier(c, q) ==
  IF q > c.good THEN 300 ELSE IF q < c.bad THEN 25
  ELSE IF c.good = c.bad THEN 162 ELSE 25 + ((q - c.bad) * 275) \div (c.good - c.bad)

Panic == -2  \* clamp() with a minimum above the maximum
Clamp(v, lo, hi) == IF lo > hi THEN Panic ELSE Max({lo, Min({v, hi})})
NextInterval(c, q) ==
  IF q = NoNumber \/ ~c.adaptive THEN c.base
  ELSE Clamp((c.base * Multiplier(c, q)) \div 100, c.min, c.max)

Adapt(c, q) ==
  /\ probe' = [c |-> c, q |-> q, secs |-> NextInterval(c, q)]
  /\ UNCHANGED <<records, rate, p90, spread, age, judged>> /\ ranked' = <<>> /\ best' = 0

-----------------------------------------------------------------------------
SmInit ==
  /\ records = [n \in SmNodes |-> <<>>] /\ rate = [n \in SmNodes |-> 500]
  /\ p90 = [n \in SmNodes |-> 0] /\ spread = [n \in SmNodes |-> 0] /\ age = [n \in SmNodes |-> 0]
  /\ ranked = <<>> /\ best = 0 /\ probe = NoProbe /\ smSteps = 0
  /\ judged = [n \in SmNodes |-> <<>>]
SmNext ==
  /\ smSteps < SmSteps /\ smSteps' = smSteps + 1
  /\ \/ \E n \in SmNodes, x \in Samples : AddRecords(n, <<x>>)
     \/ \E n \in SmNodes, x, y \in Samples : AddRecords(n, <<x, y>>)
     \/ \E n \in SmNodes : Age(n) \/ \E k \in 0..MaxRecords - 1 : Trim(n, k)
     \/ Select
     \/ \E c \in Schedules, q \in Qualities : Adapt(c, q)
SmSpec == SmInit /\ [][SmNext]_smVars

-----------------------------------------------------------------------------
(* The statistics a node is judged by are those of the records in its window, after any mix of       *)
(* single records, batches and trims (history.rs:148).  An emptied window, by trim(0) or a limit of   *)
(* 0, is not recalculated: it keeps the statistics of the last window that held a record, which have *)
(* all left, and those of a new node if there was none.                                              *)
StatsFollowWindow ==
  \A n \in SmNodes :
    /\ Len(records[n]) <= MaxRecords
    /\ records[n] # <<>> => judged[n] = records[n]
    /\ judged[n] = <<>> => rate[n] = 500 /\ p90[n] = 0 /\ spread[n] = 0
    /\ judged[n] # <<>> => /\ rate[n] = SuccessRate(judged[n])
                           /\ p90[n] = P90(Latencies(judged[n])) /\ spread[n] = Spread(Latencies(judged[n]))

(* A node whose last window failed as a whole is selected only when no node scores (scorer.rs:131,    *)
(* history.rs:207), also when that window was emptied since: neither its earlier good days nor the   *)
(* missing statistics speak for it.  The best node has a best score.                                 *)
DeadNotBest ==
  best # 0 =>
    /\ \A m \in SmNodes : Score(m) <= Score(best)
    /\ Score(ranked[1]) = Score(best)
    /\ (judged[best] # <<>> /\ \A i \in DOMAIN judged[best] : ~judged[best][i].ok)
         => \A m \in SmNodes : Score(m) = 0

(* A valid adaptive configuration whose bounds are in order keeps the interval inside them, and a     *)
(* better network never means a shorter interval (scheduler.rs:36, :1).                              *)
IntervalFollowsQuality ==
  (probe.secs # 0 /\ ScheduleErrors(probe.c) = {} /\ probe.c.adaptive /\ probe.q # NoNumber /\ probe.c.min <= probe.c.max) =>
    /\ probe.secs \in probe.c.min..probe.c.max
    /\ \A q \in Qualities : q # NoNumber /\ q <= probe.q => NextInterval(probe.c, q) <= probe.secs

(* The selector judges a node by its own window, an emptied one by the last that held a record, never *)
(* prefers a dead one and asks again as soon as the quality demands.  (history.rs, scorer.rs,         *)
(* scheduler.rs)                                                                                     *)
NodesJudged == StatsFollowWindow /\ DeadNotBest /\ IntervalFollowsQuality
=============================================================================
