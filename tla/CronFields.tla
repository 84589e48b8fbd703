----------------------------- MODULE CronFields -----------------------------
(* The fields of a cron expression, as three pieces of code read them: the    *)
(* parser of the scheduler (parse_field), the matcher of the hooks            *)
(* (matches_cron_field) and the check of the loader on hook names.            *)
(*                                                                            *)
(* A field is a sequence of parts, a part a shape with tokens; a token is a   *)
(* number, the n-th name of a month or of a day of the week, or junk.         *)
EXTENDS Integers, Sequences

CONSTANT Ranges   \* field -> <<lowest, highest>>

FieldNames == {"minutes", "hours", "days", "months", "weekdays"}
ASSUME RangesAssumption ==
  \A f \in FieldNames : Ranges[f][1] \in Nat /\ Ranges[f][2] \in Nat /\ Ranges[f][1] <= Ranges[f][2]
Values(field) == Ranges[field][1]..Ranges[field][2]

Number(n) == [is |-> "number", n |-> n]
Junk == [is |-> "junk", n |-> 0]
NoStep == [is |-> "none", n |-> 1]

Star == [is |-> "star"]
Every(step) == [is |-> "every", step |-> step]
Span(from, to, step) == [is |-> "span", from |-> from, to |-> to, step |-> step]
One(at) == [is |-> "one", at |-> at]
Blank == [is |-> "blank"]

Tokens == [is : {"number", "junk", "month", "day"}, n : Int]
StepTokens == [is : {"none", "number", "junk"}, n : Nat]
Parts ==
  {Star, Blank} \cup [is : {"every"}, step : StepTokens] \cup [is : {"one"}, at : Tokens]
    \cup [is : {"span"}, from : Tokens, to : Tokens, step : StepTokens]
Texts == Seq(Parts)
\* normalize_cron_field_name: JAN is 1 and MON is 0.  The table of months is taken for a
\* range within 1..12, that of days for all others; a name of the other table stays.
Token(field, t) ==
  IF t.is = "month" /\ field = "months" THEN Number(t.n)
  ELSE IF t.is = "day" /\ field # "months" THEN Number(t.n - 1)
  ELSE IF t.is \in {"month", "day"} THEN Junk ELSE t
Normalized(field, part) ==
  IF part.is = "span" THEN Span(Token(field, part.from), Token(field, part.to), part.step)
  ELSE IF part.is = "one" THEN One(Token(field, part.at)) ELSE part

Steps(from, to, step) == {v \in from..to : (v - from) % step = 0}
NumericSpan(p) == p.from.is = "number" /\ p.to.is = "number"
BadStep(p) == p.step.is = "junk" \/ p.step.n = 0

-----------------------------------------------------------------------------
(* parse_field_part: the values of a part, or {} for an error. *)
SpanValues(field, p) ==
  IF \/ ~NumericSpan(p) \/ BadStep(p)
     \/ p.from.n < Ranges[field][1] \/ p.to.n > Ranges[field][2]
     \/ p.step.n > p.to.n - p.from.n + 1
    THEN {} ELSE Steps(p.from.n, p.to.n, p.step.n)
PartValues(field, p) ==
  {v \in Values(field) :
     \/ p.is = "star"
     \/ p.is = "every" /\ ~BadStep(p) /\ v \in Steps(Ranges[field][1], Ranges[field][2], p.step.n)
     \/ p.is = "span" /\ v \in SpanValues(field, p)
     \/ p.is = "one" /\ p.at = Number(v)}

(* parse_field: blank parts are passed over, one bad part spoils the field. *)
Written(field, text) ==
  {Normalized(field, text[i]) : i \in {j \in DOMAIN text : text[j] # Blank}}
Parses(field, text) ==
  Written(field, text) # {} /\ \A p \in Written(field, text) : PartValues(field, p) # {}
Allowed(field, text) == UNION {PartValues(field, p) : p \in Written(field, text)}

-----------------------------------------------------------------------------
(* matches_cron_part, which refuses nothing: what it cannot read matches nothing. *)
PartMatches(field, p, v) ==
  \/ p.is = "star"
  \/ p.is = "every" /\ ~BadStep(p) /\ v \in Steps(Ranges[field][1], v, p.step.n)
  \/ /\ p.is = "span" /\ NumericSpan(p) /\ v \in p.from.n..p.to.n
     /\ \/ p.step.is = "junk"
        \/ IF p.step.n = 0 THEN v = p.from.n ELSE v \in Steps(p.from.n, v, p.step.n)
  \/ p.is = "one" /\ p.at = Number(v)
Matching(field, text) ==
  {v \in Values(field) : \E p \in Written(field, text) : PartMatches(field, p, v)}

(* validate_cron_field_range, which knows no names and no limit of a step. *)
PartValid(field, p) ==
  \/ p.is = "star"
  \/ p.is = "every" /\ ~BadStep(p)
  \/ /\ p.is = "span" /\ NumericSpan(p) /\ ~BadStep(p)
     /\ Ranges[field][1] <= p.from.n /\ p.to.n <= Ranges[field][2] /\ p.from.n <= p.to.n
  \/ p.is = "one" /\ p.at.is = "number" /\ p.at.n \in Values(field)
Validates(field, text) == \A i \in DOMAIN text : text[i] # Blank => PartValid(field, text[i])

Named(p) == \/ p.is = "span" /\ {p.from.is, p.to.is} \cap {"month", "day"} # {}
            \/ p.is = "one" /\ p.at.is \in {"month", "day"}
TooLong(p) == p.is = "span" /\ NumericSpan(p) /\ p.step.n > p.to.n - p.from.n + 1

-----------------------------------------------------------------------------
(* Three readers of one text: where the parser accepts it the hooks match exactly its values, and *)
(* the loader and the parser refuse the same texts, but for names, for steps longer than their    *)
(* range and for a text without any part.  (cron_scheduler.rs:339, hook.rs:439, loader.rs:643)    *)
FieldsAgree(field, text) ==
  /\ Parses(field, text) => Allowed(field, text) = Matching(field, text)
  /\ (\A i \in DOMAIN text : text[i] = Blank \/ ~(Named(text[i]) \/ TooLong(text[i]))) /\ Written(field, text) # {}
       => (Parses(field, text) <=> Validates(field, text))
=============================================================================
