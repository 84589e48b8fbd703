------------------------------ MODULE ExprEval ------------------------------
(* The expression language of $filter, $remove and $transform.  There is no    *)
(* parser: evaluate_predicate splits the text at the leftmost top-level        *)
(* operator, loosest first, and recurses.  Here the text is a sequence of      *)
(* lexemes: references, operators, words, and each quote, slash, backslash and *)
(* parenthesis by itself, in a literal too.  Each input is an expression tree  *)
(* and its text; the text is evaluated the way the code does and compared with *)
(* what the tree means.                                                        *)
(*                                                                             *)
(* A string is a sequence of words; a value is its type, a number (booleans    *)
(* are 0 and 1, an array is its length) and a string.  A regular expression    *)
(* is malformed, or finds any of some sequences of words.                      *)
EXTENDS Integers, Sequences, FiniteSets, SequencesExt, TLC

CONSTANTS
  Predicates,  \* predicate trees
  Transforms,  \* transform trees
  Content,     \* the items: name -> field reference -> value, "absent" where there is none
  Lit,         \* literal without quotes -> value
  Dotted,      \* field references of more than one segment, "p.a.b"
  Bare,        \* reference without "p." -> the field it names
  LowerWord, UpperWord,  \* word -> word
  Rank,        \* word -> Nat: the order of strings
  Pattern,     \* regular expression -> what it finds, the empty set if it is none; others find themselves
  MaxDepth     \* MAX_PRED_DEPTH

VARIABLES input, outcome
evalVars == <<input, outcome>>

V(t, n, s) == [ty |-> t, n |-> n, s |-> s]
Num(n)  == V("number", n, <<>>)
Str(s)  == V("string", 0, s)
Bool(b) == V("bool", IF b THEN 1 ELSE 0, <<>>)
NullV   == V("null", 0, <<>>)
Err     == V("error", 0, <<>>)

Builtins == {"regex", "len", "lower", "upper", "contains", "starts_with", "ends_with", "abs", "type_of"}
Tests    == {"regex", "contains", "starts_with", "ends_with"}
Comparisons == <<"==", "!=", ">=", "<=", ">", "<">>

------------------------------------------------------------------------------
\* The text is scanned with the quote it is in, the parentheses open, and whether a backslash
\* escapes what comes next.  Only find_balanced_parens and split_function_args know escapes,
\* and only in strings; the operators are looked for without; no scan knows regular expressions.
Quotes == {"'", "\""}
Backslash == "\\"
Outside == [quote |-> "none", open |-> 0, escaped |-> FALSE]
Operators == [escapes |-> FALSE, opens |-> {"("}, closes |-> {")"}]
Balance   == [Operators EXCEPT !.escapes = TRUE]
Fragments     == [escapes |-> FALSE, opens |-> {"(", "[", "{"}, closes |-> {")", "]", "}"}]
Arguments == [Fragments EXCEPT !.escapes = TRUE]
Colons    == [escapes |-> FALSE, opens |-> {}, closes |-> {}]
After(at, c, scan) ==
  IF at.escaped THEN [at EXCEPT !.escaped = FALSE]
  ELSE IF at.quote # "none"
    THEN [at EXCEPT !.escaped = scan.escapes /\ c = Backslash, !.quote = IF c = @ THEN "none" ELSE @]
  ELSE IF c \in Quotes THEN [at EXCEPT !.quote = c]
  ELSE IF c \in scan.opens THEN [at EXCEPT !.open = @ + 1]
  ELSE IF c \in scan.closes THEN [at EXCEPT !.open = @ - 1]
  ELSE at
TopLevel(at) == at.quote = "none" /\ at.open = 0

\* The first place from k on where t stands at the top level; 0 if there is none.
RECURSIVE Seek(_, _, _, _, _)
Seek(s, t, k, at, scan) ==
  IF k > Len(s) THEN 0
  ELSE IF s[k] = t /\ TopLevel(at) THEN k
  ELSE Seek(s, t, k + 1, After(at, s[k], scan), scan)
\* MUTANT of FindTopLevel: quotes are not looked at.
MutFindTopLevel(s, op) ==
  LET bare == [k \in DOMAIN s |-> IF s[k] \in Quotes THEN "" ELSE s[k]] IN Seek(bare, op, 1, Outside, Operators)
\* find_top_level_operator, find_top_level_pipe: a backslash escapes nothing.
FindTopLevel(s, op) == Seek(s, op, 1, Outside, Operators)
TokensBefore(s, k) == SubSeq(s, 1, k - 1)
TokensAfter(s, k)  == SubSeq(s, k + 1, Len(s))

\* Where what is open at k closes; 0 if it does not.
RECURSIVE Closing(_, _, _, _)
Closing(s, k, at, scan) ==
  IF k > Len(s) THEN 0
  ELSE LET next == After(at, s[k], scan)
       IN  IF next.open = 0 /\ at.open = 1 THEN k ELSE Closing(s, k + 1, next, scan)
\* strip_outer_parens: only if the first parenthesis closes at the very end.
OuterParens(s) == Len(s) > 1 /\ s[1] = "(" /\ Closing(s, 1, Outside, Operators) = Len(s)
Inner(s) == SubSeq(s, 2, Len(s) - 1)

\* A call: the first parenthesis of the text follows the name of a builtin.  (find_balanced_parens)
IsCall(s) == Len(s) > 1 /\ s[1] \in Builtins /\ s[2] = "("
CallEnd(s) == Closing(s, 2, Outside, Balance)

\* split_function_args, split_object_pairs: the parts between commas, without the empty ones.
RECURSIVE Split(_, _)
Split(s, scan) ==
  LET k == Seek(s, ",", 1, Outside, scan) IN
  IF s = <<>> THEN <<>>
  ELSE IF k = 0 THEN <<s>>
  ELSE (IF k = 1 THEN <<>> ELSE <<TokensBefore(s, k)>>) \o Split(TokensAfter(s, k), scan)
Args(s) == Split(SubSeq(s, 3, CallEnd(s) - 1), Arguments)

------------------------------------------------------------------------------
\* Values.  get_nested_field, used by methods and transforms, follows dots;
\* resolve_value_expr looks the whole reference up as one key and finds nothing.
\* An object is no value of an expression.
Nested(item, f) == item[f]
HasField(item, f) == f \in DOMAIN item /\ item[f].ty # "absent"
FieldValue(item, f) ==
  IF HasField(item, f) /\ f \notin Dotted /\ item[f].ty # "object" THEN item[f] ELSE Err
ResolveField(s, item) ==
  IF Len(s) # 1 THEN Err
  ELSE FieldValue(item, IF s[1] \in DOMAIN Bare THEN Bare[s[1]] ELSE s[1])
\* parse_quoted_string_inner: a backslash goes before a quote or another backslash.
RECURSIVE Unescaped(_)
Unescaped(s) ==
  IF Len(s) < 2 THEN s
  ELSE IF s[1] # Backslash THEN <<s[1]>> \o Unescaped(Tail(s))
  ELSE (IF s[2] \in Quotes \cup {Backslash} THEN <<s[2]>> ELSE SubSeq(s, 1, 2)) \o Unescaped(SubSeq(s, 3, Len(s)))
\* parse_literal: what begins and ends with a quote is a string, whatever is between.
ParseLiteral(s) ==
  IF Len(s) = 1 /\ s[1] \in DOMAIN Lit THEN Lit[s[1]]
  ELSE IF Len(s) > 1 /\ s[1] \in Quotes /\ s[Len(s)] = s[1] THEN Str(Unescaped(Inner(s)))
  ELSE Err

HasWords(s, t) == \E i \in 0..Len(s) - Len(t) : SubSeq(s, i + 1, i + Len(t)) = t
Finds(re) == IF re \in DOMAIN Pattern THEN Pattern[re] ELSE {re}
Passes(f, s, t) ==
  CASE f = "regex" -> \E w \in Finds(t) : HasWords(s, w)
    [] f = "contains" -> HasWords(s, t)
    [] f = "starts_with" -> IsPrefix(t, s)
    [] f = "ends_with"   -> IsSuffix(t, s)

\* eval_builtin_function_on_value, and eval_builtin_function once its field is resolved.
Apply(f, v, arg) ==
  IF v = Err THEN Err
  ELSE IF f \in Tests
    THEN IF v.ty = "string" /\ arg.ty = "string" /\ ~(f = "regex" /\ Finds(arg.s) = {})
           THEN Bool(Passes(f, v.s, arg.s)) ELSE Err
  ELSE IF f = "len"
    THEN CASE v.ty = "string" -> Num(Len(v.s)) [] v.ty = "array" -> Num(v.n)
           [] v.ty = "null" -> Num(0) [] OTHER -> Err
  ELSE IF f = "abs"
    THEN IF v.ty = "number" THEN Num(IF v.n < 0 THEN 0 - v.n ELSE v.n) ELSE Err
  ELSE IF f = "type_of" THEN Str(<<v.ty>>)
  ELSE IF v.ty = "string"
    THEN Str([k \in DOMAIN v.s |-> IF f = "lower" THEN LowerWord[v.s[k]] ELSE UpperWord[v.s[k]]])
  ELSE Err

\* In a pipe the value is given: a test takes its first argument, others take none.
ApplyPiped(f, args, v) ==
  IF f \notin Tests THEN Apply(f, v, NullV)
  ELSE IF args = <<>> THEN Err ELSE Apply(f, v, ParseLiteral(args[1]))
\* Otherwise the number of arguments is fixed and the first one is a field.
ApplyDirect(f, args, item) ==
  IF Len(args) # (IF f \in Tests THEN 2 ELSE 1) THEN Err
  ELSE Apply(f, ResolveField(args[1], item), IF f \in Tests THEN ParseLiteral(args[2]) ELSE NullV)

\* try_eval_function_call on a call; what follows its closing parenthesis is ignored.
CallValue(s, item) == IF CallEnd(s) = 0 THEN Err ELSE ApplyDirect(s[1], Args(s), item)

LessStr(s, t) ==
  \E k \in 1..Len(t) :
    /\ \A j \in 1..k - 1 : j <= Len(s) /\ s[j] = t[j]
    /\ k <= Len(s) => Rank[s[k]] < Rank[t[k]]
Less(l, r) == IF l.ty = "number" THEN l.n < r.n ELSE LessStr(l.s, r.s)
Say(b) == IF b THEN "yes" ELSE "no"
Negate(b) == CASE b = "yes" -> "no" [] b = "no" -> "yes" [] b = "error" -> "error"

\* compare_values: unequal types are unequal, but cannot be ordered.
CompareValues(l, r, op) ==
  IF l = Err \/ r = Err THEN "error"
  ELSE IF op \in {"==", "!="} THEN Say((l = r) <=> (op = "=="))
  ELSE IF ~(l.ty = r.ty /\ l.ty \in {"number", "string"}) THEN "error"
  ELSE Say(CASE op = "<" -> Less(l, r) [] op = ">" -> Less(r, l)
             [] op = "<=" -> ~Less(r, l) [] op = ">=" -> ~Less(l, r))
AsBool(v) == IF v.ty = "bool" THEN Say(v.n = 1) ELSE "error"

------------------------------------------------------------------------------
\* resolve_expr_to_value: the left end of a pipe.
LeftValue(s, item) ==
  IF IsCall(s) THEN CallValue(s, item)
  ELSE IF s # <<>> /\ s[1] \in DOMAIN item THEN ResolveField(s, item)
  ELSE ParseLiteral(s)

\* resolve_pipe_stage
StageValue(left, s) ==
  IF IsCall(s) /\ CallEnd(s) # 0 THEN ApplyPiped(s[1], Args(s), left)
  ELSE IF Len(s) = 1 /\ s[1] \in Builtins THEN ApplyPiped(s[1], <<>>, left)
  ELSE Err

\* The first comparison operator, in the order they are tried, at the top level of s.
OpsIn(s) == SelectSeq(Comparisons, LAMBDA op : FindTopLevel(s, op) # 0)

\* apply_pipe_filter
RECURSIVE PipeFilter(_, _)
PipeFilter(left, s) ==
  LET bar  == FindTopLevel(s, "|")
      call == IsCall(s) /\ CallEnd(s) # 0
      rest == TokensAfter(s, CallEnd(s))
      bareOps == SelectSeq(OpsIn(s), LAMBDA op :
                   FindTopLevel(s, op) = 2 /\ s[1] \in Builtins)
  IN
  IF left = Err THEN "error"
  ELSE IF bar # 0 THEN PipeFilter(StageValue(left, TokensBefore(s, bar)), TokensAfter(s, bar))
  ELSE IF call /\ rest # <<>> /\ rest[1] \in Range(Comparisons)
    THEN CompareValues(ApplyPiped(s[1], Args(s), left), ParseLiteral(Tail(rest)), rest[1])
  ELSE IF bareOps # <<>>
    THEN CompareValues(ApplyPiped(s[1], <<>>, left), ParseLiteral(TokensAfter(s, 2)), bareOps[1])
  ELSE IF call \/ (Len(s) = 1 /\ s[1] \in Builtins) THEN AsBool(StageValue(left, s))
  ELSE IF IsCall(s) \/ OpsIn(s) = <<>> THEN "error"
  ELSE LET op == OpsIn(s)[1] IN CompareValues(left, ParseLiteral(TokensAfter(s, FindTopLevel(s, op))), op)

\* eval_method_call: p.f.includes(literal) must be the whole text, p.f.match(/r/) only its
\* beginning, up to the next slash, escaped or not.
IsIncludes(s) == Len(s) > 4 /\ s[2] = ".includes" /\ s[3] = "(" /\ s[Len(s)] = ")"
IsMatch(s) == Len(s) > 4 /\ s[2] = ".match" /\ s[3] = "(" /\ s[4] = "/" /\ \E k \in 5..Len(s) : s[k] = "/"
Method(s, item) ==
  LET slash == CHOOSE k \in 5..Len(s) : s[k] = "/" /\ \A j \in 5..k - 1 : s[j] # "/"
      arg == IF IsIncludes(s) THEN ParseLiteral(SubSeq(s, 4, Len(s) - 1)) ELSE Str(SubSeq(s, 5, slash - 1))
  IN IF ~HasField(item, s[1]) THEN "error"
     ELSE AsBool(Apply(IF IsIncludes(s) THEN "contains" ELSE "regex", Nested(item, s[1]), arg))

\* evaluate_predicate_inner
RECURSIVE Eval(_, _, _)
EvalOr(s, k, item, d) ==
  LET l == Eval(TokensBefore(s, k), item, d + 1)
  IN IF l # "no" THEN l ELSE Eval(TokensAfter(s, k), item, d + 1)
EvalAnd(s, k, item, d) ==
  LET l == Eval(TokensBefore(s, k), item, d + 1)
  IN IF l # "yes" THEN l ELSE Eval(TokensAfter(s, k), item, d + 1)
EvalAtom(s, item) ==
  IF OpsIn(s) # <<>>
    THEN LET op == OpsIn(s)[1]
             k  == FindTopLevel(s, op)
             l  == TokensBefore(s, k)
         IN CompareValues(IF IsCall(l) THEN CallValue(l, item) ELSE ResolveField(l, item),
                          ParseLiteral(TokensAfter(s, k)), op)
  ELSE IF IsIncludes(s) \/ IsMatch(s) THEN Method(s, item)
  ELSE IF IsCall(s) THEN AsBool(CallValue(s, item))
  ELSE "error"
Eval(s, item, d) ==
  LET or == FindTopLevel(s, "||")
      and == FindTopLevel(s, "&&")
      bar == FindTopLevel(s, "|")
  IN
  IF d > MaxDepth \/ s = <<>> THEN "error"
  ELSE IF or # 0 THEN EvalOr(s, or, item, d)
  ELSE IF and # 0 THEN EvalAnd(s, and, item, d)
  ELSE IF s[1] = "!" THEN Negate(Eval(Tail(s), item, d + 1))
  ELSE IF bar # 0 THEN PipeFilter(LeftValue(TokensBefore(s, bar), item), TokensAfter(s, bar))
  ELSE IF OuterParens(s) THEN Eval(Inner(s), item, d + 1)
  ELSE EvalAtom(s, item)

EvaluatePredicate(s, item) == Eval(s, item, 0)

------------------------------------------------------------------------------
\* $transform.  value_to_string: what a value adds to a concatenation.
AsWords(v) ==
  CASE v.ty = "string" -> v.s
    [] v.ty = "number" -> <<ToString(v.n)>>
    [] v.ty = "bool" -> <<IF v.n = 1 THEN "true" ELSE "false">>
    [] OTHER -> <<>>
Concat(l, r) ==
  IF {l.ty, r.ty} \cap {"error", "array", "object"} # {} THEN Err ELSE Str(AsWords(l) \o AsWords(r))

\* replace_all of the words a regular expression finds by the words of new.
ReplaceWords(s, re, new) == FlattenSeq([k \in DOMAIN s |-> IF <<s[k]>> \in Finds(re) THEN new ELSE <<s[k]>>])
\* find_regex_delimiter: the next slash that is not escaped.
RECURSIVE Slash(_, _)
Slash(s, k) ==
  IF k > Len(s) THEN 0 ELSE IF s[k] = "/" THEN k ELSE Slash(s, IF s[k] = Backslash THEN k + 2 ELSE k + 1)
\* eval_replace_call: p.f.replace(/r/, new), or p.f.replace(/r//new/) with three slashes and one more.
\* Without a replacement the text stays as it is; anything else, /r/new/ too, is no call.
IsReplace(s) == Len(s) > 3 /\ s[2] = ".replace" /\ s[3] = "(" /\ s[4] = "/"
NoCall == V("no call", 0, <<>>)
ReplaceCall(s, item) ==
  LET end  == Slash(s, 5)
      re   == SubSeq(s, 5, end - 1)
      rest == TokensAfter(s, end)
      word == Tail(rest)
      new  == IF rest[1] = "/"
                THEN IF Slash(rest, 2) = 0 THEN Err ELSE Str(SubSeq(rest, 2, Slash(rest, 2) - 1))
                ELSE ParseLiteral(IF word # <<>> /\ Last(word) = ")" THEN Front(word) ELSE word)
      v    == IF HasField(item, s[1]) THEN Nested(item, s[1]) ELSE Err
  IN IF end = 0 \/ v.ty # "string" \/ Finds(re) = {} THEN Err
     ELSE IF rest = <<>> \/ rest[1] \notin {"/", ",", ")"} THEN NoCall
     ELSE IF rest[1] = ")" THEN v
     ELSE IF new.ty # "string" THEN Err
     ELSE Str(ReplaceWords(v.s, re, new.s))

\* resolve_transform_value_inner: what begins with p. and is no field is null here, not an error.
RECURSIVE TransformValue(_, _, _)
TransformValue(s, item, d) ==
  LET plus == FindTopLevel(s, "+") IN
  IF d > MaxDepth THEN Err
  ELSE IF plus # 0
    THEN Concat(TransformValue(TokensBefore(s, plus), item, d + 1), TransformValue(TokensAfter(s, plus), item, d + 1))
  ELSE IF IsReplace(s) /\ ReplaceCall(s, item) # NoCall THEN ReplaceCall(s, item)
  ELSE IF s # <<>> /\ s[1] \in DOMAIN item
    THEN IF Len(s) = 1 /\ HasField(item, s[1]) THEN Nested(item, s[1]) ELSE NullV
  ELSE ParseLiteral(s)

\* split_object_pairs and parse_kv_pair: the parts between top-level commas, without the
\* spread; each is a key, the first colon that is in no string, and a value.
PairTexts(body) == SelectSeq(Split(body, Fragments), LAMBDA p : p[1] # "...p")
Colon(p) == Seek(p, ":", 1, Outside, Colons)
Key(p) == LET k == SelectSeq(TokensBefore(p, Colon(p)), LAMBDA c : c \notin Quotes) IN IF Len(k) = 1 THEN k[1] ELSE "another key"
\* The lexical test for the spread also fires inside a string.
HasSpread(body) == \E k \in DOMAIN body : body[k] = "...p"

\* evaluate_transform_expr: the new item, or Err of its first pair that fails.  The keys
\* of an item are its undotted fields; "p.k" is the field of key k.
InsertAll(base, pairs, item) ==
  FoldLeft(LAMBDA r, p : (Key(p) :> TransformValue(TokensAfter(p, Colon(p)), item, 0)) @@ r, base, pairs)
EmptyItem(item) == [f \in DOMAIN item |-> V("absent", 0, <<>>)]
EvaluateTransform(s, item) ==
  LET body  == Inner(s)
      pairs == PairTexts(body)
      new   == InsertAll(IF HasSpread(body) THEN item ELSE EmptyItem(item), pairs, item)
  IN IF s[1] # "{" \/ s[Len(s)] # "}" \/ (\E p \in Range(pairs) : Colon(p) = 0)
          \/ (\E p \in Range(pairs) : TransformValue(TokensAfter(p, Colon(p)), item, 0) = Err)
       THEN [f \in {} |-> Err] ELSE new

------------------------------------------------------------------------------
\* Expression trees.  An atom is its text; "and" and "or" take any number of operands.
Wrap(s) == <<"(">> \o s \o <<")">>
RECURSIVE Render(_, _)
Join(parts, op) == FoldLeft(LAMBDA r, p : r \o <<op>> \o p, parts[1], Tail(parts))
\* Parentheses where the usual precedence needs them, and everywhere in full style, the
\* style of the header: (expr1) && (expr2).
Operand(e, outer, full) ==
  IF full \/ (e.k \in {"and", "or"} /\ ~(outer = "or" /\ e.k = "and"))
    THEN Wrap(Render(e, full)) ELSE Render(e, full)
Render(e, full) ==
  CASE e.k = "atom" -> e.text
    [] e.k = "not"  -> <<"!">> \o Operand(e.es[1], "not", full)
    [] e.k = "and"  -> Join([n \in DOMAIN e.es |-> Operand(e.es[n], "and", full)], "&&")
    [] e.k = "or"   -> Join([n \in DOMAIN e.es |-> Operand(e.es[n], "or", full)], "||")

\* Three-valued, from left to right, stopping at the first operand that decides.
RECURSIVE Meaning(_, _)
Meaning(e, item) ==
  LET m == [n \in DOMAIN e.es |-> Meaning(e.es[n], item)]
      unit == IF e.k = "and" THEN "yes" ELSE "no"
      stops == {n \in DOMAIN e.es : m[n] # unit}
  IN CASE e.k = "atom" -> e.says[item]
       [] e.k = "not"  -> Negate(m[1])
       [] OTHER -> IF stops = {} THEN unit ELSE m[CHOOSE n \in stops : \A k \in stops : n <= k]

\* How deep the evaluation of the text goes: a parenthesis, a negation and a place in a
\* chain each take one level.
RECURSIVE Nesting(_, _)
OperandNesting(e, outer, full) ==
  Nesting(e, full) + (IF Operand(e, outer, full) = Render(e, full) THEN 0 ELSE 1)
Nesting(e, full) ==
  LET deep == {OperandNesting(e.es[n], e.k, full)
                 + (IF e.k = "not" \/ n < Len(e.es) THEN n ELSE n - 1) : n \in DOMAIN e.es}
  IN IF deep = {} THEN 0 ELSE CHOOSE x \in deep : \A y \in deep : y <= x

\* A transform tree: whether it spreads, and pairs of a key and operands to concatenate;
\* what they mean is looked up in the unchanged item.  A key is written as its field.
RenderTransform(t) ==
  LET pair(p) == <<p.key, ":">> \o Join([n \in DOMAIN p.parts |-> p.parts[n].text], "+")
      all == (IF t.spread THEN <<<<"...p">>>> ELSE <<>>) \o [n \in DOMAIN t.pairs |-> pair(t.pairs[n])]
  IN <<"{">> \o (IF all = <<>> THEN <<>> ELSE Join(all, ",")) \o <<"}">>
TransformMeaning(t, x) ==
  LET last(f) == {n \in DOMAIN t.pairs : t.pairs[n].key = f}
      val(p) == IF Len(p.parts) = 1 THEN p.parts[1].says[x]
                ELSE FoldLeft(Concat, Str(<<>>), [n \in DOMAIN p.parts |-> p.parts[n].says[x]])
      item == Content[x]
      new == [f \in DOMAIN item |->
                IF last(f) # {} THEN val(t.pairs[CHOOSE n \in last(f) : \A k \in last(f) : k <= n])
                ELSE IF t.spread THEN item[f] ELSE V("absent", 0, <<>>)]
  IN IF \E n \in DOMAIN t.pairs : val(t.pairs[n]) = Err THEN [f \in {} |-> Err] ELSE new

------------------------------------------------------------------------------
NotYet == [says |-> "none", item |-> [f \in {} |-> Err]]
EvalInit ==
  /\ outcome = NotYet
  /\ \E x \in DOMAIN Content :
       \/ \E e \in Predicates, full \in BOOLEAN :
            input = [kind |-> "predicate", tree |-> e, full |-> full, item |-> x, text |-> Render(e, full)]
       \/ \E t \in Transforms :
            input = [kind |-> "transform", tree |-> t, full |-> FALSE, item |-> x, text |-> RenderTransform(t)]

Evaluate ==
  /\ outcome = NotYet
  /\ LET item == Content[input.item] IN
     outcome' = IF input.kind = "transform"
                  THEN [says |-> "done", item |-> EvaluateTransform(input.text, item)]
                  ELSE [says |-> EvaluatePredicate(input.text, item), item |-> item]
  /\ UNCHANGED input


------------------------------------------------------------------------------
\* What the scans take for something else: an escaped quote, and in a regular expression a quote, an
\* escaped parenthesis or one without its fellow.
Count(s, t) == Cardinality({k \in DOMAIN s : s[k] = t})
RegexesIn(s) ==
  {SubSeq(s, k + 3, Slash(s, k + 3) - 1) : k \in {j \in DOMAIN s : s[j] \in {".match", ".replace"}}}
Misleads(s) ==
  \/ \E k \in 1..Len(s) - 1 : s[k] = Backslash /\ s[k + 1] \in Quotes \cup {"(", ")"}
  \/ \E re \in RegexesIn(s) : Range(re) \cap Quotes # {} \/ Count(re, "(") # Count(re, ")")

\* However a predicate nests && , || , ! and pipes, with or without parentheses, and whatever operators
\* and parentheses its strings hold, splitting its text gives what its tree means; text that nests
\* deeper than the limit may be refused but is never misread.  Excepted is text of several parts one of
\* which misleads the scan.  (evaluate_predicate, find_top_level_operator)
PredicateMeaning ==
  input.kind = "predicate" /\ outcome # NotYet =>
    \/ outcome.says = Meaning(input.tree, input.item)
    \/ outcome.says = "error" /\ Nesting(input.tree, input.full) > MaxDepth
    \/ input.tree.k # "atom" /\ Misleads(input.text)

\* A transform reads every value from the item as it was, whatever earlier pairs wrote and its strings
\* hold; the last of two pairs for one key counts, a failing pair changes nothing, and the other fields
\* stay exactly if the item is spread.  A string that holds "...p" is taken for a spread and excepted,
\* and so is text of several parts one of which misleads the scan.  (evaluate_transform_expr)
OperandCount(t) == FoldLeft(LAMBDA n, p : n + Len(p.parts), 0, t.pairs)
TransformExact ==
  /\ input.kind = "transform"
  /\ outcome # NotYet
  /\ input.tree.spread \/ Count(input.text, "...p") = 0
  /\ OperandCount(input.tree) <= 1 \/ ~Misleads(input.text)
  =>
    outcome.item = TransformMeaning(input.tree, input.item)
=============================================================================
