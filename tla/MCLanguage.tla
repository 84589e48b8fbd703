----------------------------- MODULE MCLanguage -----------------------------
\* Small instances of what stands between a file and the configuration the kernel loads:
\* the document and its patches, their expressions, conditions and schedules, and the
\* output.  Each initial state asks one of them; the others rest.
EXTENDS TraceView, DslParser, ExprEval, CronSearch, ScopeMatch, HotReload, Validator

\* The operations: programs of two patches of one operation each, and of one patch with up to
\* three operations or with a condition; items that satisfy the predicate, that do not and on
\* which every expression fails, and items that are conditional rules.
MCItems == {"a", "b", "x", "off", "on", "mac"}
MCPred    == [x \in MCItems |-> CASE x = "a" -> "yes" [] x = "x" -> "error" [] OTHER -> "no"]
MCRewrite == [x \in MCItems |-> CASE x = "a" -> "b" [] x = "b" -> "a" [] OTHER -> "error"]
MCGuarding == [x \in {"off", "on", "mac"} |->
  CASE x = "off" -> [enabled |-> "false", rule |-> "a"] [] x = "on" -> [enabled |-> "true", rule |-> "b"]
    [] x = "mac" -> [enabled |-> "unsaid", rule |-> "a"]]
MCBases == {[k \in Keys |-> CASE k = "rules" -> r [] k = "dns" -> d
                              [] k = "authentication" -> Arr(<<"a", "x">>) [] k = "dns.list" -> Absent] :
              r \in {Arr(<<"a", "b", "x">>), Absent},
              d \in {Absent, Null, Scalar("a"), EmptyObj, Obj(Arr(<<"x", "a">>)), Obj(Null)}}

Op(o, v) == [op |-> o, val |-> v]
SomeOps == {Op(o, Null) : o \in {"filter", "remove", "transform"}}
             \cup {Op(o, v) : o \in {"prepend", "append"},
                              v \in {Arr(<<"a", "x">>), Scalar("b")}}
             \cup {Op(o, v) : o \in {"default", "merge", "override"},
                              v \in {Arr(<<"b">>), Obj(Arr(<<"b">>)), Null}}
ListOf == {Op(o, Null) : o \in {"filter", "remove", "transform"}}
            \cup {Op("default", Arr(<<"b">>)), Op("prepend", Arr(<<"a", "x">>)), Op("append", Scalar("a"))}

Patch(p, ops) == [path |-> p, ops |-> ops, matched |-> TRUE, condition |-> TRUE, filed |-> TRUE]
Simple == {Patch(p, <<o>>) : p \in Paths, o \in SomeOps}
Conditional == {[path |-> p, ops |-> <<o>>, matched |-> m, condition |-> m2, filed |-> f] :
                  p \in {<<"rules">>}, o \in SomeOps, m \in BOOLEAN, m2 \in BOOLEAN, f \in BOOLEAN}
\* What a plugin or the visual editor writes beside the patch of a file.
Foreign(q) == [q EXCEPT !.filed = FALSE]
Composite == {Patch(p, s) : p \in Paths, s \in UNION {SetToSeqs(T) : T \in
                {U \in SUBSET ListOf : Cardinality(U) \in {2, 3}}}}

MCPrograms == {<<p>> : p \in Conditional \cup Composite} \cup {<<p, q>> : p \in Simple, q \in {r \in Simple : r.path # <<"dns", "list">>}}
  \cup {<<p, Foreign(q)>> : p, q \in {r \in Simple : r.path = <<"rules">>}}

\* Documents.
MCPathOrder == <<<<"authentication">>, <<"dns">>, <<"dns", "list">>, <<"rules">>>>

Yaml(json) == [is |-> "value", json |-> json, nan |-> FALSE, deep |-> FALSE]
Mention(field, by, where) == [field |-> field, by |-> by, where |-> where]
Expr(mentions) == [is |-> "expression", mentions |-> mentions]
Exprs == {Expr(<<Mention("name", "dot", "code"), Mention("delay", "dot", "string")>>),
          Expr(<<Mention("delay", "dot", "template expression")>>), Expr(<<Mention("delay", "bracket", "comment")>>),
          Expr(<<Mention("delay", "bare", "code")>>), Expr(<<Mention("delay", "dot", "code taken for a string")>>),
          Expr(<<Mention("delay", "bracket", "code taken for a string")>>), Expr(<<Mention("delay", "dot", "string taken for code")>>)}
GoodExpr == Expr(<<Mention("name", "dot", "code")>>)
Pair(k, dollar, v) == [key |-> k, dollar |-> dollar, val |-> v]
Pairs == {Pair(k, TRUE, GoodExpr) : k \in PredicateOps} \cup {Pair("$filter", TRUE, e) : e \in Exprs} \cup {Pair("$remove", TRUE, Yaml(Null))}
  \cup {Pair(k, TRUE, Yaml(v)) : k \in ListKeys, v \in {Arr(<<"off", "on", "mac", "x">>), Scalar("b"), Scalar("off")}}
  \cup {Pair(k, TRUE, Yaml(v)) : k \in {"$default", "$override"}, v \in {Arr(<<"b">>), Obj(Arr(<<"a">>))}}
  \cup {Pair("$default", TRUE, [Yaml(Null) EXCEPT !.nan = TRUE]), Pair("$default", TRUE, [Yaml(Null) EXCEPT !.deep = TRUE]),
        Pair("$prepnd", TRUE, Yaml(Null)), Pair("number", FALSE, Yaml(Null)), Pair("enable", FALSE, Yaml(Obj(Null))), Pair("mode", FALSE, Yaml(Scalar("a")))}
Mapping(pairs) == [is |-> "mapping", pairs |-> pairs, whole |-> Yaml(Obj(Arr(<<"b">>)))]
Mappings(n) == {Mapping(SetToSeq(S)) : S \in {T \in {Range(f) : f \in [1..n -> Pairs]} : \A e, f \in T : e.key = f.key => e = f}}
Entry(p, v) == [kind |-> "path", path |-> p, key |-> "plain", val |-> v]
Aside == [kind |-> "operator", path |-> <<"rules">>, key |-> "$filter", val |-> GoodExpr]
Doc(on, after, defaults, entries) == [is |-> "mapping", when |-> on, after |-> after, vars |-> defaults, entries |-> entries]
NotSaid == [is |-> "none"]
Whens == {NotSaid, [is |-> "mapping", compiles |-> TRUE, holds |-> FALSE], [is |-> "mapping", compiles |-> FALSE], [is |-> "other"]}
Afters == {NotSaid, [is |-> "string", names |-> <<"f">>], [is |-> "list", names |-> <<"f", "number", "g">>], [is |-> "number"]}
MCDocuments ==
  {Doc(NotSaid, NotSaid, "none", <<Entry(p, v)>>) : p \in Range(MCPathOrder), v \in Mappings(2)}
  \cup {Doc(NotSaid, NotSaid, "none", <<Aside, Entry(<<"rules">>, v)>>) : v \in Mappings(3)}
  \cup {Doc(w, a, x, <<Entry(<<"dns">>, Yaml(Obj(Null))), Entry(<<"authentication">>, m)>>) :
          w \in Whens, a \in Afters, x \in {"none", "strings", "bad"}, m \in {Mapping(<<>>), Mapping(<<Pair("$override", TRUE, Yaml(Null))>>)}}
  \cup {[is |-> "sequence", when |-> NotSaid, after |-> NotSaid, vars |-> "none", entries |-> <<>>]}

\* Expressions.
Words == {"HK", "hk", "DE", "de", "01", "*", "'", "||", "&&", "(", ")"}
MCLower == [w \in Words |-> CASE w = "HK" -> "hk" [] w = "DE" -> "de" [] OTHER -> w]
MCUpper == [w \in Words |-> CASE w = "hk" -> "HK" [] w = "de" -> "DE" [] OTHER -> w]
MCRank  == [w \in {"*", "01", "DE", "HK", "de", "hk"} |-> CASE w = "*" -> 0 [] w = "01" -> 1 [] w = "DE" -> 2 [] w = "HK" -> 3
                              [] w = "de" -> 4 [] w = "hk" -> 5]
Gone == V("absent", 0, <<>>)
ObjV == V("object", 0, <<>>)
Item(name, port, up, tags, opts, sni) ==
  [f \in {"p.name", "p.port", "p.up", "p.tags", "p.opts", "p.opts.sni"} |->
     CASE f = "p.name" -> name [] f = "p.port" -> port [] f = "p.up" -> up
       [] f = "p.tags" -> tags [] f = "p.opts" -> opts [] f = "p.opts.sni" -> sni]
MCContent == [x \in {"hk", "de", "odd"} |->
  CASE x = "hk"  -> Item(Str(<<"HK", "01">>), Num(443), Bool(TRUE), V("array", 2, <<>>), ObjV, Str(<<"hk", "'">>))
    [] x = "de"  -> Item(Str(<<"DE">>), Num(-80), NullV, NullV, Gone, Gone)
    [] x = "odd" -> Item(Num(7), Gone, Gone, Gone, ObjV, Str(<<"01">>))]
MCLit == [t \in {"443", "100", "2", "true", "null"} |->
  CASE t = "443" -> Num(443) [] t = "100" -> Num(100) [] t = "2" -> Num(2) [] t = "true" -> Bool(TRUE) [] t = "null" -> NullV]
MCPattern == [re \in {<<"*">>, <<"(", "HK", ")">>, <<"HK", "|", "DE">>, <<"[", "(", "]">>} |->
  CASE re = <<"*">> -> {} [] re = <<"(", "HK", ")">> -> {<<"HK">>}
    [] re = <<"HK", "|", "DE">> -> {<<"HK">>, <<"DE">>} [] re = <<"[", "(", "]">> -> {<<"(">>}]
MCBare == [f \in {"up"} |-> "p.up"]
Quoted(words) == <<"'">> \o words \o <<"'">>
Slashed(words) == <<"/">> \o words \o <<"/">>
HK == Quoted(<<"HK">>)
hk == Quoted(<<"hk">>)
DE == Quoted(<<"DE">>)

\* What each atom is on "hk", "de" and "odd", stated by hand: y, n or error.
Atom(text, h, d, o) ==
  [k |-> "atom", es |-> <<>>, text |-> text,
   says |-> [x \in {"hk", "de", "odd"} |->
     LET r == CASE x = "hk" -> h [] x = "de" -> d [] x = "odd" -> o
     IN IF r = "y" THEN "yes" ELSE IF r = "n" THEN "no" ELSE "error"]]
\* Some with every outcome, with pipes and parentheses of their own and operators in strings.
Leaves == {
  Atom(<<"p.name", ">">> \o Quoted(<<"DE", "||", "(">>), "y", "n", "e"),
  Atom(<<"p.name", "|", "lower", "|", "contains", "(">> \o hk \o <<")">>, "y", "n", "e"),
  Atom(<<"p.opts.sni", ".includes", "(">> \o hk \o <<")">>, "y", "e", "n"),
  Atom(<<"len", "(", "p.tags", ")", "<", "2">>, "n", "y", "e")}
\* And some that mislead the scan.
Misleading == {
  Atom(<<"p.name", "!=">> \o Quoted(<<"DE", "\\", "'">>), "y", "y", "y"),
  Atom(<<"p.opts.sni", ".includes", "(">> \o Quoted(<<"hk", "\\", "'">>) \o <<")">>, "y", "e", "n"),
  Atom(<<"contains", "(", "p.name", ",">> \o Quoted(<<"\\", "'", ")">>) \o <<")">>, "n", "n", "e"),
  Atom(<<"p.opts.sni", ".match", "(">> \o Slashed(<<"'">>) \o <<")">>, "y", "e", "n"),
  Atom(<<"p.name", ".match", "(">> \o Slashed(<<"[", "(", "]">>) \o <<")">>, "n", "n", "e")}
Atoms == Leaves \cup Misleading \cup {
  Atom(<<"p.port", ">=", "443">>, "y", "n", "e"),
  Atom(<<"p.port", "!=", "443">>, "n", "y", "e"),
  Atom(<<"p.name", "==">> \o Quoted(<<"HK", "01">>), "y", "n", "n"),
  Atom(<<"p.name", "==", "\"", "HK", "01", "\"">>, "y", "n", "n"),
  Atom(<<"p.name", "<">> \o HK, "n", "y", "e"),
  Atom(<<"p.name", "!=">> \o Quoted(<<"HK", "&&", ")">>), "y", "y", "y"),
  Atom(<<"p.port", "<=", "100">>, "n", "y", "e"),
  Atom(<<"p.name", "|", "upper", "==">> \o DE, "n", "y", "e"),
  Atom(<<"p.name", "|", "len", "==", "2">>, "y", "n", "e"),
  Atom(<<"p.name", "|", "ends_with", "(">> \o Quoted(<<"01">>) \o <<")">>, "y", "n", "e"),
  Atom(<<"p.port", "|", "abs", "(", ")", ">", "100">>, "y", "n", "e"),
  Atom(<<"p.port", "|", "<", "100">>, "n", "y", "e"),
  Atom(<<"p.name", "|", "==">> \o DE, "n", "y", "n"),
  Atom(<<"contains", "(", "p.name", ",">> \o HK \o <<")">>, "y", "n", "e"),
  Atom(<<"starts_with", "(", "p.name", ",">> \o DE \o <<")">>, "n", "y", "e"),
  Atom(<<"regex", "(", "p.name", ",">> \o Quoted(<<"*">>) \o <<")">>, "e", "e", "e"),
  Atom(<<"regex", "(", "p.name", ",">> \o HK \o <<")">>, "y", "n", "e"),
  Atom(<<"regex", "(", "p.name", ",">> \o Quoted(<<"HK", "|", "DE">>) \o <<")">>, "y", "y", "e"),
  Atom(<<"abs", "(", "p.port", ")", "!=", "443">>, "n", "y", "e"),
  Atom(<<"type_of", "(", "p.name", ")", "==">> \o Quoted(<<"string">>), "y", "y", "n"),
  Atom(<<"type_of", "(", "p.opts", ")", "==">> \o Quoted(<<"string">>), "e", "e", "e"),
  Atom(<<"len", "(", "p.name", ")">>, "e", "e", "e"),
  Atom(<<"p.opts.sni", "==">> \o hk, "e", "e", "e"),
  Atom(<<"up", "==", "true">>, "y", "n", "e"),
  Atom(<<"p.up", "==", "null">>, "n", "y", "e"),
  Atom(<<"p.name", ".match", "(">> \o Slashed(<<"HK">>) \o <<")">>, "y", "n", "e"),
  Atom(<<"p.name", ".match", "(">> \o Slashed(<<"(", "HK", ")">>) \o <<")">>, "y", "n", "e"),
  Atom(<<"p.name", ".match", "(">> \o Slashed(<<"*">>) \o <<")">>, "e", "e", "e"),
  Atom(<<"p.tags", ".includes", "(">> \o HK \o <<")">>, "e", "e", "e"),
  Atom(<<"true", "==", "p.up">>, "e", "e", "e"),
  Atom(<<"p.name", "|", "lower">>, "e", "e", "e"),
  Atom(<<"contains", "(", "p.name", ")">>, "e", "e", "e"),
  Atom(<<"p.name", "|", "contains">>, "e", "e", "e")}

Tree(k, es) == [k |-> k, es |-> es, text |-> <<>>, says |-> <<>>]
\* Trees over a few atoms.
Level1 == Leaves \cup {Tree("not", <<a>>) : a \in Leaves}
            \cup {Tree(k, <<a, b>>) : k \in {"and", "or"}, a \in Leaves, b \in Leaves}
Level2 == {Tree("not", <<e>>) : e \in Level1}
            \cup {Tree(k, <<d, e>>) : k \in {"and", "or"}, d \in Level1, e \in Level1}
Deep   == {Tree("not", <<Tree("not", <<e>>)>>) : e \in Level1}
            \cup {Tree(k, <<a, b, e, b>>) : k \in {"and", "or"}, a \in Leaves, b \in Leaves, e \in Level1 \ Leaves}
Misled == {Tree(k, <<a, b>>) : k \in {"and", "or"}, a, b \in Misleading \cup Leaves}
MCPredicates == Atoms \cup Level1 \cup Level2 \cup Deep \cup Misled

Operand1(text, h, d, o) ==
  [text |-> text, says |-> [x \in {"hk", "de", "odd"} |-> CASE x = "hk" -> h [] x = "de" -> d [] x = "odd" -> o]]
\* The form of the header, /HK/DE/, is no call: like any reference to nothing it is null.
Operands == {
  Operand1(<<"p.name">>, Str(<<"HK", "01">>), Str(<<"DE">>), Num(7)),
  Operand1(<<"p.opts.sni">>, Str(<<"hk", "'">>), NullV, Str(<<"01">>)),
  Operand1(<<"p.port">>, Num(443), Num(-80), NullV),
  Operand1(<<"p.tags">>, V("array", 2, <<>>), NullV, NullV),
  Operand1(Quoted(<<"...p">>), Str(<<"...p">>), Str(<<"...p">>), Str(<<"...p">>)),
  Operand1(Quoted(<<"hk", ",", "+", ":">>), Str(<<"hk", ",", "+", ":">>), Str(<<"hk", ",", "+", ":">>), Str(<<"hk", ",", "+", ":">>)),
  Operand1(Quoted(<<"hk", "\\", "'">>), Str(<<"hk", "'">>), Str(<<"hk", "'">>), Str(<<"hk", "'">>)),
  Operand1(<<"p.name", ".replace", "(">> \o Slashed(<<"HK">>) \o <<",">> \o hk \o <<")">>, Str(<<"hk", "01">>), Str(<<"DE">>), Err),
  Operand1(<<"p.name", ".replace", "(">> \o Slashed(<<"HK", "|", "DE">>) \o Slashed(<<"DE">>) \o <<")">>, Str(<<"DE", "01">>), Str(<<"DE">>), Err),
  Operand1(<<"p.name", ".replace", "(">> \o Slashed(<<"HK">>) \o <<"DE", "/", ")">>, NullV, NullV, Err),
  Operand1(<<"p.name", ".replace", "(">> \o Slashed(<<"*">>) \o <<")">>, Err, Err, Err)}
Assign(key, parts) == [key |-> key, parts |-> parts]
SomePairs == {Assign(key, ps) : key \in {"p.name", "p.port"},
                ps \in {<<a>> : a \in Operands} \cup {<<a, b>> : a \in Operands, b \in Operands}}
MCTransforms == [spread : BOOLEAN, pairs : {<<>>} \cup {<<p>> : p \in SomePairs}
                    \cup {<<p, q>> : p, q \in {r \in SomePairs : Len(r.parts) = 1}}
                    \cup {<<Assign("p.name", <<a, b, a>>)>> : a \in Operands, b \in Operands}]

\* Cron expressions.
MCRanges ==
  [minutes |-> <<0, 2>>, hours |-> <<0, 1>>, days |-> <<1, 4>>, months |-> <<1, 3>>, weekdays |-> <<0, 2>>]
MCMonths == [leap \in BOOLEAN |-> IF leap THEN <<4, 3, 3>> ELSE <<4, 2, 3>>]
Cron(mi, h, d, m, w) == [minutes |-> <<mi>>, hours |-> <<h>>, days |-> <<d>>, months |-> <<m>>, weekdays |-> <<w>>]
At1(n) == One(Number(n))
MCExpressions ==
  {Cron(Star, Star, Star, Star, Star), Cron(At1(0), At1(0), At1(1), At1(2), Star), Cron(At1(1), At1(1), At1(3), At1(2), Star),
   Cron(Every(Number(2)), At1(0), Star, One([is |-> "month", n |-> 3]), At1(2)), Cron(At1(2), Star, At1(3), Star, One([is |-> "day", n |-> 1])),
   Cron(At1(1), Star, Star, Span(Number(1), Number(2), NoStep), Star),
   Cron(At1(0), At1(0), At1(1), At1(4), Star), Cron(At1(0), At1(1), At1(3), At1(2), At1(3)),
   Cron(At1(1), At1(1), At1(4), At1(2), Star), Cron(Star, Star, At1(9), Star, At1(9)),
   Cron(Every(Number(0)), At1(0), At1(1), At1(1), Star)}
MCHookExpressions ==
  {Cron(Every(Number(2)), At1(0), Star, One([is |-> "month", n |-> 3]), At1(2)), Cron(At1(1), At1(1), At1(3), At1(2), Star),
   [Cron(Star, Star, Star, Star, Star) EXCEPT !.minutes = <<Every(Number(0)), At1(1)>>]}
MCStarts == {0, 7, 10, 15, 17, 23, 29, 34, 40, 47, 50, 60, 65, 90, 97}
CronTokens == {Number(n) : n \in {0, 1, 2, 3, 4}} \cup {Junk, [is |-> "month", n |-> 2], [is |-> "day", n |-> 2]}
CronParts == {Star, Blank} \cup {Every(t) : t \in {Number(0), Number(1), Number(2), Junk}} \cup {One(t) : t \in CronTokens}
   \cup {Span(a, b, s) : a \in CronTokens, b \in CronTokens, s \in {NoStep, Number(0), Number(2), Number(3), Junk}}
MCFieldTexts == {<<p>> : p \in CronParts} \cup {<<p, q>> : p \in {Blank, One(Number(1)), One(Number(9))}, q \in CronParts}

\* Scopes.
MCPlatformAlias == [a \in {"windows", "win", "linux"} |-> IF a = "linux" THEN "linux" ELSE "windows"]
MCCoreAlias == [a \in {"clash", "meta"} |-> "mihomo"]
Literally(t) == [regex |-> FALSE, text |-> t]
Work == <<"w", "1">>
MCRegexMatches == {<<Work, <<"w", ".">>>>}
Range0(a, b) == [from |-> a, to |-> b]
MCConditions ==
  {[NoWhen EXCEPT !.time = t, !.enabled = e, !.core = c] :
     t \in {Text(Range0(a, b)) : a \in 0..5, b \in 0..5} \cup {Unsaid, [is |-> "number"]},
     e \in {Unsaid, [is |-> "boolean", says |-> TRUE], [is |-> "boolean", says |-> FALSE], Text("no")},
     c \in {Unsaid, Text("meta"), Text("clash-rs"), [is |-> "number"]}}
  \cup {[NoWhen EXCEPT !.platform = p, !.profile = f, !.ssid = s] :
     p \in {Unsaid, Text("win"), Text("beos"), ManyOf(<<"linux", "number">>), ManyOf(<<>>), [is |-> "number"]},
     f \in {Unsaid, Text(Literally(<<"w", "*">>)), Text([regex |-> TRUE, text |-> <<"w", ".">>]), ManyOf(<<Literally(<<"?">>), Literally(Work)>>), [is |-> "number"]},
     s \in {Unsaid, Text("home"), [is |-> "number"]}}
AMachine == [profile |-> [known |-> FALSE], platform |-> Unknown, core |-> Unknown, ssid |-> Unknown, now |-> 0]
MCMachines == [profile : {[known |-> FALSE]} \cup {[known |-> TRUE, name |-> n] : n \in {Work, <<"h">>}}, platform : {Unknown, "windows", "linux", "all"},
  core : {Unknown, "mihomo", "clash-rs"}, ssid : {Unknown, "home", "cafe"}, now : {0}]
  \cup [profile : {[known |-> FALSE]}, platform : {"linux"}, core : {Unknown, "mihomo"}, ssid : {"home"}, now : 0..4]

\* Configurations and texts to write.
SettingPaths == {"tun.device", "tun.stack", "tun.interface-name", "log.level", "log-level", "secret", "external-controller-tls",
                 "experimental.ignore-certificate-errors", "mode"}
Setting(stack, interface, level, loglevel, others) ==
  [p \in SettingPaths |-> CASE p = "mode" -> "a" [] p = "tun.stack" -> stack [] p = "tun.interface-name" -> interface
     [] p = "log.level" -> level [] p = "log-level" -> loglevel [] OTHER -> others]
Vals == {"absent", "a", "b"}
MCSettings == {Setting(s, n, l, ll, o) : s \in Vals, n \in Vals, l \in Vals, ll \in Vals, o \in {"absent", "a"}}
OneSetting == Setting("a", "b", "a", "b", "a")
YamlLine == {[blank |-> TRUE, indent |-> 0, opens |-> FALSE, end |-> "other"]}
              \cup [blank : {FALSE}, indent : 0..1, opens : BOOLEAN, end : {"colon-bar", "bar", "other"}]
AHeader == [blank |-> FALSE, indent |-> 0, opens |-> TRUE, end |-> "colon-bar"]
NoColon == {line \in YamlLine : line.end # "colon-bar" /\ (line.opens => line.end = "bar")}
MCYamlTexts == UNION {[1..n -> YamlLine] : n \in 1..3} \cup {<<AHeader>> \o f : f \in [1..3 -> YamlLine]} \cup {<<AHeader>> \o f : f \in [1..4 -> NoColon]}

\* Configurations to look at: every graph of three groups, and groups with every kind of reference.
MCShape == [x \in {"NAME(hk)", "FOO(hk)", "!!hk", "TYPE(a"} |->
  CASE x = "NAME(hk)" -> [excludes |-> FALSE, keyword |-> "NAME", closed |-> TRUE] [] x = "FOO(hk)" -> [excludes |-> FALSE, keyword |-> "FOO", closed |-> TRUE]
    [] x = "!!hk" -> [excludes |-> TRUE, keyword |-> "", closed |-> FALSE] [] x = "TYPE(a" -> [excludes |-> FALSE, keyword |-> "TYPE", closed |-> FALSE]]
Outlet(name, type, server) == [name |-> name, type |-> type, server |-> server]
Choice(name, proxies, uses) == [name |-> name, proxies |-> proxies, use |-> uses]
Final(proxies, groups) == [proxies |-> proxies, groups |-> groups, tun |-> "enabled", dns |-> "enabled", rules |-> [given |-> TRUE, list |-> <<"MATCH">>]]
Good == Outlet("hk", "ss", "host")
Refd == {"hk", "A", "B", "ghost", "DIRECT", NotText} \cup DOMAIN MCShape
OneRef == {<<>>} \cup {<<r>> : r \in Refd}
Direct(S) == SelectSeq(<<"A", "B", "C">>, LAMBDA r : r \in S)
MCFinals ==
  {Final(<<Good>>, <<Choice("A", Direct(S), <<>>), Choice("B", Direct(T) \o <<"hk">>, <<>>), Choice("C", <<"DIRECT">>, Direct(U))>>) :
     S, T, U \in SUBSET {"A", "B", "C"}}
  \cup {Final(<<Good>>, <<Choice("A", p, u), Choice(n, <<"hk", "A">>, <<>>)>>) : p, u \in OneRef, n \in {"A", "B", Missing, NotText}}
  \cup {Final(ps, <<Choice("A", p, <<>>)>>) : p \in OneRef, ps \in {<<Good, Good>>, <<Outlet(NotText, "ss", "host")>>,
           <<Outlet("hk", Missing, "host")>>, <<Outlet("hk", "ss", Missing), Outlet(Missing, "ss", "host")>>, <<Good, Outlet("A", "ss", "host")>>}}
  \cup {[Final(<<Good>>, <<>>) EXCEPT !.tun = t, !.dns = d, !.rules = r] :
           t \in {Missing, "disabled", "enabled"}, d \in {Missing, "disabled", "enabled", "fake-ip"}, r \in [given : {TRUE}, list : {<<>>, <<"DOMAIN">>, <<"MATCH", "DOMAIN">>}] \cup {[given |-> FALSE, list |-> <<>>]}}
AFinal == Final(<<>>, <<>>)

-----------------------------------------------------------------------------
VARIABLE part   \* what is asked
opsVars == <<base, config, program, place, todo, traces, snapshots, alike, document, parsed>>
langVars == <<opsVars, evalVars, cronVars, scopeVars, reloadVars, validVars, part>>
AllParts == {"operations", "documents", "expressions", "fields", "search", "hooks", "scopes", "output", "verdict"}
ADocument == [is |-> "sequence", when |-> NotSaid, after |-> NotSaid, vars |-> "none", entries |-> <<>>]
NoQuestion == [field |-> "days", text |-> <<Star>>]
NoSearch == [by |-> "hooks", cron |-> Cron(Star, Star, Star, Star, Star), from |-> 0, at |-> 1]

MCInit ==
  /\ part \in AllParts
  /\ IF part = "operations" THEN Init /\ document = ADocument /\ parsed = "given"
     ELSE /\ IF part = "documents" THEN DslInit /\ base \in Bases
             ELSE document = ADocument /\ parsed = "given" /\ program = <<>> /\ base = CHOOSE b \in Bases : TRUE
          /\ config = base /\ place = 0 /\ todo = <<>> /\ traces = <<>> /\ snapshots = <<>> /\ alike = TRUE
  /\ IF part = "expressions" THEN EvalInit ELSE input = [kind |-> "nothing"] /\ outcome = NotYet
  /\ found = NothingYet /\ HooksInit
  /\ IF part = "search" THEN SearchInit ELSE search = NoSearch
  /\ IF part = "fields" THEN AskedInit ELSE asked = NoQuestion
  /\ machine = AMachine /\ ScopeInit
  /\ IF part = "verdict" THEN ValidInit ELSE final = AFinal /\ turn = {} /\ trail = <<>> /\ visited = {} /\ cycles = {}
  /\ IF part = "output" THEN ReloadInit ELSE ReloadInit /\ \A q \in Pids : procs[q] = "stranger"

Unasked == phase = "idle" /\ answer = "none" /\ printed = NoText
OutputStep ==
  \/ Unasked /\ \E t \in Outputs :
       \/ \E c \in Settings : CallReload(c, t, [by |-> "none"])
       \/ \E how \in Strategies : CallReload(OneSetting, t, how)
  \/ Unasked /\ (\A q \in Pids : procs[q] = "stranger") /\ \E lines \in YamlTexts : Compact(lines)
  \/ Write \/ WriteFails \/ NotifyHotReload \/ \E q \in Pids : Process(q)

Asked(p, A, others) == part = p /\ A /\ UNCHANGED <<others, part>>
NotOps == <<evalVars, cronVars, scopeVars, reloadVars, validVars>>
Searches == Asked("search", SearchStep, <<opsVars, evalVars, scopeVars, reloadVars, validVars>>)
MCNext ==
  \/ Asked("operations", Next /\ UNCHANGED dslVars, NotOps)
  \/ Asked("documents", DslStep, NotOps)
  \/ Asked("expressions", Evaluate, <<opsVars, cronVars, scopeVars, reloadVars, validVars>>)
  \/ Searches
  \/ Asked("hooks", HookCall, <<opsVars, evalVars, scopeVars, reloadVars, validVars>>)
  \/ Asked("scopes", (applies = "not compiled" /\ \E w \in Conditions : Compile(w)) \/ (machine = AMachine /\ \E m \in Machines : Recheck(m)), <<opsVars, evalVars, cronVars, reloadVars, validVars>>)
  \/ Asked("output", OutputStep, <<opsVars, evalVars, cronVars, scopeVars, validVars>>)
  \/ Asked("verdict", ValidStep, <<opsVars, evalVars, cronVars, scopeVars, reloadVars>>)
MCSpec == MCInit /\ [][MCNext]_langVars
\* A search is a loop: it goes on.
SearchSpec == MCSpec /\ WF_langVars(Searches)

-----------------------------------------------------------------------------
\* Predicates and transforms mean what their trees mean.  (executor/expr.rs; the parts are in ExprEval)
ExpressionMeaning == part = "expressions" => PredicateMeaning /\ TransformExact
=============================================================================
