----------------------------- MODULE ScriptApi ------------------------------
(* What a script does to its copy of the configuration: config.get and          *)
(* config.set, and the lists under utils.  A call holds the mutex of the copy    *)
(* from its check to its write, except the calls with a callback: they take a    *)
(* snapshot, run the callback, which may make calls of its own, and write back.  *)
(*                                                                              *)
(* The tree config.set works on is a function from paths to nodes; a path is a   *)
(* sequence of segments.  The children of an array are numeric segments, and a   *)
(* name of an object may look like one.                                          *)
EXTENDS Lists, SequencesExt

CONSTANTS
  Documents,   \* trees to start from
  SetKeys,     \* keys of config.set: sequences of segments; <<"">> is the empty key
  SetValues,   \* values: trees
  Numeric,     \* segments that parse as an index
  Access,      \* segment "rules[0]" -> <<"rules", "0">>
  Blocked,     \* segments config.set refuses: "__when__", "..", ...
  MaxKeyDepth, \* MAX_PATH_DEPTH
  Names,       \* proxy names
  StartProxies, StartRules,  \* the proxies, and possible values of rules, at the start
  NewRules,    \* sequences of rules to add
  GroupNames,
  StartGroups, \* the groups at the start: names differ, a group may have a member twice
  Renamed,     \* proxy name -> name: the outcome of the regex of rename
  MaxApiCalls

VARIABLES
  doc,      \* the tree
  said,     \* the last config.set: key, value, answer and the tree before
  proxies,  \* sequence of [name, port]
  rules,    \* [kind, items]: a list, or no list at all
  groups,   \* sequence of [name, members]
  callback, \* the call whose callback runs: its list, the snapshot, what the callback keeps
  shifted,  \* ghost: proxies or rules changed while the callback ran
  apiCalls
apiVars == <<doc, said, proxies, rules, groups, callback, shifted, apiCalls>>

------------------------------------------------------------------------------
\* Trees.
Node(t, v) == [ty |-> t, v |-> v]
Has(d, p) == p \in DOMAIN d
\* Every prefix of a path of a tree is a path of it.
IsTree(d) ==
  /\ d = [p \in DOMAIN d |-> d[p]] /\ <<>> \in DOMAIN d /\ DOMAIN d \subseteq Seq(STRING)
  /\ \A p \in DOMAIN d : \A n \in 0..Len(p) : Has(d, SubSeq(p, 1, n))
RuleKinds == {"list", "absent", "null", "other"}
ASSUME ApiAssumption ==
  /\ \A d \in Documents \cup SetValues : IsTree(d)
  /\ SetKeys \subseteq Seq(STRING) \ {<<>>}
  /\ StartProxies \in Seq([name : Names, port : Nat]) \ {<<>>}
  /\ StartRules \subseteq [kind : RuleKinds, items : Seq(STRING)] /\ NewRules \subseteq Seq(STRING) \ {<<>>}
  /\ StartGroups \in Seq([name : STRING, members : Seq(Names)]) /\ GroupNames \subseteq STRING
  /\ \A n, k \in DOMAIN StartGroups : StartGroups[n].name = StartGroups[k].name => n = k
SubTree(d, p) == [q \in {SubSeq(x, Len(p) + 1, Len(x)) : x \in {x \in DOMAIN d : IsPrefix(p, x)}} |-> d[p \o q]]
\* The tree with v in the place of what is at p.
Replace(d, p, v) ==
  [x \in {x \in DOMAIN d : ~IsPrefix(p, x)} \cup {p \o q : q \in DOMAIN v} |->
     IF IsPrefix(p, x) THEN v[SubSeq(x, Len(p) + 1, Len(x))] ELSE d[x]]
EmptyObject == [q \in {<<>>} |-> Node("object", "-")]
NullTree    == [q \in {<<>>} |-> Node("null", "-")]

\* resolve_path: only objects are looked into, and the lists of an access "a[0]"; what is
\* not there is null.
Segments(key) == FlattenSeq([n \in DOMAIN key |-> IF key[n] \in DOMAIN Access THEN Access[key[n]] ELSE <<key[n]>>])
ConfigGet(d, key) ==
  LET into(n) == Segments(SubSeq(key, 1, n - 1)) IN
  IF key = <<"">> THEN d
  ELSE IF /\ Has(d, Segments(key))
          /\ \A n \in DOMAIN key :
               /\ d[into(n)].ty = "object"
               /\ key[n] \in DOMAIN Access => d[Append(into(n), Access[key[n]][1])].ty = "array"
    THEN SubTree(d, Segments(key)) ELSE NullTree

\* What a segment is looked up in.
Holder(seg) == IF seg \in Numeric THEN "array" ELSE "object"
\* MUTANT of Enter: a missing object is not made.
MutEnter(w, seg) ==
  LET p == Append(w.at, seg) IN
  [d |-> w.d, at |-> p, open |-> w.open /\ w.d[w.at].ty = Holder(seg) /\ Has(w.d, p)]
\* set_path_value: one segment of the way; an index must be in range, a missing object is
\* made, and stays even if the way ends later.
Enter(w, seg) ==
  LET p == Append(w.at, seg) IN
  IF ~w.open THEN w
  ELSE IF w.d[w.at].ty # Holder(seg) \/ (seg \in Numeric /\ ~Has(w.d, p)) THEN [d |-> w.d, at |-> w.at, open |-> FALSE]
  ELSE [d |-> IF Has(w.d, p) THEN w.d ELSE Replace(w.d, p, EmptyObject), at |-> p, open |-> TRUE]
Way(d, key) ==
  LET after[n \in 0..Len(key) - 1] ==
        IF n = 0 THEN [d |-> d, at |-> <<>>, open |-> TRUE] ELSE Enter(after[n - 1], key[n])
  IN after[Len(key) - 1]
\* The last segment.
SetPathValue(d, key, v) ==
  LET w == Way(d, key)
      p == Append(w.at, Last(key))
  IN IF key = <<"">> THEN v
     ELSE IF w.open /\ w.d[w.at].ty = Holder(Last(key)) /\ (Last(key) \in Numeric => Has(w.d, p))
       THEN Replace(w.d, p, v)
     ELSE w.d

\* resolve_path_value
Found(d, key) == Has(d, key) /\ \A n \in DOMAIN key : d[SubSeq(key, 1, n - 1)].ty = Holder(key[n])
Compatible(t, u) == t = u \/ "null" \in {t, u}
\* make_config_set: the checks of the key, the check of the type, the write.
ConfigSetAnswer(d, key, v) ==
  IF Range(key) \cap Blocked # {} \/ Len(key) > MaxKeyDepth THEN "error"
  ELSE IF Found(d, key) /\ ~Compatible(d[key].ty, v[<<>>].ty) THEN "refused"
  ELSE "ok"

More == apiCalls < MaxApiCalls /\ apiCalls' = apiCalls + 1
ConfigSet(key, v) ==
  /\ More
  /\ said' = [key |-> key, value |-> v, answer |-> ConfigSetAnswer(doc, key, v), before |-> doc]
  /\ doc' = IF said'.answer = "ok" THEN SetPathValue(doc, key, v) ELSE doc
  /\ UNCHANGED <<proxies, rules, groups, callback, shifted>>

------------------------------------------------------------------------------
\* Lists.  retain with a set of the keys seen: the first of each stays.
KeepFirst(s, keys) == Chosen(s, {n \in DOMAIN s : \A k \in 1..n - 1 : keys[k] # keys[n]})
ByName == [n \in DOMAIN proxies |-> proxies[n].name]
ByPort == [n \in DOMAIN proxies |-> proxies[n].port]

InCallback == callback.list # "none"
ProxyCall(new) ==
  /\ More /\ proxies' = new
  /\ shifted' = (shifted \/ InCallback)
  /\ UNCHANGED <<doc, said, rules, groups, callback>>
\* rename_proxies_in_config, deduplicate_proxies_in_config, sort_proxies_in_config
RenameProxies == ProxyCall([n \in DOMAIN proxies |-> [proxies[n] EXCEPT !.name = Renamed[@]]])
DedupProxies  == ProxyCall(KeepFirst(proxies, ByName)) \/ ProxyCall(KeepFirst(proxies, ByPort))
SortProxies   == ProxyCall(SortSeq(proxies, LAMBDA x, y : x.port < y.port))

RulesCall(items) ==
  /\ More /\ rules' = [kind |-> "list", items |-> items]
  /\ shifted' = (shifted \/ InCallback)
  /\ UNCHANGED <<doc, said, proxies, groups, callback>>
\* modify_rules_array makes a list of whatever is there.  prepend() reverses its arguments.
RulesPrepend(new) == RulesCall(Reverse(new) \o rules.items)
RulesAppend(new)  == RulesCall(rules.items \o new)
\* MUTANT of Inserted: the new rules replace those in their place.
MutInserted(items, at, new) == SubSeq(items, 1, at) \o new \o SubSeq(items, at + 1 + Len(new), Len(items))
Inserted(items, at, new) == SubSeq(items, 1, at) \o new \o SubSeq(items, at + 1, Len(items))
RulesInsert(at, new) == at <= Len(rules.items) /\ RulesCall(Inserted(rules.items, at, new))
\* Beyond the end Vec::insert panics: a release build ends there (panic = abort), in another the
\* panic unwinds through the engine and whoever called, unless the script catches it.  What was
\* no list has become an empty one; a list that was not there is not kept.
RulesInsertPanics(at, new) ==
  /\ at > Len(rules.items)
  /\ More
  /\ rules' = IF rules.kind = "absent" THEN rules ELSE [kind |-> "list", items |-> rules.items]
  /\ UNCHANGED <<doc, said, proxies, groups, callback, shifted>>
RulesDedup == rules.kind = "list" /\ RulesCall(KeepFirst(rules.items, rules.items))

\* proxies.remove and rules.remove: what the callback answers true for is KEPT, the rest goes (the
\* comments, the document and the example plugin have it the other way round).  It gets the items of
\* the snapshot; rules that are no strings (here "object") are not among them, and not kept.
Shown(items) == Retained(items, {"object"})
KeptRules(s) == Retained(s, Range(s) \ callback.keep)
NoCallback == [list |-> "none", keep |-> {}, snapshot |-> <<>>]
RemoveBegin(list, keep) ==
  /\ More /\ ~InCallback
  /\ callback' = [list |-> list, keep |-> keep,
       snapshot |-> IF list = "proxies" THEN proxies ELSE Shown(rules.items)]
  /\ shifted' = FALSE
  /\ UNCHANGED <<doc, said, proxies, rules, groups>>
KeptProxies(s) == Chosen(s, {n \in DOMAIN s : s[n].name \in callback.keep})
RemoveEnd ==
  /\ InCallback
  /\ IF callback.list = "proxies"
       THEN /\ proxies' = KeptProxies(callback.snapshot)
            /\ UNCHANGED rules
       ELSE /\ rules' = IF rules.kind = "absent" THEN rules
                        ELSE [kind |-> "list", items |-> KeptRules(callback.snapshot)]
            /\ UNCHANGED proxies
  /\ callback' = NoCallback
  /\ shifted' = FALSE
  /\ UNCHANGED <<doc, said, groups, apiCalls>>

\* The callback throws, or answers with no boolean: nothing is written back.
RemoveThrows ==
  /\ InCallback
  /\ callback' = NoCallback
  /\ shifted' = FALSE
  /\ UNCHANGED <<doc, said, proxies, rules, groups, apiCalls>>

\* Groups: the first of the name is meant.
GroupCall(new) ==
  /\ More /\ groups' = new
  /\ UNCHANGED <<doc, said, proxies, rules, callback, shifted>>
Meant(n, g) == groups[n].name = g /\ \A k \in 1..n - 1 : groups[k].name # g
\* What the list does not have yet is pushed.
Pushed(members, new) ==
  members \o Chosen(new, {n \in DOMAIN new : new[n] \notin Range(members) /\ \A k \in 1..n - 1 : new[k] # new[n]})
GroupAdd(g, new) ==
  GroupCall([n \in DOMAIN groups |-> IF ~Meant(n, g) THEN groups[n] ELSE
    [name |-> g, members |-> Pushed(groups[n].members, new)]])
GroupDrop(g, gone) ==
  GroupCall([n \in DOMAIN groups |-> IF ~Meant(n, g) THEN groups[n] ELSE
    [name |-> g, members |-> Retained(groups[n].members, gone)]])
\* create_proxy_group needs a name and a type, leaves a group of that name alone, and takes the
\* members as they are.
GroupTaken(g) == \E n \in DOMAIN groups : groups[n].name = g
GroupCreate(g, members) ==
  GroupCall(IF GroupTaken(g) THEN groups ELSE Append(groups, [name |-> g, members |-> members]))
\* remove_proxy_group_by_name drops all of the name.
GroupRemove(g) == GroupCall(Chosen(groups, {n \in DOMAIN groups : groups[n].name # g}))

ApiInit ==
  /\ doc \in Documents
  /\ said = [key |-> <<>>, value |-> NullTree, answer |-> "none", before |-> doc]
  /\ proxies = StartProxies
  /\ rules \in StartRules
  /\ groups = StartGroups
  /\ callback = NoCallback /\ shifted = FALSE /\ apiCalls = 0
ApiNext ==
  \/ \E key \in SetKeys, v \in SetValues : ConfigSet(key, v)
  \/ RenameProxies \/ DedupProxies \/ SortProxies
  \/ \E new \in NewRules : RulesPrepend(new) \/ RulesAppend(new)
  \/ \E new \in NewRules, at \in 0..2 : RulesInsert(at, new) \/ RulesInsertPanics(at, new)
  \/ RulesDedup
  \/ \E keep \in SUBSET Names : RemoveBegin("proxies", keep)
  \/ \E keep \in SUBSET UNION {Range(new) : new \in NewRules} : RemoveBegin("rules", keep)
  \/ RemoveEnd \/ RemoveThrows
  \/ \E g \in GroupNames, x, y \in Names : GroupAdd(g, <<x, y>>) \/ GroupCreate(g, <<x, y>>)
  \/ \E g \in GroupNames, gone \in SUBSET Names : GroupDrop(g, gone)
  \/ \E g \in GroupNames : GroupRemove(g)
ApiSpec == ApiInit /\ [][ApiNext]_apiVars

------------------------------------------------------------------------------
\* Whether the way of a key exists or can be made: every segment fits what it is looked up
\* in, if that is there, and an index is in range.
Reachable(d, key) ==
  \A n \in DOMAIN key :
    /\ Has(d, SubSeq(key, 1, n - 1)) => d[SubSeq(key, 1, n - 1)].ty = Holder(key[n])
    /\ key[n] \in Numeric => Has(d, SubSeq(key, 1, n))
\* A config.set that says ok has set its key, if the key can be reached, to a value of a
\* type that fits what was there; config.get of the same key returns it if the key has no
\* index; no other setting changes.  One that does not say ok changes nothing.
\* (make_config_set, set_path_value, resolve_path)
SetExact ==
  LET k == said.key  d == said.before IN
  /\ said.answer \in {"error", "refused"} => doc = d
  /\ said.answer = "ok" /\ k # <<"">> =>
       /\ Reachable(d, k) =>
            /\ SubTree(doc, k) = said.value
            /\ Range(k) \cap (Numeric \cup DOMAIN Access) = {} => ConfigGet(doc, k) = said.value
       /\ Found(d, k) => Compatible(d[k].ty, said.value[<<>>].ty)
       /\ \A q \in DOMAIN d : ~IsPrefix(k, q) => Has(doc, q) /\ doc[q] = d[q]
       /\ \A q \in DOMAIN doc \ DOMAIN d : IsPrefix(k, q) \/ IsPrefix(q, k)

InOrder(s, t) == \* s is a subsequence of t
  LET next(k, x) == CHOOSE j \in k + 1..Len(t) + 1 : (j = Len(t) + 1 \/ t[j] = x) /\ \A i \in k + 1..j - 1 : t[i] # x
      after[n \in 0..Len(s)] ==   \* the first place of t up to which there are n of s, or one beyond its end
        IF n = 0 THEN 0 ELSE LET k == after[n - 1] IN IF k > Len(t) THEN k ELSE next(k, s[n])
  IN after[Len(s)] <= Len(t)
\* A group that gets more members has the old ones first, and each new one once.
Grown(s, t) ==
  Len(t) > Len(s) => /\ SubSeq(t, 1, Len(s)) = s
                     /\ \A j \in Len(s) + 1..Len(t) : \A i \in 1..j - 1 : t[i] # t[j]
\* Whatever calls a script makes, also from a callback: adding rules loses none and moves none;
\* otherwise rules go only as duplicates or by a removal, which takes those its callback is shown
\* and does not answer true for, and with them every rule that is no string, though no callback
\* saw it, or nothing if the callback throws - unless the callback changed a list itself, which
\* the removal then overwrites.  No two groups get one name, and addProxy gives a group nothing
\* that it has; the members a group is created with are the script's affair.
\* (utils.rules, utils.proxies.remove, utils.groups)
ListsKept ==
  [][/\ rules'.items # rules.items =>
          \/ InOrder(rules.items, rules'.items)
          \/ InOrder(rules'.items, rules.items) /\ Range(rules'.items) = Range(rules.items)
          \/ callback.list = "rules" /\ callback'.list = "none"
     /\ callback.list # "none" /\ callback'.list = "none" /\ ~shifted =>
          \/ UNCHANGED <<proxies, rules>>
          \/ callback.list = "proxies" /\ proxies' = KeptProxies(proxies) /\ UNCHANGED rules
          \/ callback.list = "rules" /\ rules'.items = KeptRules(Shown(rules.items)) /\ UNCHANGED proxies
     /\ \A n, k \in DOMAIN groups' : groups'[n].name = groups'[k].name => n = k
     /\ \A n \in DOMAIN groups, k \in DOMAIN groups' :
          groups[n].name = groups'[k].name => Grown(groups[n].members, groups'[k].members)]_apiVars
=============================================================================
