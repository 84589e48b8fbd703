----------------------------- MODULE Validator -----------------------------
(***************************************************************************)
(* The last look at a configuration (core/src/validator.rs): names, the    *)
(* references between proxy groups and the search for a reference cycle,   *)
(* an iterative depth-first search that starts from the groups in the      *)
(* order of a HashSet, which may be any.                                   *)
(***************************************************************************)
EXTENDS Naturals, SequencesExt, Lists

CONSTANTS
  Shape,         \* texts that are more than a name -> how they begin and end
  FinalConfigs   \* configurations given to validate()

ASSUME FinalAssumption ==
  FinalConfigs \subseteq
    [proxies : Seq([name : STRING, type : STRING, server : STRING]),
     groups : Seq([name : STRING, proxies : Seq(STRING), use : Seq(STRING)]),
     tun : STRING, dns : STRING, rules : [given : BOOLEAN, list : Seq(STRING)]]

VARIABLES
  final,     \* the configuration
  turn,      \* groups the search has yet to start from
  trail,     \* the stack of detect_cycle: groups, and the neighbour each goes on with
  visited,   \* groups that are done
  cycles     \* cycles reported, as sequences of groups
validVars == <<final, turn, trail, visited, cycles>>

Missing == "missing"        \* no such field
NotText == "not a string"   \* a field or an item of another type
SPECIAL_PROXY_NAMES == {"DIRECT", "REJECT", "PASS", "COMPATIBLE"}
FilterKeywords == {"NAME", "TYPE", "REGEXP", "MATCH"}   \* four of the twenty-four
IsFilterSelector(text) ==
  text \in DOMAIN Shape /\ (Shape[text].excludes \/ (Shape[text].closed /\ Shape[text].keyword \in FilterKeywords))

NamesOf(entries) == {e.name : e \in Range(entries)} \ {Missing, NotText}
Repeated(entries) == {n \in NamesOf(entries) : \E i, j \in DOMAIN entries : i # j /\ entries[i].name = n /\ entries[j].name = n}
GroupNames == NamesOf(final.groups)
ProxyNames == NamesOf(final.proxies)

-----------------------------------------------------------------------------
\* Results.
Result(errors, warnings) == [errors |-> errors, warnings |-> warnings, is_valid |-> errors = {}]
Merge(r, s) == [errors |-> r.errors \cup s.errors, warnings |-> r.warnings \cup s.warnings, is_valid |-> r.is_valid /\ s.is_valid]
ErrorsAt(path, names) == {<<path, n>> : n \in names}

CheckProxyNamesUnique == Result(ErrorsAt("proxies", Repeated(final.proxies)), {})
CheckProxyGroupNamesUnique == Result(ErrorsAt("proxy-groups", Repeated(final.groups)), {})

UnknownRefs(group) ==
  {r \in Range(group.proxies) \ (SPECIAL_PROXY_NAMES \cup {NotText}) : r \notin ProxyNames \cup GroupNames /\ ~IsFilterSelector(r)}
\* Only a group that has a name is looked into.
CheckProxyGroupReferences ==
  Result({<<"cycle", c>> : c \in cycles}
           \cup UNION {IF g.name \in {Missing, NotText} THEN {<<"proxy-groups", Missing>>} ELSE ErrorsAt(g.name, UnknownRefs(g)) : g \in Range(final.groups)}, {})
CheckProxyGroupUseReferences ==
  Result(UNION {ErrorsAt("use", {r \in Range(g.use) \ (GroupNames \cup {NotText}) : ~IsFilterSelector(r)}) : g \in Range(final.groups)}, {})

\* Without a dns section nothing is said, whether or not tun is enabled.
CheckDnsConfig ==
  LET on == final.tun = "enabled" /\ final.dns # Missing
  IN Result({}, IF on /\ final.dns = "disabled" THEN {"dns"} ELSE IF on /\ final.dns = "enabled" THEN {"dns.enhanced-mode"} ELSE {})
CheckProxyRequiredFields ==
  Result(UNION {{<<"proxies", f>> : f \in {f \in {"name", "type", "server"} : p[f] = Missing}}
                  \cup (IF p.name = NotText THEN {<<"proxies.name", NotText>>} ELSE {}) : p \in Range(final.proxies)}, {})
\* A MATCH rule anywhere in the list is enough.
CheckSmartSuggestions ==
  Result({}, IF final.rules.given /\ "MATCH" \notin Range(final.rules.list) THEN {"rules"} ELSE {})

Validate ==
  LET names == Merge(CheckProxyNamesUnique, CheckProxyGroupNamesUnique)
      references == Merge(Merge(names, CheckProxyGroupReferences), CheckProxyGroupUseReferences)
  IN Merge(Merge(Merge(references, CheckDnsConfig), CheckProxyRequiredFields), CheckSmartSuggestions)

-----------------------------------------------------------------------------
\* The search for a cycle.
Refs(group) ==
  LET groups == {r \in GroupNames \ SPECIAL_PROXY_NAMES : ~IsFilterSelector(r)}
  IN Retained(group.proxies, Range(group.proxies) \ groups) \o Retained(group.use, Range(group.use) \ GroupNames)
\* group_refs: of two groups with one name the later one counts.
Entries(name) == {i \in DOMAIN final.groups : final.groups[i].name = name}
Graph == [name \in GroupNames |-> Refs(final.groups[CHOOSE i \in Entries(name) : \A j \in Entries(name) : j <= i])]
Neighbors(name) == Graph[name]

ValidInit ==
  /\ final \in FinalConfigs
  /\ turn = GroupNames /\ trail = <<>> /\ visited = {} /\ cycles = {}

StartDfs(name) ==
  /\ trail = <<>> /\ name \in turn
  /\ turn' = turn \ {name}
  /\ trail' = IF name \in visited THEN <<>> ELSE <<[node |-> name, next |-> 1]>>
  /\ UNCHANGED <<final, visited, cycles>>

\* MUTANT of OnPath: a group that is done counts as one on the path.
MutOnPath(name) == name \in visited \/ \E k \in DOMAIN trail : trail[k].node = name
OnPath(name) == \E k \in DOMAIN trail : trail[k].node = name
Top == Last(trail)
\* Neighbours, from where the group goes on, that are on the path or not done.
Open == {i \in Top.next..Len(Neighbors(Top.node)) :
           LET n == Neighbors(Top.node)[i] IN OnPath(n) \/ n \notin visited}
Nearest == CHOOSE i \in Open : \A j \in Open : i <= j

\* The path stays unvisited: another start may report the same cycle again.
FoundCycle ==
  /\ trail # <<>> /\ Open # {} /\ OnPath(Neighbors(Top.node)[Nearest])
  /\ LET again == Neighbors(Top.node)[Nearest]
         from == {k \in DOMAIN trail : trail[k].node = again}
         since == IF from = {} THEN <<Top>> ELSE SubSeq(trail, CHOOSE k \in from : TRUE, Len(trail))
     IN cycles' = cycles \cup {[k \in DOMAIN since |-> since[k].node]}
  /\ trail' = <<>>
  /\ UNCHANGED <<final, turn, visited>>
Descend ==
  /\ trail # <<>> /\ Open # {} /\ ~OnPath(Neighbors(Top.node)[Nearest])
  /\ trail' = Append([trail EXCEPT ![Len(trail)] = [node |-> Top.node, next |-> Nearest + 1]], [node |-> Neighbors(Top.node)[Nearest], next |-> 1])
  /\ UNCHANGED <<final, turn, visited, cycles>>
Backtrack ==
  /\ trail # <<>> /\ Open = {}
  /\ visited' = visited \cup {Top.node}
  /\ trail' = Front(trail)
  /\ UNCHANGED <<final, turn, cycles>>
ValidStep == (\E name \in turn : StartDfs(name)) \/ FoundCycle \/ Descend \/ Backtrack
ValidSpec == ValidInit /\ [][ValidStep]_validVars

-----------------------------------------------------------------------------
\* A finite graph has a cycle when some of its nodes all have a successor among them.
HasCycle == \E S \in (SUBSET GroupNames) \ {{}} : \A g \in S : Range(Neighbors(g)) \cap S # {}
Genuine(c) == \A k \in DOMAIN c : c[IF k = Len(c) THEN 1 ELSE k + 1] \in Range(Neighbors(c[k]))
\* What every reference of a configuration the kernel can load names.
Resolves(r, group) ==
  \/ r = NotText \/ IsFilterSelector(r) \/ r \in GroupNames
  \/ r \in ProxyNames \cup SPECIAL_PROXY_NAMES /\ r \notin Range(group.use)
Loadable ==
  /\ Repeated(final.proxies) = {} /\ Repeated(final.groups) = {}
  /\ \A p \in Range(final.proxies) : p.name \notin {Missing, NotText} /\ p.type # Missing /\ p.server # Missing
  /\ \A g \in Range(final.groups) :
       g.name \notin {Missing, NotText} /\ \A r \in Range(g.proxies) \cup Range(g.use) : Resolves(r, g)
  /\ ~HasCycle

\* Whatever the order of the starts and whatever was visited before: every cycle reported is one of the
\* configuration, a group that is done leads to none, and once the search is over the configuration is
\* valid exactly when its names are unique, its references resolve and no group refers to itself, over
\* however many others.  (validator.rs validate, detect_cycle)
VerdictExact ==
  /\ \A c \in cycles : Genuine(c)
  /\ \A g \in visited : Range(Neighbors(g)) \subseteq visited
  /\ turn = {} /\ trail = <<>> => (cycles # {} <=> HasCycle) /\ (Validate.is_valid <=> Loadable)
=============================================================================
