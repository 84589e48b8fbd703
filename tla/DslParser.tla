----------------------------- MODULE DslParser -----------------------------
(* From a .prism.yaml document to the patches it stands for (parser.rs of     *)
(* clash-prism-dsl), which PatchOps runs.  Text is not modelled: a document   *)
(* is its entries in order, and an expression the places where it mentions a  *)
(* field of a proxy.                                                          *)
EXTENDS PatchOps

CONSTANTS
  Documents,      \* what the files may hold
  PathOrder,      \* the target paths, in the order of their names
  Guarding,       \* item that is a conditional rule -> what its __when__ says and its rule
  RuntimeFields   \* fields of a proxy known only after a speed test

PredicateOps == {"$filter", "$remove", "$transform"}
ListKeys == {"$prepend", "$append"}
OpKeys == PredicateOps \cup ListKeys \cup {"$default", "$override"}
\* VALID_OPS; the rest of the keys with a dollar are unknown.
OpName == [k \in OpKeys |->
  IF k = "$filter" THEN "filter" ELSE IF k = "$remove" THEN "remove" ELSE IF k = "$transform" THEN "transform"
  ELSE IF k = "$prepend" THEN "prepend" ELSE IF k = "$append" THEN "append" ELSE IF k = "$default" THEN "default" ELSE "override"]

VARIABLES document, parsed
dslVars == <<document, parsed>>

-----------------------------------------------------------------------------
(* extract_member_access_fields: p['f'] is looked for in the raw text, also in strings and comments; *)
(* p.f where neither is, but in all of a template's ${...}, the strings in it included.  A regex is   *)
(* not known to strip_strings_and_comments: a quote or // in it turns what follows, code and strings, *)
(* into each other.  A field by its bare name is not looked for, though resolve_value_expr reads it.   *)
SeenWhere == {"code", "template expression", "string in a template expression", "string taken for code"}
Extracted(expr) ==
  {expr.mentions[n].field : n \in {m \in DOMAIN expr.mentions :
      expr.mentions[m].by = "bracket" \/ (expr.mentions[m].by = "dot" /\ expr.mentions[m].where \in SeenWhere)}}
ValidPredicate(v) == v.is = "expression" /\ Extracted(v) \cap RuntimeFields = {}

(* yaml_value_to_json: what lies deeper than ten levels becomes null; a number that is none is an error. *)
Converts(v) == v.is = "value" /\ ~v.nan
Json(v) == IF v.deep THEN Obj(Null) ELSE v.json

(* process_conditional_array_items.  What is no list is handed on, a single conditional rule too. *)
SwitchedOff(x) == x \in DOMAIN Guarding /\ Guarding[x].enabled = "false"
RuleOf(x) ==
  IF x \notin DOMAIN Guarding \/ Guarding[x].enabled = "unsaid" \/ Guarding[x].rule = "none" THEN x ELSE Guarding[x].rule
ProcessConditional(v) ==
  IF v.kind # "array" THEN v
  ELSE LET left == Chosen(v.items, {n \in DOMAIN v.items : ~SwitchedOff(v.items[n])})
       IN  Arr([n \in DOMAIN left |-> RuleOf(left[n])])

-----------------------------------------------------------------------------
(* The groups of a document: the operations written under each path.  A value without $ keys is the *)
(* single plain key of its group.  (parse_str)                                                       *)
HasDslOp(val) == val.is = "mapping" /\ \E n \in DOMAIN val.pairs : val.pairs[n].dollar
Group(e) == IF HasDslOp(e.val) THEN e.val.pairs
            ELSE <<[key |-> e.key, dollar |-> FALSE, val |-> IF e.val.is = "mapping" THEN e.val.whole ELSE e.val]>>
\* Metadata, keys of another type and operators at the top are passed over.
Targets(d, p) == {n \in DOMAIN d.entries : d.entries[n].kind = "path" /\ d.entries[n].path = p}
GroupOf(d, p) == Group(d.entries[CHOOSE n \in Targets(d, p) : TRUE])
WrittenPaths(d) == Chosen(PathOrder, {k \in DOMAIN PathOrder : Targets(d, PathOrder[k]) # {}})

Keyed(g, k) == {n \in DOMAIN g : g[n].key = k}
Exclusive(g) == Keyed(g, "$override") # {}
PlainKeys(g) == {n \in DOMAIN g : ~g[n].dollar}

\* What compile_path_group refuses.
BadPair(e) ==
  \/ e.key \in {"", "number"}
  \/ e.dollar /\ e.key \notin OpKeys
  \/ e.key \in PredicateOps /\ ~ValidPredicate(e.val)
  \/ e.key \notin PredicateOps /\ ~Converts(e.val)
PlainClash(g) ==
  Cardinality(PlainKeys(g)) > 1 /\ \E n \in PlainKeys(g) : Json(g[n].val).kind # "object"
GroupError(g) ==
  IF Exclusive(g) THEN Len(g) > 1 \/ ~Converts(g[1].val)
  ELSE (\E n \in DOMAIN g : BadPair(g[n])) \/ PlainClash(g)

\* The operations of a patch, as they are listed; plain keys count only where there is no other.
ValueOf(e) ==
  IF e.key \in PredicateOps THEN Null
  ELSE IF e.key \in ListKeys THEN ProcessConditional(Json(e.val)) ELSE Json(e.val)
Picked(g, k) == LET n == CHOOSE m \in Keyed(g, k) : TRUE IN [op |-> OpName[k], val |-> ValueOf(g[n])]
SubKeys == <<"$filter", "$remove", "$transform", "$prepend", "$append", "$default">>
\* MUTANT of SubOps: $default counts only where it stands alone.
MutSubOps(g) ==
  LET keys == Chosen(SubKeys, {n \in DOMAIN SubKeys : Keyed(g, SubKeys[n]) # {} /\ (n = 6 => Len(g) = 1)})
  IN  [n \in DOMAIN keys |-> Picked(g, keys[n])]
SubOps(g) ==
  LET keys == Chosen(SubKeys, {n \in DOMAIN SubKeys : Keyed(g, SubKeys[n]) # {}})
  IN  [n \in DOMAIN keys |-> Picked(g, keys[n])]
GroupOps(g) ==
  IF Exclusive(g) THEN <<Picked(g, "$override")>>
  ELSE IF SubOps(g) # <<>> THEN SubOps(g)
  ELSE <<[op |-> "merge", val |-> Json(g[CHOOSE n \in PlainKeys(g) : TRUE].val)]>>

-----------------------------------------------------------------------------
(* extract_scope, extract_after_dependencies, extract_variables: the metadata of a document. *)
MetaError(d, withVars) ==
  \/ d.when.is # "none" /\ (d.when.is # "mapping" \/ ~d.when.compiles)
  \/ d.after.is \notin {"none", "string", "list"}
  \/ withVars /\ d.vars \notin {"none", "strings"}
AfterNames(d) == IF d.after.is = "none" THEN <<>> ELSE SelectSeq(d.after.names, LAMBDA n : n # "number")

\* parse_str, and parse_str_with_vars.
Failed(d, withVars) ==
  d.is # "mapping" \/ MetaError(d, withVars) \/ \E n \in DOMAIN WrittenPaths(d) : GroupError(GroupOf(d, WrittenPaths(d)[n]))
CompilePathGroup(d, p) ==
  [path |-> p, ops |-> GroupOps(GroupOf(d, p)), after |-> AfterNames(d),
   matched |-> d.when.is = "none" \/ d.when.holds, condition |-> TRUE, filed |-> TRUE]
Patches(d) == [n \in DOMAIN WrittenPaths(d) |-> CompilePathGroup(d, WrittenPaths(d)[n])]

(* The keys of operations begin with a dollar, and a mapping has each of them once at most; values   *)
(* are JSON once they are converted, and what is to be put into a list is an array or one item.      *)
IsGroup(g) ==
  /\ IsList(g) /\ g # <<>>
  /\ \A n, m \in DOMAIN g : g[n].key = g[m].key /\ g[n].key \in OpKeys => n = m
  /\ \A n \in DOMAIN g : LET e == g[n] IN
       /\ e.dollar \in BOOLEAN /\ (e.key \in OpKeys => e.dollar)
       /\ e.val.is = "value" => IsField(Json(e.val)) /\ Json(e.val).kind # "absent"
       /\ e.val.is = "value" /\ e.key \in ListKeys => Json(e.val).kind \in {"array", "scalar"}
ASSUME DocumentAssumption ==
  /\ IsList(PathOrder) /\ Range(PathOrder) \subseteq Paths
  /\ \A x \in DOMAIN Guarding : Guarding[x].rule = "none" \/ Guarding[x].rule \in Items \ DOMAIN Guarding
  /\ \A d \in Documents : d.is = "mapping" => \A p \in Paths : Targets(d, p) # {} => IsGroup(GroupOf(d, p))
  /\ \A d \in Documents : d.when.is = "mapping" /\ d.when.compiles => d.when.holds \in BOOLEAN

DslInit == document \in Documents /\ parsed = "not yet" /\ program = <<>>
Parse(withVars) ==
  /\ parsed = "not yet"
  /\ parsed' = IF Failed(document, withVars) THEN "refused" ELSE "accepted"
  /\ program' = IF Failed(document, withVars) THEN <<>> ELSE Patches(document)
  /\ UNCHANGED <<document, base, config, place, todo, traces, snapshots, alike>>

DslStart == DslInit /\ base \in Bases /\ config = base /\ place = 0 /\ todo = <<>> /\ traces = <<>> /\ snapshots = <<>> /\ alike = TRUE
\* A document is parsed, and its patches run.
DslStep == (\E withVars \in BOOLEAN : Parse(withVars)) \/ (parsed # "not yet" /\ Next /\ UNCHANGED dslVars)
DslSpec == DslStart /\ [][DslStep]_<<vars, dslVars>>

-----------------------------------------------------------------------------
(* A document means what is written in it: if it is accepted, each path it names has one patch,      *)
(* whose operations are those written under the path and nothing else, in the documented order when  *)
(* they run; $override stands alone, no expression reads a runtime field by p.f or p['f'], and no    *)
(* rule of a list that is switched off is inserted: patches the executor can run.  A refused document  *)
(* applies nothing.  Exceptions: plain keys beside operations, they are lost; a field read by its bare *)
(* name, or by p.f in code that a quote in a regex hides; a conditional rule that is no list's item,    *)
(* inserted whatever it says.  (parser.rs:62, :376, :756-799, :1060-1072)                             *)
DocumentMeaning ==
  /\ parsed = "refused" => program = <<>>
  /\ parsed = "accepted" =>
     /\ [n \in DOMAIN program |-> program[n].path] = WrittenPaths(document)
     /\ \A n \in DOMAIN program : LET q == program[n]  g == GroupOf(document, q.path) IN
        /\ IsPatch(q)
        /\ \A e \in Range(g) : e.dollar => \E o \in Range(q.ops) : o.op = OpName[e.key]
        /\ Len(q.ops) = Cardinality({k \in DOMAIN g : g[k].dollar}) + (IF \E e \in Range(g) : e.dollar THEN 0 ELSE 1)
        /\ (\E o \in Range(q.ops) : o.op = "override") => Len(g) = 1
        /\ \A e \in Range(g) : e.key \in PredicateOps => \A m \in DOMAIN e.val.mentions :
             e.val.mentions[m].by \in {"dot", "bracket"} /\ e.val.mentions[m].where \in {"code", "template expression"} =>
               e.val.mentions[m].field \notin RuntimeFields
        /\ \A o \in Range(q.ops) : o.op \in {"prepend", "append"} /\ o.val.kind = "array" =>
             \A x \in Range(o.val.items) : x \in DOMAIN Guarding => Guarding[x].enabled # "false"
=============================================================================
