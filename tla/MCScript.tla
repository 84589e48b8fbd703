------------------------------ MODULE MCScript ------------------------------
(* The three parts of the script crate, one after the choice of `part`. *)
EXTENDS KvStore, ScriptRuntime, ScriptApi

MCOf == [t \in Threads |-> IF t = "t3" THEN "i2" ELSE "i1"]
MCRuntimeOf == [c \in Callers |-> "r"]
MCKinds == [c \in Callers |-> IF c = "a" THEN {"execute"} ELSE {"write"}]

Scalar(t, v) == [q \in {<<>>} |-> Node(t, v)]
Tree(nodes) == [q \in {<<>>} \cup DOMAIN nodes |-> IF q = <<>> THEN Node("object", "-") ELSE nodes[q]]
MCDocuments ==
  {Tree([q \in {<<"dns">>, <<"dns", "0">>, <<"dns", "on">>, <<"mode">>, <<"rules">>, <<"rules", "0">>, <<"rules", "0", "to">>, <<"old">>} |->
     CASE q = <<"dns">> -> Node("object", "-") [] q = <<"dns", "0">> -> Node("string", "a")
       [] q = <<"dns", "on">> -> Node("bool", "true")
       [] q = <<"mode">> -> Node("string", "rule") [] q = <<"rules">> -> Node("array", "-")
       [] q = <<"rules", "0">> -> Node("object", "-") [] q = <<"rules", "0", "to">> -> Node("string", "DIRECT")
       [] q = <<"old">> -> Node("null", "-")])}
MCSetKeys ==
  {<<"">>, <<"dns">>, <<"dns", "on">>, <<"dns", "new">>, <<"new", "a", "b">>, <<"new", "0", "b">>, <<"mode">>, <<"mode", "x">>,
   <<"old">>, <<"old", "x">>, <<"rules", "0">>, <<"rules", "0", "to">>, <<"rules", "1">>, <<"rules", "to">>, <<"rules[0]">>,
   <<"rules[0]", "to">>, <<"dns", "0">>, <<"dns", "__when__">>, <<"dns", "..">>, <<"dns", "a", "b", "c">>}
MCSetValues == {Scalar("string", "s"), Scalar("bool", "false"), NullTree,
                Tree([q \in {<<"on">>} |-> Node("string", "t")])}
MCAccess == [s \in {"rules[0]"} |-> <<"rules", "0">>]
MCStartProxies == <<[name |-> "x", port |-> 2], [name |-> "y", port |-> 1], [name |-> "x", port |-> 1]>>
MCStartRules == {[kind |-> "list", items |-> <<"r1", "object", "r2">>], [kind |-> "absent", items |-> <<>>],
                 [kind |-> "null", items |-> <<>>]}
MCNewRules == {<<"r3">>, <<"r1", "r3">>}
MCStartGroups == <<[name |-> "auto", members |-> <<"x">>]>>
MCRenamed == [n \in Names |-> IF n = "x" THEN "y" ELSE n]

VARIABLE part
MCInit ==
  /\ part \in {"store", "runtime", "config", "lists"}
  /\ KvInit /\ RtInit /\ ApiInit
  /\ part \in {"store", "runtime", "config"} => rules = [kind |-> "absent", items |-> <<>>]
MCNext ==
  \/ part = "store" /\ KvNext /\ UNCHANGED <<rtVars, apiVars, part>>
  \/ part = "runtime" /\ RtNext /\ UNCHANGED <<kvVars, apiVars, part>>
  \/ part \in {"config", "lists"} /\ ApiNext /\ UNCHANGED <<kvVars, rtVars, part>>
       /\ (IF part = "lists" THEN doc' = doc /\ said' = said ELSE UNCHANGED <<proxies, rules, groups, callback>>)
MCSpec == MCInit /\ [][MCNext]_<<kvVars, rtVars, apiVars, part>> /\ RtFairness

=============================================================================
