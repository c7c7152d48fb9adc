---------------------------- MODULE MCRbxlRoundTrip ----------------------------
(* Three instances, two classes, two properties.  One family of roots has  *)
(* every combination of three values in a property of two trees whose      *)
(* class order is that of the instances or the opposite; the other varies  *)
(* the forest, the services and the metadata.                              *)
EXTENDS RbxlRoundTrip

MCInstances == 1 .. 3
MCClasses == 1 .. 2
MCNames == 1 .. 2

V(type, value) == [type |-> type, inner |-> "invalid", value |-> value]
Some(inner, value) == [type |-> "some", inner |-> inner, value |-> value]

MCValues == {
  Absent, V("reference", 2), V("shared", 5), Some("value", 7), NoneOf("value"),
  Some("packed", 7), Some("reference", 2), Some("optional", 0),
  V("value", 7), V("unique", 7), V("invalid", 0) }

RootOf(mode, instances, children_, class, services_, first, second, metadata_) ==
  [mode |-> mode, instances |-> instances, children |-> children_, class |-> class,
   services |-> services_,
   properties |-> [inst \in MCInstances |-> <<first[inst], second[inst]>>],
   metadata |-> metadata_]

ValueRoots ==
  {RootOf(mode, <<1, 3>>, <<<<2>>, <<>>, <<>>>>, class, {1}, first,
          <<Absent, V("shared", 5), Absent>>, {}) :
     <<mode, class>> \in {<<"place", <<1, 1, 1>>>>, <<"model", <<1, 1, 1>>>>,
                          <<"place", <<2, 1, 2>>>>},
     first \in [MCInstances -> MCValues]}

(* Root instances and children: a chain, siblings, two roots, an instance  *)
(* outside that is referred to, none at all; then an instance under two    *)
(* parents, one that is twice a root, and nil as a child and as a root.    *)
Forests == {
  <<<<1>>, <<<<2>>, <<3>>, <<>>>>>>,
  <<<<1>>, <<<<3, 2>>, <<>>, <<>>>>>>,
  <<<<2, 1>>, <<<<>>, <<3>>, <<>>>>>>,
  <<<<1>>, <<<<2>>, <<>>, <<1>>>>>>,
  <<<<>>, <<<<>>, <<>>, <<>>>>>>,
  <<<<1>>, <<<<2, 3>>, <<3>>, <<>>>>>>,
  <<<<1, 1>>, <<<<>>, <<>>, <<>>>>>>,
  <<<<1>>, <<<<Nil>>, <<>>, <<>>>>>>,
  <<<<Nil>>, <<<<>>, <<>>, <<>>>>>> }

ForestRoots ==
  {RootOf(mode, forest[1], forest[2], class, services_,
          <<V("reference", 3), V("reference", Nil), V("reference", 1)>>,
          <<V("shared", 5), V("shared", 0), V("shared", 5)>>, metadata_) :
     mode \in {"place", "model"}, forest \in Forests,
     class \in {<<1, 1, 1>>, <<2, 1, 2>>, <<1, 2, 2>>}, services_ \in {{}, {1, 2}, {3}},
     metadata_ \in {{}, {<<1, 2>>}, {<<1, 2>>, <<2, 3>>}}}

MCRoots == ValueRoots \cup ForestRoots

-------------------------------------------------------------------------------

MCClassIDs == 0 .. 2
MCIds == -1 .. 2
MCMaxChunks == 10

Ascending == {s \in UNION {[1 .. n -> 0 .. 2] : n \in 1 .. 3} :
                \A i, j \in DOMAIN s : i < j => s[i] < s[j]}
MCInstChunks ==
  UNION {{[sig |-> "INST", class |-> class, ids |-> ids, isService |-> getService # <<>>,
           getService |-> getService] :
          class \in MCClassIDs, getService \in {<<>>} \cup [DOMAIN ids -> {0, 1}]} :
         ids \in Ascending}

Permutation(n) ==
  {s \in [1 .. n -> 0 .. n - 1] : \A i, j \in 1 .. n : s[i] = s[j] => i = j}
MCPrntChunks ==
  UNION {{[sig |-> "PRNT", version |-> 0, children |-> children_, parents |-> parents_] :
          children_ \in Permutation(n), parents_ \in [1 .. n -> -1 .. n - 1]} : n \in 0 .. 3}

MCMetaChunks ==
  {[sig |-> "META", values |-> values] :
     values \in {<<<<1, 2>>>>, <<<<1, 2>>, <<2, 3>>>>, <<<<2, 3>>, <<1, 2>>>>}}
MCSstrChunks ==
  {[sig |-> "SSTR", values |-> values] : values \in {<<0>>, <<5>>, <<0, 5>>, <<5, 0>>}}

MCRaw == [kind \in {"reference", "shared", "optional", "nested", "value"} |->
            CASE kind = "reference" -> -1 .. 2
              [] kind = "shared" -> 0 .. 1
              [] OTHER -> {0, 7}]

MCHeaders ==
  {[signature |-> "binary", intact |-> intact, version |-> 0,
    classCount |-> classCount, instanceCount |-> instanceCount,
    reserved |-> FALSE, noXML |-> FALSE] :
     intact \in BOOLEAN, classCount \in 0 .. 2, instanceCount \in 0 .. 3}
===============================================================================
