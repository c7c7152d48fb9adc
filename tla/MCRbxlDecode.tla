----------------------------- MODULE MCRbxlDecode -----------------------------
(* Every file of at most five chunks, END included, made of the chunks     *)
(* below: groups that clash in their class or in their instances, that are *)
(* empty or out of bounds, links to the root, to itself, to an instance    *)
(* that does not exist or is out of bounds.  The first header is the       *)
(* regular one, the others are the ways a header is refused.               *)
EXTENDS RbxlDecode

Regular ==
  [signature |-> "binary", intact |-> TRUE, version |-> 0,
   classCount |-> 2, instanceCount |-> 2, reserved |-> TRUE, noXML |-> FALSE]

MCHeaders == {
  Regular,
  [Regular EXCEPT !.signature = "xml"],
  [Regular EXCEPT !.signature = "xml", !.noXML = TRUE],
  [Regular EXCEPT !.signature = "other"],
  [Regular EXCEPT !.intact = FALSE],
  [Regular EXCEPT !.version = 1] }

MCIds == -1 .. 2
MCClassIDs == 0 .. 2
MCNames == {"p"}
MCMaxChunks == 5

Group(class, ids, getService) ==
  [sig |-> "INST", class |-> class, ids |-> ids,
   isService |-> getService # <<>>, getService |-> getService]

MCInstChunks == {
  Group(0, <<0>>, <<>>),
  Group(0, <<1, 0>>, <<0, 1>>),
  Group(1, <<1>>, <<>>),
  Group(1, <<>>, <<>>),
  Group(1, <<2>>, <<>>),
  Group(1, <<1, 1>>, <<>>),
  Group(2, <<>>, <<>>) }

Links(version, children_, parents_) ==
  [sig |-> "PRNT", version |-> version, children |-> children_, parents |-> parents_]

MCPrntChunks == {
  Links(0, <<0, 1>>, <<-1, 0>>),
  Links(0, <<1, 1>>, <<1, 0>>),
  Links(0, <<2>>, <<0>>),
  Links(1, <<>>, <<>>) }

MCMetaChunks == {[sig |-> "META", values |-> <<<<1, 2>>, <<1, 3>>>>]}
MCSstrChunks == {[sig |-> "SSTR", values |-> <<7>>]}

MCRaw == [kind \in {"reference", "shared", "optional", "nested", "value"} |->
            CASE kind = "reference" -> {0, 1}
              [] kind = "shared" -> {0, 1}
              [] kind = "optional" -> {5}
              [] kind = "nested" -> {nilValue}
              [] kind = "value" -> {5, 6}]
===============================================================================
