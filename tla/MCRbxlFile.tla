------------------------------- MODULE MCRbxlFile -------------------------------
(***************************************************************************)
(* Small files: every kind of chunk, with and without compression; two     *)
(* groups of one class; properties of no group and of too many or too few  *)
(* instances; chunks behind an END chunk; trailing content; no END chunk;  *)
(* another version; arrays that cannot be written.  They are cut at every  *)
(* byte.                                                                   *)
(***************************************************************************)
EXTENDS RbxlFile

Chunk(sig, compressed, fields) == [sig |-> signature[sig], compressed |-> compressed] @@ fields
Inst(class, ids, services, z) ==
  Chunk("INST", z, [class |-> class, name |-> <<40>>, isService |-> services # <<>>,
                    ids |-> ids, getService |-> services])
Prop(class, array, z) ==
  Chunk("PROP", z, [class |-> class, name |-> <<41, 42>>, properties |-> array])
Array(t, values) == [type |-> t, inner |-> "none", values |-> values]
Prnt(children, parents) ==
  Chunk("PRNT", FALSE, [version |-> 0, children |-> children, parents |-> parents])
Meta == Chunk("META", TRUE, [values |-> << <<<<1>>, <<2, 3>>>> >>])
Shared == Chunk("SSTR", FALSE, [version |-> 0, values |-> <<[hash |-> <<7, 8>>, value |-> <<5>>]>>])
Other(z) == [sig |-> 63, compressed |-> z, content |-> <<3, 4>>]
End(content, z) == Chunk("END", z, [content |-> content])

Model(cs, tail, version) ==
  [version |-> version, classCount |-> 1, instanceCount |-> 2, chunks |-> cs,
   trailing |-> tail]

MCModels ==
  {Model(<<Meta, Inst(0, <<1, 2>>, <<>>, FALSE), Prop(0, Array("Int", <<<<5>>, <<0>>>>), TRUE),
           Prnt(<<1, 2>>, <<Modulus(zu32) - 1, 1>>), End(endContent, FALSE)>>, <<>>, 0),
   Model(<<Inst(0, <<1>>, <<1>>, TRUE), Inst(0, <<1, 2>>, <<>>, FALSE),
           Prop(0, Array("Bool", <<<<1>>>>), FALSE), Prop(0, Array("Bool", <<<<1>>, <<0>>, <<1>>>>), FALSE),
           Prop(1, Array("Bool", <<<<1>>>>), TRUE), End(<<>>, TRUE)>>, <<9>>, 0),
   Model(<<Other(TRUE), Shared, End(endContent, FALSE), Inst(0, <<3>>, <<>>, TRUE)>>, <<6, 7>>, 0),
   Model(<<End(<<1>>, TRUE), End(endContent, TRUE)>>, <<>>, 0),
   Model(<<Inst(2, <<>>, <<>>, FALSE), Prop(2, NoArray, FALSE), Prnt(<<>>, <<>>), Other(FALSE)>>,
         <<1>>, 0),
   Model(<<Prnt(<<1>>, <<>>), End(endContent, FALSE)>>, <<>>, 0),
   Model(<<End(endContent, FALSE)>>, <<>>, 1)}

===============================================================================
