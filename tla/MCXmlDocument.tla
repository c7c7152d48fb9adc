----------------------------- MODULE MCXmlDocument -----------------------------
(***************************************************************************)
(* Documents of one or two tags under the root, with every text a space or *)
(* an escape can go wrong in, names of every kind, and all formats; and    *)
(* texts of up to three pieces under the root, in any order, so that tags, *)
(* attributes, entities, comments and CDATA are cut off anywhere.          *)
(***************************************************************************)
EXTENDS XmlDocument

Texts ==
  {<<>>, <<"a">>, <<" ", "nl", "a">>, <<"a", " ">>, <<"a", "<", "&", "cr", "nl">>,
   <<"cr", "a", "cr", "'", "tab">>, <<"]", "]", ">", "ctl">>, <<"tab">>}
Attr(name, val) == [name |-> name, value |-> val]
Named(start, text) == Tag(start, <<>>, <<>>, text, <<>>)
Empty(attr) == [Tag(<<"a">>, attr, <<>>, <<"a">>, <<>>) EXCEPT !.empty = TRUE]
Comment(text) == [Named(<<>>, text) EXCEPT !.comment = TRUE]
Tight(tag) == [tag EXCEPT !.noIndent = TRUE]

Singles ==
  {Named(<<"a">>, text) : text \in Texts}
    \cup {Tag(<<"a">>, <<Attr(<<"b">>, text), Attr(<<"b", "/">>, <<"1">>)>>, <<>>, <<>>, <<>>) : text \in Texts}
    \cup {Tag(<<"a">>, <<>>, <<text>>, <<" ", "b">>, <<>>) : text \in Texts}
    \cup {Comment(text) : text \in {<<>>, <<"a", "-">>, <<"a", " ", "-", "-">>, <<" ">>, <<"<">>}}
    \cup {Named(start, <<>>) : start \in {<<>>, <<"a", " ">>, <<"/", "a">>, <<"!", "-">>, <<"=", "<", "\"">>,
                                         <<"!", "-", "-">>, <<"!", "[", "C", "[">>, <<"a", "/">>}}
    \cup {Tag(<<"a">>, <<Attr(name, <<"1">>)>>, <<>>, <<>>, <<>>) :
            name \in {<<>>, <<"=">>, <<"/">>, <<"b", "/">>, <<"\"">>, <<"<">>}}
    \cup {Empty(<<>>), Empty(<<Attr(<<"b">>, <<" ">>)>>), Empty(<<Attr(<<"=">>, <<>>)>>)}
    \cup {[Named(<<"a">>, <<>>) EXCEPT !.end = end] : end \in {<<"b">>, <<" ">>}}
Nests ==
  {Tag(<<"b">>, <<>>, <<>>, text, <<Named(<<"a">>, <<" ">>), sub>>) :
     text \in {<<>>, <<" ", "a", " ">>},
     sub \in {Named(<<"a">>, <<"a">>), Named(<<>>, <<>>), Comment(<<"a">>), Tight(Named(<<"b">>, <<>>))}}
Rooted(tags, cdata, text) == Tag(<<"R">>, <<Attr(<<"V">>, <<"4">>)>>, cdata, text, tags)
Roots ==
  {Rooted(<<sub>>, <<>>, <<>>) : sub \in Singles}
    \cup {Rooted(<<sub, other>>, cdata, text) :
            sub \in Nests \cup {Tight(nest) : nest \in Nests}, other \in {Named(<<"a">>, <<>>), Named(<<>>, <<>>)},
            cdata \in {<<>>, <<<<"a">>>>, <<<<>>>>}, text \in {<<>>, <<"cr", "a", "nl">>}}
    \cup {Tight(Rooted(<<>>, <<>>, <<"a">>)), Comment(<<"a">>), Named(<<"R">>, <<>>), Named(<<"a">>, <<>>)}
MCWritten ==
  {[NoDocument EXCEPT !.prefix = format[1], !.indent = format[2], !.suffix = format[3],
                      !.excludeRoot = format[4], !.root = <<root>>] :
     root \in Roots,
     format \in {<<<<>>, <<>>, <<>>, FALSE>>, <<<<>>, <<"tab">>, <<"nl">>, FALSE>>,
                 <<<<" ">>, <<" ">>, <<>>, FALSE>>, <<<<"nl">>, <<>>, <<"<", "a">>, FALSE>>,
                 <<<<>>, <<" ">>, <<>>, TRUE>>}}

Pieces ==
  {<<"<", "a", ">">>, <<"<", "/", "a", ">">>, <<"<", "a", " ", "b", "=", "\"", "a", "\"">>, <<"/", ">">>,
   <<"<", "a", "/", ">">>, <<"<", "!", "-", "-">>, <<"-", "-", ">">>, <<"<", "!", "[", "C", "[">>,
   <<"]", "]", ">">>, <<"<", "!", "-">>, <<"<", "!", "[">>, <<"&", "l", ";">>, <<"&", "#", "3", ";">>,
   <<"&", "#", "x", "a", ";">>, <<"&", "#", "9", ";">>, <<"&", "a">>, <<"&", "#">>, <<"<", "a", " ", "b">>,
   <<" ", "nl">>, <<"cr", "nl">>, <<"-">>, <<"]">>, <<">">>, <<"<">>, <<"b">>}
Head0 == <<"<", "R", " ", "V", "=", "\"", "4", "\"", ">">>
Tail0 == <<"<", "/", "R", ">">>
MCSources ==
  {Head0 \o p \o q \o r \o Tail0 : p \in Pieces, q \in Pieces, r \in Pieces}
    \cup {lead \o Head0 \o <<"<", "!", "[", "C", "[", "]", "]", ">">> \o lines \o p \o Tail0 \o <<"a">> :
            lead \in {<<>>, <<" ">>, <<"nl">>}, p \in Pieces,
            lines \in {<<"nl", " ">>, <<" ", "nl", " ", "tab">>, <<"nl", "nl">>}}
    \cup {SubSeq(Head0, 1, n) \o p \o q : n \in 0 .. 8, p \in Pieces, q \in Pieces}

===============================================================================
