------------------------------ MODULE XmlDocument ------------------------------
(***************************************************************************)
(* XML documents (rbxlx/document.go): WriteTo and ReadFrom.                *)
(*                                                                         *)
(* Text is a sequence of characters.  "nl", "cr", "tab" and "ctl" (for     *)
(* what is not printed) are characters, and so is what takes several in    *)
(* the program: the word CDATA ("C"), the names roblox ("R") and version   *)
(* ("V"), the name of an entity (in Entity) and the number of a character  *)
(* (in Code).  Lines are not counted, and writing never fails.             *)
(***************************************************************************)
EXTENDS Integers, SequencesExt

CONSTANTS
  Sources,      \* texts that are read
  Written       \* documents that are written

VARIABLES
  at,           \* write; start, content, tags, suffix; read or error
  document,     \* the documentRoot
  before,       \* (history) <<>>, or <<document>> before it was written
  source,       \* the text to read
  stream,       \* decoder: r, nextByte and err
  open          \* the calls of decodeTag that have not returned

vars == <<at, document, before, source, stream, open>>

Spaces == {" ", "nl", "cr", "tab"}
isNameByte(b, kind) ==
  /\ b \notin Spaces \cup {"ctl", ">"}
  /\ kind = "attr" => b # "="
  /\ kind = "entity" => b # ";"

Entity == [l |-> "<", g |-> ">", m |-> "&", p |-> "'", q |-> "\""]
Digits == {"1", "2", "3", "4", "5", "9"}
Known == Digits \ {"9"}         \* 9 is a number no character has
Code(digit) ==
  CASE digit = "1" -> " " [] digit = "2" -> "nl" [] digit = "3" -> "cr"
    [] digit = "4" -> "tab" [] digit = "5" -> "ctl"

(* A tag, whose CData is <<>>, or <<text>> if it has any.                  *)
Tag(start, attr, cdata, text, tags) ==
  [start |-> start, end |-> <<>>, attr |-> attr, empty |-> FALSE, comment |-> FALSE,
   cdata |-> cdata, text |-> text, noIndent |-> FALSE, tags |-> tags]
NewTag == Tag(<<>>, <<>>, <<>>, <<>>, <<>>)

-------------------------------------------------------------------------------
(* WriteTo.  What is written is e: [out, depth, warnings].                 *)
Escape(b) ==
  CASE b \in {Entity[name] : name \in DOMAIN Entity} ->
         <<"&", CHOOSE name \in DOMAIN Entity : Entity[name] = b, ";">>
    [] b \in {"tab", "ctl"} -> <<"&", "#", CHOOSE d \in Known : Code(d) = b, ";">>
    [] OTHER -> <<b>>
Numbered(b) == <<"&", "#", CHOOSE d \in Known : Code(d) = b, ";">>

(* Mutant: spaces in front are not escaped.                                *)
MutEscaped(s, lead) == FlattenSeq([i \in DOMAIN s |-> Escape(s[i])])
Escaped(s, lead) ==
  FlattenSeq([i \in DOMAIN s |->
    IF lead /\ \A j \in 1 .. i : s[j] \in Spaces THEN Numbered(s[i]) ELSE Escape(s[i])])

checkName(name, kind) == name # <<>> /\ \A i \in DOMAIN name : isNameByte(name[i], kind)

Put(e, s) == [e EXCEPT !.out = @ \o s]
Warned(e, times) == [e EXCEPT !.warnings = @ + times]
Indented(e, delta, notag) ==
  LET depth == e.depth + delta IN
  IF document.prefix = <<>> /\ document.indent = <<>> THEN e
  ELSE [Put(e, IF notag THEN <<>>
               ELSE <<"nl">> \o document.prefix \o FlattenSeq([i \in 1 .. depth |-> document.indent]))
          EXCEPT !.depth = depth]

WellNamed(attr) == SelectSeq(attr, LAMBDA a : checkName(a.name, "attr"))
Attributes(attr) ==
  FlattenSeq([i \in DOMAIN attr |->
    <<" ">> \o attr[i].name \o <<"=", "\"">> \o Escaped(attr[i].value, FALSE) \o <<"\"">>])
StartOf(e, tag) ==
  LET attr == WellNamed(tag.attr)
      malformed == IF tag.end = <<>> \/ checkName(tag.end, "tag") THEN 0 ELSE 1
  IN  Warned(Put(e, <<"<">> \o tag.start \o Attributes(attr)
                      \o (IF tag.empty THEN <<"/", ">">> ELSE <<">">>)),
             malformed + Len(tag.attr) - Len(attr))
EndName(tag) == IF checkName(tag.end, "tag") THEN tag.end ELSE tag.start
CDataOf(tag) ==
  IF tag.cdata = <<>> THEN <<>> ELSE <<"<", "!", "[", "C", "[">> \o tag.cdata[1] \o <<"]", "]", ">">>

(* encodeTag.  A tag without a name is left out.                           *)
RECURSIVE EncodeTag(_, _, _, _)
EncodeTag(e, tag, noTags, noIndent) ==
  LET plain == noIndent \/ tag.noIndent
      started == Put(IF noTags THEN e ELSE StartOf(e, tag), CDataOf(tag))
      indented == IF plain \/ tag.tags = <<>> THEN started
                  ELSE Indented(started, IF noTags THEN 0 ELSE 1, noTags)
      Sub(f, i) ==
        LET g == EncodeTag(f, tag.tags[i], FALSE, plain)
            last == i = Len(tag.tags)
        IN  IF plain \/ (~tag.tags[i].comment /\ ~checkName(tag.tags[i].start, "tag")) THEN g
            ELSE Indented(g, IF last /\ ~noTags THEN -1 ELSE 0, last /\ noTags)
      filled == FoldLeft(Sub, Put(indented, Escaped(tag.text, TRUE)), [i \in DOMAIN tag.tags |-> i])
  IN  CASE tag.comment ->
             Put(e, <<"<", "!", "-", "-">> \o Escaped(tag.text, TRUE) \o <<"-", "-", ">">>)
        [] ~tag.comment /\ ~noTags /\ ~checkName(tag.start, "tag") -> Warned(e, 1)
        [] ~tag.comment /\ tag.empty /\ ~noTags -> StartOf(e, tag)
        [] OTHER -> IF noTags THEN filled ELSE Put(filled, <<"<", "/">> \o EndName(tag) \o <<">">>)

NoDocument == [prefix |-> <<>>, indent |-> <<>>, suffix |-> <<>>, excludeRoot |-> FALSE,
               root |-> <<>>, warnings |-> 0]
Unread == [next |-> <<>>, rest |-> <<>>, err |-> "none"]

(* A root is <<>>, or <<tag>>.  Then what was written is read.             *)
WriteTo ==
  /\ at = "write"
  /\ LET root == document.root[1]
         e == EncodeTag([out |-> document.prefix, depth |-> 0, warnings |-> 0], root,
                        document.excludeRoot, root.noIndent)
     IN  /\ source' = e.out \o document.suffix
         /\ before' = <<[document EXCEPT !.warnings = e.warnings]>>
  /\ stream' = [Unread EXCEPT !.rest = source']
  /\ document' = NoDocument /\ open' = <<>> /\ at' = "start"

-------------------------------------------------------------------------------
(* The decoder reads one character at a time and puts back what it does    *)
(* not want: getc, mustgetc and ungetc.                                    *)
End == "end"
Byte(s) ==
  CASE s.err # "none" -> End
    [] s.err = "none" /\ s.next # <<>> -> Last(s.next)
    [] s.err = "none" /\ s.next = <<>> /\ s.rest # <<>> -> Head(s.rest)
    [] OTHER -> End
getc(s) ==
  CASE s.err # "none" -> s
    [] s.err = "none" /\ s.next # <<>> -> [s EXCEPT !.next = Front(@)]
    [] s.err = "none" /\ s.next = <<>> /\ s.rest # <<>> -> [s EXCEPT !.rest = Tail(@)]
    [] OTHER -> [s EXCEPT !.err = "EOF"]
mustgetc(s) == IF getc(s).err = "EOF" THEN [s EXCEPT !.err = "syntax"] ELSE getc(s)
ungetc(s, b) == [s EXCEPT !.next = Append(@, b)]
Peeked(s) == ungetc(getc(s), Byte(s))
Wrong(s) == [s EXCEPT !.err = "syntax"]

Read(s, text) == [ok |-> TRUE, s |-> s, text |-> text]
Failed(s) == [ok |-> FALSE, s |-> s, text |-> <<>>]

RECURSIVE SpaceFrom(_, _)
SpaceFrom(s, buf) ==
  CASE Byte(s) = End -> Read(getc(s), buf)
    [] Byte(s) \in Spaces -> SpaceFrom(getc(s), Append(buf, Byte(s)))
    [] OTHER -> Read(Peeked(s), buf)
readSpace(s) == SpaceFrom(s, <<>>)
space(s) == readSpace(s).s

(* match: what does not match is put back, last character first.  Mutant:  *)
(* in the order it was read.                                               *)
MutPutBack(s, b, text) == [s EXCEPT !.next = (@ \o <<b>>) \o text]
PutBack(s, b, text) == [s EXCEPT !.next = (@ \o <<b>>) \o Reverse(text)]
RECURSIVE MatchFrom(_, _, _)
MatchFrom(s, word, i) ==
  CASE i > Len(word) -> Read(s, word)
    [] i <= Len(word) /\ Byte(s) = End -> Failed(getc(s))
    [] i <= Len(word) /\ Byte(s) = word[i] -> MatchFrom(getc(s), word, i + 1)
    [] OTHER -> Failed(PutBack(getc(s), Byte(s), SubSeq(word, 1, i - 1)))
match(s, word) == MatchFrom(s, word, 1)

RECURSIVE NameFrom(_, _, _)
NameFrom(s, kind, buf) ==
  CASE Byte(s) = End -> Failed(mustgetc(s))
    [] Byte(s) # End /\ isNameByte(Byte(s), kind) -> NameFrom(getc(s), kind, Append(buf, Byte(s)))
    [] OTHER -> [ok |-> buf # <<>>, s |-> Peeked(s), text |-> buf]
readName(s, kind) == NameFrom(s, kind, <<>>)

(* A character by its number, and an entity by its name, up to and with    *)
(* the semicolon.  What is not known stays as it is, the & included.       *)
RECURSIVE DigitsFrom(_, _, _)
DigitsFrom(s, hex, buf) ==
  IF Byte(s) \in Digits \/ (hex /\ Byte(s) = "a") THEN DigitsFrom(getc(s), hex, Append(buf, Byte(s)))
  ELSE Read(s, buf)
NumberFrom(s) ==
  LET hex == Byte(s) = "x"
      digits == DigitsFrom(IF hex THEN getc(s) ELSE s, hex, <<>>)
      text == <<"&", "#">> \o (IF hex THEN <<"x">> ELSE <<>>) \o digits.text
  IN  CASE Byte(digits.s) = End -> Failed(mustgetc(digits.s))
        [] Byte(digits.s) = ";" ->
             Read(getc(digits.s),
                  IF Len(digits.text) = 1 /\ digits.text[1] \in Known THEN <<Code(digits.text[1])>>
                  ELSE text \o <<";">>)
        [] OTHER -> Read(Peeked(digits.s), text)
EntityFrom(s) ==
  LET name == readName(Peeked(s), "entity")
  IN  CASE Byte(s) = End -> Failed(mustgetc(s))
        [] Byte(s) = "#" -> NumberFrom(getc(s))
        [] OTHER ->
             CASE Byte(name.s) = End -> Failed(mustgetc(name.s))
               [] Byte(name.s) = ";" ->
                    Read(getc(name.s),
                         IF Len(name.text) = 1 /\ name.text[1] \in DOMAIN Entity
                           THEN <<Entity[name.text[1]]>> ELSE <<"&">> \o name.text \o <<";">>)
               [] OTHER -> Read(Peeked(name.s), <<"&">> \o name.text)

(* text: of a tag, of an attribute up to the quote, or of CDATA.  A cr, or *)
(* a cr and an nl, become an nl.                                           *)
RECURSIVE TextFrom(_, _, _, _, _)
TextFrom(s, kind, buf, b0, b1) ==
  LET b == Byte(s)
      t == getc(s)
      ends == b0 = "]" /\ b1 = "]" /\ b = ">"
      entity == EntityFrom(t)
      all == CASE b = "cr" -> Append(buf, "nl")
               [] b = "nl" /\ b1 = "cr" -> buf
               [] OTHER -> Append(buf, b)
  IN  CASE b = End -> IF kind = "cdata" THEN Failed(mustgetc(s)) ELSE Read(t, buf)
        [] ends /\ kind = "cdata" -> Read(t, SubSeq(buf, 1, Len(buf) - 2))
        [] ends /\ kind = "text" -> Failed(Wrong(t))
        [] b = "<" /\ kind = "text" -> Read(ungetc(t, b), buf)
        [] b = "\"" /\ kind = "quoted" -> Read(t, buf)
        [] b = "&" /\ kind # "cdata" ->
             IF ~entity.ok THEN Failed(entity.s)
             ELSE TextFrom(entity.s, kind, buf \o entity.text, "", "")
        [] OTHER -> TextFrom(t, kind, all, b1, b)
textOf(s, kind) == TextFrom(s, kind, <<>>, "", "")

-------------------------------------------------------------------------------
(* decodeStartTag gives -1 (an error), 0 (a tag to be ignored), 1, or 2 (a *)
(* comment).                                                               *)
Started(state, s, tag) == [state |-> state, s |-> s, tag |-> tag]
Broken(s) == Started(-1, s, NewTag)

RECURSIVE IgnoreStartTag(_, _)
IgnoreStartTag(s, tag) ==
  CASE Byte(s) = End -> Broken(mustgetc(s))
    [] Byte(s) = ">" -> Started(0, getc(s), tag)
    [] OTHER -> IgnoreStartTag(getc(s), tag)

RECURSIVE CommentFrom(_, _)
CommentFrom(s, buf) ==
  LET end == match(getc(s), <<"-", ">">>)
  IN  CASE Byte(s) = End -> Broken(mustgetc(s))
        [] Byte(s) = "-" ->
             IF end.ok THEN Started(2, end.s, [NewTag EXCEPT !.comment = TRUE, !.text = buf])
             ELSE CommentFrom(end.s, Append(buf, "-"))
        [] OTHER -> CommentFrom(getc(s), Append(buf, Byte(s)))

RECURSIVE AttributesFrom(_, _)
AttributesFrom(s0, tag) ==
  LET s == space(s0)
      slash == getc(s)
      name == readName(Peeked(s), "attr")
      equals == space(name.s)
      quote == space(getc(equals))
      val == textOf(getc(quote), "quoted")
  IN  CASE Byte(s) = End -> Broken(mustgetc(s))
        [] Byte(s) = ">" -> Started(1, getc(s), tag)
        [] Byte(s) = "/" ->
             CASE Byte(slash) = End -> Broken(mustgetc(slash))
               [] Byte(slash) = ">" -> Started(1, getc(slash), [tag EXCEPT !.empty = TRUE])
               [] OTHER -> IgnoreStartTag(getc(slash), [tag EXCEPT !.empty = TRUE])
        [] OTHER ->
             CASE ~name.ok -> IgnoreStartTag(name.s, tag)
               [] name.ok /\ Byte(equals) = End -> Broken(mustgetc(equals))
               [] name.ok /\ Byte(equals) \notin {End, "="} -> IgnoreStartTag(getc(equals), tag)
               [] OTHER ->
                    IF Byte(quote) # "\"" THEN Broken(Wrong(getc(quote)))
                    ELSE IF ~val.ok THEN Broken(val.s)
                    ELSE AttributesFrom(val.s,
                           [tag EXCEPT !.attr = Append(@, [name |-> name.text, value |-> val.text])])

DecodeStartTag(s) ==
  LET second == getc(s)
      dashes == match(getc(second), <<"-", "-">>)
      rest == IF Byte(second) = "!" THEN ungetc(dashes.s, "!") ELSE Peeked(second)
      name == readName(rest, "tag")
  IN  CASE Byte(s) = End -> Broken(getc(s))
        [] Byte(s) \notin {End, "<"} -> Broken(Wrong(second))
        [] Byte(s) = "<" /\ Byte(second) = End -> Broken(mustgetc(second))
        [] Byte(s) = "<" /\ Byte(second) = "/" -> Broken(Wrong(getc(second)))
        [] Byte(s) = "<" /\ Byte(second) = "!" /\ dashes.ok -> CommentFrom(dashes.s, <<>>)
        [] OTHER -> IF name.ok THEN AttributesFrom(name.s, [NewTag EXCEPT !.start = name.text])
                    ELSE IgnoreStartTag(name.s, NewTag)

(* The root must be a roblox tag of version 4 or later.  Mutant: whatever  *)
(* its version is.                                                         *)
Version(tag) == SelectSeq(tag.attr, LAMBDA a : a.name = <<"V">>)
MutAccepted(tag) == tag.start = <<"R">>
Accepted(tag) ==
  tag.start = <<"R">> /\ Version(tag) # <<>> /\ Version(tag)[1].value \in {<<"4">>, <<"5">>, <<"9">>}

Call(tag, ignored) == [tag |-> tag, ignored |-> ignored, noIndent |-> FALSE]

(* decodeTag returns no tag, <<>>, or <<tag>>.                             *)
Return(calls, result) ==
  IF calls = <<>>
    THEN open' = <<>> /\ at' = "suffix"
    ELSE /\ open' = [calls EXCEPT ![Len(calls)].tag.tags = @ \o result]
         /\ at' = "tags"

StartTag ==
  /\ at = "start"
  /\ LET root == open = <<>>
         lead == IF root THEN readSpace(stream) ELSE Read(stream, <<>>)
     IN  \E begun \in {DecodeStartTag(lead.s)} :
           LET tag == begun.tag
               ignored == begun.state = 0
               fails == begun.state = -1 \/ (root /\ begun.state # 2 /\ ~Accepted(tag))
               leaf == begun.state = 2 \/ tag.empty
               result == IF ignored THEN <<>> ELSE <<tag>>
           IN  /\ stream' = IF fails /\ begun.state # -1 THEN Wrong(begun.s) ELSE begun.s
               /\ document' = [document EXCEPT
                                 !.prefix = IF lead.text # <<>> THEN lead.text ELSE @,
                                 !.root = IF root /\ leaf /\ ~fails THEN result ELSE @,
                                 !.warnings = IF ignored THEN @ + 1 ELSE @]
               /\ CASE fails -> at' = "error" /\ UNCHANGED open
                    [] ~fails /\ leaf -> Return(open, result)
                    [] OTHER -> open' = Append(open, Call(tag, ignored)) /\ at' = "content"
  /\ UNCHANGED <<before, source>>

(* CDATA is an option; what begins like it is put back.                    *)
DecodeCData(s) ==
  LET opener == match(s, <<"<", "!", "[", "C", "[">>)
      text == textOf(opener.s, "cdata")
  IN  CASE opener.ok -> [text EXCEPT !.text = <<@>>]
        [] ~opener.ok /\ opener.s.err # "none" -> Failed(opener.s)
        [] OTHER -> Read(opener.s, <<>>)

(* The space behind the CDATA of the root shows the indentation, if it has *)
(* an nl and then the prefix.                                              *)
Detected(lead) ==
  IF ~Contains(lead, "nl") THEN document
  ELSE LET line == CHOOSE i \in DOMAIN lead : lead[i] = "nl" /\ \A j \in 1 .. i - 1 : lead[j] # "nl"
           rest == SubSeq(lead, line + 1, Len(lead))
       IN  IF IsPrefix(document.prefix, rest)
             THEN [document EXCEPT !.indent = SubSeq(rest, Len(document.prefix) + 1, Len(rest))]
             ELSE [document EXCEPT !.prefix = <<>>]

Content ==
  /\ at = "content"
  /\ LET cdata == DecodeCData(space(stream))
         lead == readSpace(cdata.s)
         text == textOf(lead.s, "text")
         formatted == document.prefix # <<>> \/ document.indent # <<>>
         read == [Last(open) EXCEPT !.tag.cdata = cdata.text, !.tag.text = text.text,
                                    !.noIndent = Len(open) > 1 /\ formatted /\ lead.text = <<>>]
     IN  IF ~cdata.ok THEN stream' = cdata.s /\ at' = "error" /\ UNCHANGED <<document, open>>
         ELSE /\ stream' = text.s
              /\ document' = IF Len(open) = 1 THEN Detected(lead.text) ELSE document
              /\ at' = IF text.ok THEN "tags" ELSE "error"
              /\ open' = [open EXCEPT ![Len(open)] = read]
  /\ UNCHANGED <<before, source>>

HasContent(tag) == tag.tags # <<>> \/ tag.text # <<>> \/ (tag.cdata # <<>> /\ tag.cdata # <<<<>>>>)

(* Another tag begins, ...                                                 *)
Inside == space(stream)
AtTag == at = "tags" /\ Byte(Inside) = "<" /\ Byte(getc(Inside)) # End
NextTag ==
  /\ AtTag /\ Byte(getc(Inside)) # "/"
  /\ stream' = ungetc(Peeked(getc(Inside)), "<")
  /\ at' = "start"
  /\ UNCHANGED <<document, before, source, open>>

(* ... or this one ends, whatever the name in the end tag is.              *)
EndTag ==
  /\ AtTag /\ Byte(getc(Inside)) = "/"
  /\ LET again == ungetc(Peeked(getc(Inside)), "<")
         name == readName(getc(getc(again)), "tag")
         last == space(name.s)
         call == Last(open)
         tag == [call.tag EXCEPT !.end = name.text, !.noIndent = HasContent(call.tag) /\ call.noIndent]
         result == IF call.ignored THEN <<>> ELSE <<tag>>
     IN  IF name.ok /\ Byte(last) = ">"
           THEN /\ stream' = getc(last)
                /\ document' = IF Len(open) = 1 THEN [document EXCEPT !.root = result] ELSE document
                /\ Return(Front(open), result)
           ELSE stream' = Wrong(name.s) /\ at' = "error" /\ UNCHANGED <<document, open>>
  /\ UNCHANGED <<before, source>>

NoTag ==
  /\ at = "tags" /\ ~AtTag
  /\ stream' = Wrong(Inside) /\ at' = "error"
  /\ UNCHANGED <<document, before, source, open>>

(* The rest is the suffix.                                                 *)
ReadSuffix ==
  /\ at = "suffix"
  /\ document' = [document EXCEPT !.suffix = Reverse(stream.next) \o stream.rest]
  /\ stream' = [Unread EXCEPT !.err = "EOF"]
  /\ at' = "read"
  /\ UNCHANGED <<before, source, open>>

(* What was read first is written again.                                   *)
WriteAgain ==
  /\ at = "read" /\ before = <<>> /\ document.root # <<>>
  /\ at' = "write"
  /\ UNCHANGED <<document, before, source, stream, open>>

Init ==
  /\ before = <<>> /\ open = <<>>
  /\ \/ /\ at = "write" /\ document \in Written
        /\ source = <<>> /\ stream = Unread
     \/ /\ at = "start" /\ document = NoDocument
        /\ source \in Sources /\ stream = [Unread EXCEPT !.rest = source]

ReadFrom == StartTag \/ Content \/ NextTag \/ EndTag \/ NoTag \/ ReadSuffix
Next == WriteTo \/ ReadFrom \/ WriteAgain
Spec == Init /\ [][Next]_vars

-------------------------------------------------------------------------------
(* What the decoder has put back, and then what it has not read yet, is    *)
(* the end of the text at every step, whatever was looked at and not       *)
(* wanted: nothing is lost, doubled or out of order (document.go:660-714). *)
NothingLost ==
  stream.err = "none" /\ at # "write" => IsSuffix(Reverse(stream.next) \o stream.rest, source)

(* Line ends that are not escaped.                                         *)
Lines(s) ==
  FlattenSeq([i \in DOMAIN s |->
    CASE s[i] = "cr" -> <<"nl">>
      [] s[i] = "nl" /\ i > 1 /\ s[i - 1] = "cr" -> <<>>
      [] OTHER -> <<s[i]>>])
LinesOfText(s) ==
  LET lead == {i \in DOMAIN s : \A j \in 1 .. i : s[j] \in Spaces}
      n == IF lead = {} THEN 0 ELSE CHOOSE i \in lead : \A j \in lead : j <= i
  IN  SubSeq(s, 1, n) \o Lines(SubSeq(s, n + 1, Len(s)))

(* A tag that can be written so that it is read: no name begins like the   *)
(* end of a tag, a comment or CDATA; CDATA does not hold its end; a        *)
(* comment has nothing to escape; and an empty tag has an attribute, or    *)
(* else its name would take the slash.                                     *)
Begins(name, word) == IsPrefix(word, name)
RECURSIVE Sound(_)
Sound(tag) ==
  IF tag.comment THEN Escaped(tag.text, TRUE) = tag.text
  ELSE /\ \A word \in {<<"/">>, <<"!", "-", "-">>, <<"!", "[", "C", "[">>} : ~Begins(tag.start, word)
       /\ \A i \in DOMAIN WellNamed(tag.attr) : ~Begins(WellNamed(tag.attr)[i].name, <<"/">>)
       /\ IF tag.empty THEN WellNamed(tag.attr) # <<>>
          ELSE /\ tag.cdata # <<>> =>
                    \A i \in 1 .. Len(tag.cdata[1]) - 2 : SubSeq(tag.cdata[1], i, i + 2) # <<"]", "]", ">">>
               /\ \A i \in DOMAIN tag.tags : Sound(tag.tags[i])
RobloxTag(tag) ==
  LET first == {i \in DOMAIN tag.attr :
                  tag.attr[i].name = <<"V">> /\ \A j \in 1 .. i - 1 : tag.attr[j].name # <<"V">>}
  IN  /\ tag.start = <<"R">> /\ first # {}
      /\ \A i \in first : tag.attr[i].value \in {<<digit>> : digit \in {"4", "5", "9"}}
SoundDocument(d) ==
  /\ Sound(d.root[1]) /\ ~d.excludeRoot
  /\ d.root[1].comment \/ RobloxTag(d.root[1])
  /\ \A i \in DOMAIN d.prefix : d.prefix[i] \in Spaces

(* The tag as it is to be read.                                            *)
IsWritten(tag) == tag.comment \/ checkName(tag.start, "tag")
RECURSIVE Expected(_)
Expected(tag) ==
  IF tag.comment THEN [NewTag EXCEPT !.comment = TRUE, !.text = tag.text]
  ELSE LET attr == WellNamed(tag.attr)
           subs == SelectSeq(tag.tags, IsWritten)
           named == [NewTag EXCEPT
                       !.start = tag.start,
                       !.attr = [i \in DOMAIN attr |->
                                   [name |-> attr[i].name, value |-> Lines(attr[i].value)]]]
       IN  IF tag.empty THEN [named EXCEPT !.empty = TRUE]
           ELSE [named EXCEPT
                   !.end = EndName(tag),
                   !.cdata = IF tag.cdata = <<>> THEN <<>> ELSE <<Lines(tag.cdata[1])>>,
                   !.text = LinesOfText(tag.text),
                   !.tags = [i \in DOMAIN subs |-> Expected(subs[i])]]

RECURSIVE Unformatted(_)
Unformatted(tag) ==
  [tag EXCEPT !.noIndent = FALSE, !.tags = [i \in DOMAIN @ |-> Unformatted(@[i])]]

(* A document that is written and read again has the same tags with the    *)
(* same names, attributes, CDATA and text, and the same suffix, whatever   *)
(* it is indented with and wherever it is not: no space that was put in    *)
(* gets into a text, and none of a text is taken for indentation.  Tags    *)
(* and attributes without a proper name are left out, line ends that are   *)
(* not escaped become nl.  The Sound rules are all that can go wrong       *)
(* (document.go:452-978, 1024-1296).                                       *)
DocumentReadBack ==
  before # <<>> /\ SoundDocument(before[1]) =>
    /\ at # "error"
    /\ at = "read" =>
         /\ document.root # <<>>
         /\ Unformatted(document.root[1]) = Expected(before[1].root[1])
         /\ document.suffix = before[1].suffix
         /\ document.prefix \in {before[1].prefix, <<>>}
         /\ document.warnings = 0

(* Whatever text a document was read from, it is one that can be written   *)
(* and read again, unless it has a comment with something to escape, an    *)
(* empty tag whose slash came after a space and not after an attribute, or *)
(* a tag whose name begins like CDATA (document.go:275-366, 452-580).      *)
RECURSIVE HasSuch(_)
HasSuch(tag) ==
  \/ tag.comment /\ Escaped(tag.text, TRUE) # tag.text
  \/ Begins(tag.start, <<"!", "[", "C", "[">>) \/ (tag.empty /\ tag.attr = <<>>)
  \/ \E i \in DOMAIN tag.tags : HasSuch(tag.tags[i])
ReadIsSound ==
  at = "read" /\ document.root # <<>> /\ ~HasSuch(document.root[1]) => SoundDocument(document)

===============================================================================
