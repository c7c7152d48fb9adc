------------------------------- MODULE JsonValues -------------------------------
(***************************************************************************)
(* Values in JSON (json/json.go): ValueToJSONInterface, the text that      *)
(* json.Marshal makes of its result, and ValueFromJSONInterface.           *)
(*                                                                         *)
(* A JSON value is [is, v].  The v of an object is a function of its keys; *)
(* that of a string is a sequence of pieces: a byte of the text alone, or  *)
(* three bytes that base64 writes as four.  All numbers are float64.       *)
(***************************************************************************)
EXTENDS FileValues

CONSTANTS
  NotUTF8,      \* a byte that is not valid UTF-8
  Replaced,     \* the character U+FFFD
  Beyond        \* what int64 makes of a float that is too large for it

-------------------------------------------------------------------------------
Null == [is |-> "null"]
Number(n) == [is |-> "number", v |-> n]
Text(pieces) == [is |-> "string", v |-> pieces]
Object(names, parts) ==
  [is |-> "object",
   v |-> [name \in {names[i] : i \in DOMAIN names} |-> parts[CHOOSE i \in DOMAIN names : names[i] = name]]]

(* A field of an object that has none is nil, as null is.                  *)
At(object, name) == IF name \in DOMAIN object.v THEN object.v[name] ELSE Null

(* json.Marshal replaces what is not UTF-8.                                *)
Characters(s) == [i \in DOMAIN s |-> IF s[i] = NotUTF8 THEN <<Replaced>> ELSE <<s[i]>>]

(* The base64 encoder writes three bytes at a time, and what is left when  *)
(* it is closed.  It is never closed.                                      *)
MutBase64(s) == [i \in 1 .. (Len(s) + 2) \div 3 |->
                   SubSeq(s, 3 * i - 2, IF 3 * i > Len(s) THEN Len(s) ELSE 3 * i)]
Base64(s) == [i \in 1 .. Len(s) \div 3 |-> SubSeq(s, 3 * i - 2, 3 * i)]

ToLeaf(kind, v) ==
  CASE kind = "string" -> Text(Characters(v))
    [] kind = "content" -> IF v = <<>> THEN Null ELSE Text(Characters(v))
    [] kind = "binary" -> Text(Base64(v))
    [] kind = "bool" -> [is |-> "bool", v |-> v]
    [] kind = "int64" -> Number(2 * Rounded(DoubleBits, v))
    [] Integer(kind) /\ kind # "int64" -> Number(2 * v)
    [] kind \in {"float32", "float64"} -> Number(v)
    [] kind \in {"uniqueid", "font"} -> Null

RECURSIVE ToJson(_, _)
ToStruct(fields, v) ==
  Object([i \in DOMAIN fields |-> fields[i].name],
         [i \in DOMAIN fields |-> ToJson(fields[i].of, v[i])])

(* The type of an optional value is a Type, which is a number.             *)
ToOptional(v) ==
  [is |-> "object",
   v |-> [type |-> Number(0), value |-> IF Len(v) = 1 THEN Null ELSE ToJson(Layout[v[1]], v[2])]]

ToJson(of, v) ==
  CASE of.shape = "struct" -> ToStruct(of.fields, v)
    [] of.shape = "keypoints" -> [is |-> "array", v |-> [i \in DOMAIN v |-> ToJson(of.of, v[i])]]
    [] of.shape = "rotation" -> [is |-> "array", v |-> [i \in DOMAIN v |-> Number(v[i])]]
    [] of = Leaf("optional") -> ToOptional(v)
    [] OTHER -> ToLeaf(of.kind, v)

ValueToJSONInterface(value) == ToJson(Layout[value.type], value.v)

(* json.Marshal refuses numbers that are none.                             *)
RECURSIVE Marshals(_)
Marshals(j) ==
  CASE j.is = "number" -> j.v # NaN
    [] j.is = "array" -> \A i \in DOMAIN j.v : Marshals(j.v[i])
    [] j.is = "object" -> \A name \in DOMAIN j.v : Marshals(j.v[name])
    [] OTHER -> TRUE

-------------------------------------------------------------------------------
Got(v) == [is |-> "value", v |-> v]
NoValue == [is |-> "nil"]
Panics == [is |-> "panic"]

FromNumber(kind, n) ==
  CASE kind = "float64" -> n
    [] kind = "float32" -> Rounded(FloatBits, n)
    [] kind = "int64" /\ Truncated(n) >= 2 ^ (8 * ByteBits - 1) -> Beyond
    [] OTHER -> Truncated(n)

(* Text that is not base64 is taken as it is.                              *)
FromLeaf(kind, j) ==
  CASE kind = "content" /\ j = Null -> Got(<<>>)
    [] kind \in {"string", "content", "binary"} /\ j.is = "string" -> Got(FlattenSeq(j.v))
    [] kind = "reference" /\ j.is = "string" -> Got(j.v)
    [] kind = "bool" /\ j.is = "bool" -> Got(j.v)
    [] (Integer(kind) \/ kind \in {"float32", "float64"}) /\ j.is = "number" ->
         Got(FromNumber(kind, j.v))
    [] OTHER -> NoValue

(* The nine numbers of a rotation: those that are missing are zero.        *)
FromRotation(j) ==
  LET first == SubSeq(j.v, 1, IF Len(j.v) < 9 THEN Len(j.v) ELSE 9)
  IN  IF j.is # "array" THEN Got(Zero(Rotation))
      ELSE IF \E i \in DOMAIN first : first[i].is # "number" THEN Panics
      ELSE Got([i \in 1 .. 9 |-> IF i \in DOMAIN first THEN FromNumber("float32", first[i].v) ELSE 0])

(* Whatever has no value inside another value makes the conversion panic.  *)
All(parts) ==
  IF \A i \in DOMAIN parts : parts[i].is = "value" THEN Got([i \in DOMAIN parts |-> parts[i].v])
  ELSE Panics

RECURSIVE FromJson(_, _)
FromStruct(fields, j) ==
  IF j.is # "object" THEN NoValue
  ELSE All([i \in DOMAIN fields |-> FromJson(fields[i].of, At(j, fields[i].name))])

(* A keypoint that is no object is a zero one.                             *)
FromKeypoints(keypoint, j) ==
  IF j.is # "array" THEN NoValue
  ELSE All([i \in DOMAIN j.v |->
              IF j.v[i].is # "object" THEN Got(Zero(keypoint)) ELSE FromJson(keypoint, j.v[i])])

FromOptional(j) ==
  LET t == j.v["type"].v
      inner == IF t \in Types THEN FromJson(Layout[t], At(j, "value")) ELSE NoValue
  IN  CASE j.is # "object" -> NoValue
        [] j.is = "object" /\ At(j, "type").is # "string" -> Panics
        [] OTHER ->
             IF At(j, "value") = Null THEN Got(<<IF t \in Types THEN t ELSE "Invalid">>)
             ELSE IF inner.is # "value" THEN Panics
             ELSE Got(<<IF t = "Reference" THEN "String" ELSE t, inner.v>>)

FromJson(of, j) ==
  CASE of.shape = "rotation" -> FromRotation(j)
    [] of.shape = "struct" -> FromStruct(of.fields, j)
    [] of.shape = "keypoints" -> FromKeypoints(of.of, j)
    [] of = Leaf("optional") -> FromOptional(j)
    [] OTHER -> FromLeaf(of.kind, j)

(* The type is a string, and may be none of the types.                     *)
ValueFromJSONInterface(t, j) == IF t \in Types THEN FromJson(Layout[t], j) ELSE NoValue

===============================================================================
