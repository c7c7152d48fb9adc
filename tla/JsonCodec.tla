------------------------------- MODULE JsonCodec -------------------------------
(***************************************************************************)
(* Roots in JSON (json/json.go).  Encode names the instances of a tree     *)
(* with a table of References and writes one object for each; Decode makes *)
(* an instance for each object, or takes the one that was made for its     *)
(* name before, and sets the properties that are references at the end.    *)
(*                                                                         *)
(* The objects of instances are kept in a table, and [is |-> "object",     *)
(* at |-> k] stands for the one in position k of it.  Functions of keys    *)
(* stand for objects: a key that is not in the domain is missing.          *)
(* References are strings of their own.                                    *)
(***************************************************************************)
EXTENDS References, JsonValues, FiniteSets

CONSTANTS
  Absent,       \* no class yet
  Roots,        \* the roots that are encoded
  Documents     \* documents of other origin, with their objects

VARIABLES
  root,         \* the root that Encode reads
  step,         \* start, instances; read, objects; done, error or panic
  todo,         \* the calls of InstanceToJSONInterface still to be made
  item,         \* the instance whose properties are being written
  objects,      \* the objects of instances
  document,     \* the object of the root
  origin,       \* (history) the instance each object was written for
  lookup,       \* the references of the decoder
  made,         \* the instances it made: class, reference, isService, properties
  calls,        \* its calls of InstanceFromJSONInterface, the one running last
  instances,    \* Root.Instances
  propRefs,     \* the properties to set at the end
  madeFor       \* (history) the instance each object was read into

encodeVars == <<refs, reference, properties, root, todo, item, origin>>
decodeVars == <<lookup, made, calls, instances, propRefs, madeFor>>
jsonVars == <<encodeVars, step, objects, document, decodeVars>>

JString(s) == [is |-> "string", v |-> s]
JBool(b) == [is |-> "bool", v |-> b]
JArray(list) == [is |-> "array", v |-> list]
ObjectAt(k) == [is |-> "object", at |-> k]

-------------------------------------------------------------------------------
CallsFor(list, parent) == [i \in DOMAIN list |-> [instance |-> list[i], parent |-> parent]]
NoItem == [object |-> 0, names |-> {}]

(* RootToJSONInterface.  There is no place for metadata.                   *)
EncodeRoot ==
  /\ step = "start"
  /\ document' = [rbxfile_version |-> Number(0), instances |-> JArray(<<>>)]
  /\ todo' = CallsFor(root.instances, 0)
  /\ step' = "instances"
  /\ UNCHANGED <<refs, reference, properties, root, item, origin, objects, decodeVars>>

WithObject(object, k) == [object EXCEPT !["children"].v = Append(@, ObjectAt(k))]

(* InstanceToJSONInterface, of nil a panic.                                *)
EncodeInstance ==
  /\ step = "instances" /\ item.names = {} /\ todo # <<>>
  /\ IF Head(todo).instance = Nil
       THEN /\ step' = "panic"
            /\ UNCHANGED <<refs, reference, todo, item, objects, document, origin>>
       ELSE LET inst == Head(todo).instance
                parent == Head(todo).parent
                k == Len(objects) + 1
            IN  /\ \E ref \in Refs :
                     /\ Get(inst, ref)
                     /\ objects' =
                          Append([i \in DOMAIN objects |->
                                    IF i = parent THEN WithObject(objects[i], k) ELSE objects[i]],
                                 [class_name |-> JString(root.class[inst]),
                                  reference |-> JString(ref),
                                  is_service |-> JBool(root.isService[inst]),
                                  properties |-> [is |-> "object", v |-> [p \in {} |-> Null]],
                                  children |-> JArray(<<>>)])
                /\ document' = IF parent # 0 THEN document
                               ELSE [document EXCEPT !["instances"].v = Append(@, ObjectAt(k))]
                /\ origin' = Append(origin, inst)
                /\ item' = [object |-> k,
                            names |-> {p \in Properties : properties[inst][p] # Unset}]
                /\ todo' = CallsFor(root.children[inst], k) \o Tail(todo)
                /\ UNCHANGED step
  /\ UNCHANGED <<properties, root, decodeVars>>

Typed(t, j) == [is |-> "object", v |-> [type |-> JString(t), value |-> j]]
WithProperty(object, p, j) ==
  [object EXCEPT !["properties"].v = [q \in DOMAIN @ \cup {p} |-> IF q = p THEN j ELSE @[q]]]

(* Mutant: the reference that an instance has before Get.                  *)
MutRefOf(inst, ref) == reference[inst]
RefOf(inst, ref) == ref

(* The properties are in no order.                                         *)
EncodeProperty(p) ==
  /\ step = "instances" /\ p \in item.names
  /\ LET value == properties[origin[item.object]][p]
         Write(j) == objects' = [objects EXCEPT ![item.object] = WithProperty(@, p, j)]
     IN  CASE value = Nil ->
                Write(Typed("Reference", JString(NoRef))) /\ UNCHANGED <<refs, reference>>
           [] value \in Instances ->
                \E ref \in Refs :
                  Get(value, ref) /\ Write(Typed("Reference", JString(RefOf(value, ref))))
           [] OTHER ->
                /\ Write(Typed(value.type, ValueToJSONInterface(value)))
                /\ UNCHANGED <<refs, reference>>
  /\ item' = [item EXCEPT !.names = @ \ {p}]
  /\ UNCHANGED <<properties, root, step, todo, document, origin, decodeVars>>

(* json.Marshal, and json.Unmarshal of what it gives.                      *)
Marshal ==
  /\ step = "instances" /\ item.names = {} /\ todo = <<>>
  /\ step' = IF \A k \in DOMAIN objects : Marshals(objects[k]["properties"]) THEN "read" ELSE "error"
  /\ UNCHANGED <<encodeVars, objects, document, decodeVars>>

-------------------------------------------------------------------------------
(* The value of a key, if it is one of that kind.                          *)
indexJSON(object, name, is) == name \in DOMAIN object /\ object[name].is = is

Call(k, inst, names, children) ==
  [object |-> k, instance |-> inst, names |-> names, children |-> children]
Elements(object, name) == IF indexJSON(object, name, "array") THEN object[name].v ELSE <<>>

(* RootFromJSONInterface                                                   *)
ReadRoot ==
  /\ step = "read"
  /\ IF /\ indexJSON(document, "rbxfile_version", "number")
        /\ Truncated(document["rbxfile_version"].v) = 0
        /\ indexJSON(document, "instances", "array")
       THEN /\ calls' = <<Call(0, 0, {}, Elements(document, "instances"))>>
            /\ step' = "objects"
       ELSE step' = "error" /\ UNCHANGED calls
  /\ UNCHANGED <<encodeVars, objects, document, lookup, made, instances, propRefs, madeFor>>

NewInstance(ref) ==
  [class |-> Absent, reference |-> ref, isService |-> FALSE,
   properties |-> [p \in Properties |-> Unset]]
RefIn(object) == IF indexJSON(object, "reference", "string") THEN object["reference"].v ELSE NoRef

(* The instance of an object: one of its name, or a new one.               *)
InstanceOf(object) ==
  IF ~IsEmptyReference(RefIn(object)) /\ RefIn(object) \in DOMAIN lookup
    THEN lookup[RefIn(object)]
    ELSE Len(made) + 1
MutNamed(object, inst) == lookup
Named(object, inst) ==
  IF IsEmptyReference(RefIn(object)) THEN lookup
  ELSE [ref \in DOMAIN lookup \cup {RefIn(object)} |->
          IF ref = RefIn(object) THEN inst ELSE lookup[ref]]

Filled(inst, object) ==
  [inst EXCEPT
     !.class = object["class_name"].v,
     !.isService = IF indexJSON(object, "is_service", "bool") THEN object["is_service"].v ELSE @]
Keys(object) ==
  IF indexJSON(object, "properties", "object") THEN DOMAIN object["properties"].v ELSE {}

(* InstanceFromJSONInterface up to the properties.  An object without a    *)
(* class is left, but its name is known from then on.                      *)
ReadObject ==
  /\ step = "objects" /\ Last(calls).names = {} /\ Last(calls).children # <<>>
  /\ LET child == Head(Last(calls).children)
         left == [calls EXCEPT ![Len(calls)].children = Tail(@)]
     IN  IF child.is # "object" THEN calls' = left /\ UNCHANGED <<lookup, made, madeFor>>
         ELSE LET object == objects[child.at]
                  inst == InstanceOf(object)
                  known == IF inst \in DOMAIN made THEN made
                           ELSE Append(made, NewInstance(RefIn(object)))
                  accepted == indexJSON(object, "class_name", "string")
              IN  /\ lookup' = Named(object, inst)
                  /\ made' = IF accepted THEN [known EXCEPT ![inst] = Filled(@, object)] ELSE known
                  /\ calls' = IF ~accepted THEN left
                              ELSE Append(left, Call(child.at, inst, Keys(object),
                                                     Elements(object, "children")))
                  /\ madeFor' = [k \in DOMAIN madeFor \cup {child.at} |->
                                   IF k = child.at THEN inst ELSE madeFor[k]]
  /\ UNCHANGED <<encodeVars, step, objects, document, instances, propRefs>>

(* A property without a type or a value, or with one that cannot be read,  *)
(* is left out.                                                            *)
ReadProperty(p) ==
  /\ step = "objects" /\ p \in Last(calls).names
  /\ LET call == Last(calls)
         j == objects[call.object]["properties"].v[p]
         typed == j.is = "object" /\ indexJSON(j.v, "type", "string") /\ "value" \in DOMAIN j.v
         t == j.v["type"].v
         value == IF typed THEN ValueFromJSONInterface(t, j.v["value"]) ELSE NoValue
     IN  CASE value.is = "panic" -> step' = "panic" /\ UNCHANGED <<made, propRefs, calls>>
           [] OTHER ->
                /\ made' = IF value.is = "value" /\ t # "Reference"
                             THEN [made EXCEPT ![call.instance].properties[p] =
                                     [type |-> t, v |-> value.v]]
                             ELSE made
                /\ propRefs' = IF value.is = "value" /\ t = "Reference"
                                 THEN Append(propRefs, [instance |-> call.instance, property |-> p,
                                                        ref |-> value.v])
                                 ELSE propRefs
                /\ calls' = [calls EXCEPT ![Len(calls)].names = @ \ {p}]
                /\ UNCHANGED step
  /\ UNCHANGED <<encodeVars, objects, document, lookup, instances, madeFor>>

(* The call returns its instance: Root.Instances is appended to, but the   *)
(* children of an instance are a slice of length 0, and to set one of them *)
(* panics.                                                                 *)
LeaveObject ==
  /\ step = "objects" /\ Len(calls) > 1 /\ Last(calls).names = {} /\ Last(calls).children = <<>>
  /\ IF Len(calls) = 2
       THEN /\ instances' = Append(instances, Last(calls).instance)
            /\ calls' = Front(calls)
            /\ UNCHANGED step
       ELSE /\ step' = "panic"
            /\ UNCHANGED <<instances, calls>>
  /\ UNCHANGED <<encodeVars, objects, document, lookup, made, propRefs, madeFor>>

Referent(ref) == IF ref \in DOMAIN lookup THEN lookup[ref] ELSE 0
SetReference(all, pr) ==
  [all EXCEPT ![pr.instance].properties[pr.property] =
     [type |-> "Reference", v |-> Referent(pr.ref)]]

SetReferences ==
  /\ step = "objects" /\ Len(calls) = 1 /\ Last(calls).children = <<>>
  /\ made' = FoldLeft(SetReference, made, propRefs)
  /\ step' = "done"
  /\ UNCHANGED <<encodeVars, objects, document, lookup, calls, instances, propRefs, madeFor>>

-------------------------------------------------------------------------------
NothingRead ==
  /\ lookup = [ref \in {} |-> 0] /\ made = <<>> /\ calls = <<>> /\ instances = <<>>
  /\ propRefs = <<>> /\ madeFor = [k \in {} |-> 0]
NoRoot == [instances |-> <<>>]
NoTree ==
  /\ reference = [i \in Instances |-> NoRef]
  /\ properties = [i \in Instances |-> [p \in Properties |-> Unset]]
NothingWritten == refs = EmptyTable /\ todo = <<>> /\ item = NoItem /\ origin = <<>>

JsonInit ==
  /\ NothingWritten /\ NothingRead
  /\ \/ /\ root \in Roots /\ step = "start"
        /\ reference = root.reference /\ properties = root.properties
        /\ objects = <<>> /\ document = [k \in {} |-> Null]
     \/ /\ root = NoRoot /\ step = "read" /\ NoTree
        /\ \E d \in Documents : objects = d.objects /\ document = d.document

EncodeNext ==
  EncodeRoot \/ EncodeInstance \/ (\E p \in Properties : EncodeProperty(p)) \/ Marshal
DecodeNext ==
  ReadRoot \/ ReadObject \/ (\E p \in Properties : ReadProperty(p)) \/ LeaveObject \/ SetReferences
JsonNext == EncodeNext \/ DecodeNext
JsonSpec == JsonInit /\ [][JsonNext]_jsonVars

===============================================================================
