# rbxfile in TLA+

Specifications of `rbxfile`, a Go library that decodes, encodes and manipulates
Roblox instance trees, with the TLC runs that check them on small instances and
TLAPS proofs for all instances. Every definition follows the source; the line
ranges are in `PROJECT.json` under `map`.

## The system

The library is sequential: no goroutines, no locks, nothing persisted. What makes
it hard to test is elsewhere:

* Go's `range` over a map visits the keys in any order, and properties, groups and
  metadata are all kept in maps;
* `GenerateReference` draws random names, which may be names already in use;
* instances are pointers, so a "tree" may share nodes, and a reference property may
  lead out of it;
* a file is any sequence of chunks, and a chunk that fails to decode is kept and
  passed over.

| Component | State | Operations | Hard behaviour | What makes it correct |
|---|---|---|---|---|
| reference table (`ref.go`) | map from reference string to instance; the `Reference` and `Properties` of instances | `Get`, `Resolve` | empty, shared and drawn names; `Resolve` writes before it knows | the table and the `Reference` fields agree, for good; an empty name never resolves |
| tree and its copy (`file.go`) | the heap of instances, two tables, pending references | `Root.Copy`, `Instance.Copy` | map order against recursion; references out of the tree; a node that occurs twice | same tree; references follow the copy; names that were good stay |
| binary decoder (`rbxl/decoder.go`, `codec.go`, `model.go`) | the chunks read, `groupLookup`, `instLookup`, shared strings, the tree | `decode`, `decodeChunks`, the `Decode` of each chunk, `robloxCodec.Decode` | chunks in any order, twice, broken; a lookup filled by one pass and used by the next | nothing is written to a nil instance; the tree is what the file says. Two kinds of arrays make it panic (see below) |
| binary encoder (`rbxl/codec.go`) | instance list, groups, property arrays, shared string table | `robloxCodec.Encode` | shared nodes, mixed types, defaults, sort orders | what is written decodes to the same tree, but for optionals of interleaved types and trees that are not sound |
| file and chunk framing (`rbxl/encoder.go`, `decoder.go`, `model.go`) | header, chunks, trailing bytes | `Encoder.encode`, `Decompress`, `rawChunk` | END not last, compressed or not | decompressing changes only the compression |
| arrays (`rbxl/arrays.go`) | none | interleaving, differences, optional arrays | transposition in place, 32-bit wrap-around | decoding inverts encoding |
| value types (`rbxl/values.go`, `cframe.go`) | none | tables of type ids and sizes | tables that must agree | the conversions invert each other |
| XML document (`rbxlx/document.go`) | byte buffer, one byte of pushback, tag stack | `ReadFrom`, `WriteTo` | error paths that restore the buffer | what is written is read back |
| XML codec (`rbxlx/codec.go`, `format.go`) | reference table, deferred references and shared strings | `Decode`, `Encode` | referents used twice, references before items | references survive |
| JSON (`json/json.go`) | reference table | `RootToJSONInterface`, `RootFromJSONInterface` | instances made before they are read | the tree survives |
| declarations (`declare/`) | reference table | `Declare` | forward references in map order | references lead to the declared instances |
| values (`values.go`) | none | the types, what each is made of, `NewValue` | conversions between number types | part of JSON and declarations |
| errors, dump, commands | none | messages and printing | - | not modelled: no state |

They interact by calls and shared data only. The copy, the XML codec, JSON and the
declarations all work on a `References` table; `Encoder.Encode` calls the binary
codec and hands its `formatModel` to the framing; `Decoder.Decode` reads a
`formatModel` and hands it to the codec, or the whole stream to the XML decoder
when it finds the older XML signature.

## What is modelled

### `References`

The variable `refs` is the map (a missing key and a nil entry are both `Nil`: the
code never stores nil), `reference` and `properties` the fields of all instances.
`Get` and `Resolve` are the two actions. The loop of `Get` that draws until the
string is new is the choice of any such string: `GenerateReference(m)`; when none is
left the model stops where the code would spin, which for 128 random bits is no
loss. The nil receiver is left out, since no caller has one.

### `TreeCopy`

Extends `References` with `children` and runs `Root.Copy` as a stack machine: one
frame for each call of `Instance.copy` that has not returned. `CopyRoot` and
`CopyChild` are the calls up to their loops, `CopyReference` and `CopyValue` one turn
of the loop over the properties, in any order, `Return` the return together with
the caller's store, `ResolveNext` one turn of the last loop with both calls of
`Resolve`. `Instance.Copy(inst)` is the case of a single root. `given` is a history
variable: the names before the call.

What `value.Copy()` returns is `ValueCopies`: a font gets its family for its cached face
(`values.go:1186`), bare or in optionals (`Font` says how many are around it), and any other value
stays itself. `copy` looks for references only among the bare values (`file.go:112`), so a
reference in an optional is a value like others, which leads to the same instance as before.

### `RbxlDecode`

`header`, `chunks`, `groupLookup` and `total` are written by the first pass
(`decode`, `decodeChunks`), the rest by the second (`robloxCodec.Decode`). An action of
the first pass chooses the next chunk of the file and decodes its payload as the
code does, so all files are covered; what the payload bytes can decode to is given by
the constants, except for PROP chunks, whose arrays have the length of the group in
`groupLookup` at that moment (`Arrays`). Actions of the second pass are named after the
case of the type switch they stand for; the loop over the links of a PRNT chunk
takes one link a step, the loops over a group are one step, since nothing in them
can fail half-way in a way that survives (an error returns no tree at all).
Strings and values are integers, shared string 0 is the empty one. `phase = "xml"` is the
hand-over to the XML decoder. `phase = "panic"` has its cause in `err`: the nil dereference that
`inst.Properties[...]` would be ("nil instance", which `InstancesExist` excludes), `Some(decodeValue(...))` of
an element that `decodeValue` has no value for ("nil value"), and the slice of the
positions of an array of coordinate frames that is cut short ("cut frames", `ReadCutFrames`, for any PROP
chunk whose group has instances). The latter two do happen. An optional
array is "nested" if it is of references, shared strings or optionals; -1 (`nilValue`) stands for an
element that gives nil, which is every element of the first two and the absent ones of the last.

An INST chunk that replaces the group of a class, a PROP chunk of a class without a
group (`ReadUngrouped`), chunks that do not decode (`ReadBroken`) and END with anything
behind it are all among the files. The bytes below the chunks are in `RbxlFile`, those of
arrays in `RbxlArrays`.

### `RbxlEncode`

`robloxCodec.Encode`, one action for one turn of each of its loops. `step` is the place in
the function. `todo` holds the calls of `addInstance` still to be made, `walk` those of
`recInst`; the two walks are separate in the code as well, the first ends at what it has
seen, the second does not. A group leaves `instChunkMap` when its turn in the sorted list
comes (`NextGroup`); the names of `propChunkMap` are checked in any order
(`CheckProperty`) and filled in the order of the names (`StartProperty`, `FillValue`: one
element of one array a step). A panic is a step of its own kind, not a state that is
left out: the index -1 of the warning about an unknown type (`Unknown`), the nil array of a
property with mismatched optional types, the nil array of an optional in an optional,
a nil instance in the second walk, and a parent chunk that is full.

A class of value types stands for many: "value" for all the plain ones, which the codec
treats alike, "unique", "reference", "shared" and "optional" for those it asks for by
name, "invalid" for a type it does not know; inside an optional, "packed" for the plain types whose
arrays are interleaved. Left out: a nil interface as a property, and
circular trees, on which the second walk does not end and which the comment of
`Instance.Children` rules out.

### `RbxlTransfer` and `RbxlRoundTrip`

`RbxlTransfer` is what the format promises, without numbers, groups or tables: a tree is
handed over in one step (`Take`), or, if it is not sound, it may be lost (`Lose`). `Fits` says
what comes back: the same instances under the same parents in the same order, the same
order of classes, services in places only, metadata, and for each property what
becomes of its value, a mismatched or place-only one included. Of a property of which an
instance has an optional of an interleaved type (`Garbled`) it says only that it is an optional afterwards, or not there. It says of a missing
reference or shared string only its type, since the code hands out the instance and the
string with number 0.

`RbxlRoundTrip` composes the encoder with an instance `D` of the decoder. The shared
state is the file: `WriteFile` hands over the header, `ReadChunk` reads the next chunk with
the same actions of the decoder that read arbitrary files (`KeepGroup`, `KeepProperty`,
`KeepOther`, `ReadEnd`), `Decode` runs the second pass. The bytes between are not in this module; what
`RbxlChunkArray` shows of them is used: each array is read as it was written, except the
optional arrays of interleaved types ("packed"). What those are read as is `ReadPacked`: the chunk is errored with
a warning (`decoder.go:246-255`), or, if some element is present, so that the byte in the place of the
type of the flags can be that of Bool, it is an array of any values and flags. The instance `T` of `RbxlTransfer` maps
ids back to the instances that got them (`Taken`). Several Go string types come back as one
type, and an optional without a value comes back without its inner type: the mapping
keeps neither.

### `XmlTags`, `XmlDecode`, `XmlEncode` and `XmlRoundTrip`

The codec of the XML format works on a document of tags; `XmlTags` has the tags as far as
it tells them apart, in a table, with Items that point to what is in them. A value is one
that can be read, one that cannot, or has no type of that name; an optional is such a value.
Hashes stand for contents, since no two contents have one hash. `XmlEncode` and
`XmlDecode` both extend `References`: the table is `refs` in the one and `instLookup` in the
other.

`XmlDecode` runs `getItems` as a stack machine, one step for a tag (`DecodeItem`,
`DecodeProperties`, `SkipTag`) and one for a property (`DecodeProperty`), then looks a second
time at the tags on top (`DecodeMeta`, `DecodeSharedStrings`) and resolves what was put off
(`ResolveNext`). Instances are numbered as they are made. A document
without a root (which `ReadFrom` can give, when it ignores the start tag of the root) ends
`Decode` with "no root tag" before anything is changed, and is left out.

`XmlEncode` has the calls of `encodeInstance` still to be made in `todo`, one step for
`Get` and the list of names (`EncodeInstance`), one for each property (`EncodeReference`, which
may enter the referent in the table and rename it, and `EncodeValue`), and one for the
Item with its children (`AppendItem`). A nil instance panics (`Crash`).

`XmlRoundTrip` gives the document of the one to an instance `D` of the other (`HandOver`), which
also decodes documents of other origin (`Documents`). Its
variables `instLookup`, `newReference` and `newProperties` are the `refs`, `reference` and
`properties` of the decoder.

### `RbxlValues`, `RbxlArrays` and `RbxlChunkArray`

`RbxlValues` and `RbxlArrays` have no variables: they are the functions of `values.go` and
`arrays.go`. A byte is a number below `Radix`, a field a number of bytes with an order and a
code (plain, zigzag, or the sign moved to the end). A value is what the loop over its fields
reads: words, and for arrays and conditional types what the length or the first byte says.
`transpose` is the code's own permutation, one for the square case and one for the other, not a
definition of what it should be; `Differences` and `Sums` are the wrapped additions of the
references. Reading fails or panics where the code does.

`RbxlChunkArray` is the way of the array of one property chunk: `Write` makes bytes,
then the file keeps them, loses some (`Lose`), or the group has another number of instances
(`Regroup`), and `ReadBytes` reads them with the count of the group. `Spares` is the capacity
that the buffer has beyond its length, which decides whether Go panics on a slice.

### `RbxlFile`

`Encoder.encode`, `Decoder.decode` and `Decompress` over bytes. `WriteHeader`, `WriteChunk` and
`WriteTrailing` are the turns of `encode`; `Damage` is what happens to the file: nothing, a cut
at any byte, another count in an INST chunk, data that do not decompress, or the marker of the
XML format. `ReadSignature` checks the header, `ReadChunk` is a turn of `decodeChunks`, `ReadRaw`
one of `decompressChunks` with the frame it writes (`Rewritten`), and `Fails` ends a read that
runs out of bytes. The payload of each kind of chunk has its writer (`chunkInstance`, ...) and
its reader (`ReadInstance`, ...), which take the arrays from `RbxlArrays`. The signature, the
magic and the content of END are one byte each; the version and the counts keep their width.
What a compressed payload looks like is external: the plain bytes behind one more.

### `XmlDocument`

`WriteTo` and `ReadFrom` of a document, over characters. Writing is one action, since nothing
comes between its steps: `EncodeTag` recurses over the tags as `encodeTag` does, with the depth,
the flags against indentation and the warnings. Reading keeps `nextByte`, the rest of the text and
the error in `stream`, and the calls of `decodeTag` that have not returned in `open`; an action
is what one call does between two nested ones (`StartTag`, `Content`, `NextTag`, `EndTag`, `NoTag`),
then `ReadSuffix`. Everything below (`getc`, `ungetc`, `match`, `readName`, `textOf`, `DecodeCData`)
is an operator from stream to stream, so that what is read too far and put back is seen.
`WriteAgain` writes what was read.

### `FileValues`, `JsonValues` and `JsonCodec`

`FileValues` has the types of `values.go` as layouts (a leaf, a struct of fields, a sequence of
keypoints, a rotation) with their zero values, and the conversions of Go between number types:
`Wrap`, `Rounded`, `Truncated`, for a byte of `ByteBits` bits and floats of `FloatBits` and
`DoubleBits` significant bits. Numbers are halves, so that a float can have a fraction.

`JsonValues` is `ValueToJSONInterface` and `ValueFromJSONInterface` over the interface values of
Go, with what `json.Marshal` and `Unmarshal` do to strings and numbers in between. `JsonCodec` is
`RootToJSONInterface` with the calls of `InstanceToJSONInterface` in `todo` (`EncodeInstance`,
`EncodeProperty`), and `RootFromJSONInterface` with the calls of `InstanceFromJSONInterface` in
`calls` (`ReadObject`, `ReadProperty`, `LeaveObject`) and the loop over the references
(`SetReference`). The table of the encoder is `References`, that of the decoder `lookup`.

### `DeclareValues`, `Declare` and `DeclareJson`

`DeclareValues` is `Type.value`: for each type the forms of arguments it takes, by position,
with the `norm` functions. `Declare` is `Root.Declare`: `Build` a call of `build` (parents before
children), `AddMetadata` the other primaries, `Evaluate` the properties of one instance, the
instances in any order, as the map of the code gives them. `DeclareJson` composes them: what is
declared goes to `Encode` (`HandOver`) and comes back; roots that are not declared are encoded
too, and objects that are not encoded are decoded.

## What is checked

| Run | Module | Shows | Bounds |
|---|---|---|---|
| `references` | `MCReferences` | `MarksAgree`, `ResolvedIsMarked`, `MarksPermanent` | 3 instances, 6 names of which 2 are empty and 3 can be drawn, 1 property |
| `copy` | `MCTreeCopy` | `SameTree`, `ReferencesFollowCopy`, `CopyNames`, `GoodNamesKept`, `CopyReturns` | 3 originals, 3 copies, 5 forests, 5 names, 2 properties, a plain value and an optional of a font |
| `decode` | `MCRbxlDecode` | `InstancesExist`, `GroupsFit`, `GroupsDistinct`, `PropertiesFromFile`, `TreeIsLinks` | files of at most 5 chunks, 7 INST and 4 PRNT contents, 2 instances, 2 classes and one of each out of bounds |
| `roundtrip` | `MCRbxlRoundTrip` | `Implements` (the refinement of `RbxlTransfer`), `DecodesCleanly`, `NumbersConsistent` | 3 instances, 2 classes, 2 names, 11 values; 9 forests |
| `roundtrip_skipped` | `MCRbxlRoundTrip` | a counterexample to the warning "chunk skipped" | the same |
| `chunk_array` | `MCRbxlChunkArray` | `ReadBack`, `LossNoticed`, `OtherGroup`, `Interleaving` | all 31 types and optionals of 30, of 1, 2 and 4 values, every cut, up to one instance more than values |
| `optional_arrays` | `MCRbxlChunkArray` | a counterexample to the comment of `arrayFromBytes` | the same |
| `file` | `MCRbxlFile` | `FileReadBack`, `OnlyWholeFiles`, `LossWarned` | 7 files of up to 6 chunks, cut at every byte, each count and each compressed chunk damaged, decoded and decompressed |
| `xml_roundtrip` | `MCXmlRoundTrip` | `NamesLead`, `RoundTrip`, `DocumentDecoded` | 3 instances, 5 names of which 2 are empty and 3 can be drawn, 2 properties; 7 forests, with and without what can be excluded; 1920 documents of 11 tags of other origin |
| `document` | `MCXmlDocument` | `NothingLost`, `DocumentReadBack`, `ReadIsSound` | documents of a root with 1 or 2 tags, nested once, in 5 formats; texts of 3 of 25 pieces under the root, starts of them, and 2-piece texts behind every cut of the head |
| `declare_json` | `MCDeclareJson` | `ValuesAsDocumented`, `DeclaredTree`, `JsonRoundTrip`, `ReferencesMeet` | 3 instances, 2 properties, 7 strings of which 3 are empty and 2 can be drawn; every type with up to 12 arguments, 2 values of every type, 25 broken properties |
| `json_children` | `MCDeclareJson` | a counterexample to "encoded and decoded with the json package" | the same |

Why the bounds are enough. A clash of names needs two instances and one drawn name
that is already given to a third that is met later: three instances, a generator
that can draw a given name. The forests of `copy` hold a chain, siblings, two roots, a
copied child with its parent outside, and a node that is both root and child; the
references lead inside, outside, to the holder itself and to nil. The hazards of
the decoder are pairs: two groups of one class with a property chunk before,
between or after them, two groups with an instance in common, a reference or a link
before and after the instance it needs, a string table before and after its use;
four chunks and END hold each of them with a chunk to spare.

The round trip needs two instances in one group, with a third before, between or after them
in another: the order of numbers and the order of classes then differ. All 11^3
combinations of values in one property of those trees meet every pair of equal,
missing, mismatched and unknown types, with a second property that uses the same
shared string. The forests are a chain, siblings, several roots, a reference out of the
tree, the empty tree, an instance with two parents, one that is a root twice, and nil as a
child and as a root. Two pairs of metadata can be in either order.

The hazards of the XML decoder are pairs as well: a name used twice or a property tagged
twice, with the use before and after, contents before and after the property that
waits for them, or given twice. The documents have two or three items, nested and beside
each other, and every pair of kinds of tags for one property. The trees of the XML
round trip are such that an instance is named by a property before, after, or without its
Item, and the generator draws a name that a later instance has.

Arrays: one value has no difference to take; two values of four bytes make the transposition go
out of place and four make it square. Words are at the edges of their range, among them the
least number, which has no opposite, so that the differences of references wrap. `Radix` 64 and
8-byte words of 5 bytes keep every word an integer of TLC; nothing in the code depends on a byte
having 256 values (`RbxlValuesProofs` is for any). Files: two groups of one class with property
chunks for the first, the second and neither, chunks behind END, no END, a parent chunk that cannot
be written, an unknown chunk, and trailing bytes; each is cut at every byte.

The texts of `document` have every token that makes the decoder look ahead (`</`, `<!--`, `<![CDATA[`,
`/>`, `]]>`, `&#`, `&#x`, CR NL) and every prefix of them, three in a row: what is put back meets each
of the places where it can be read again. Texts of tags have leading, trailing and only spaces, every escaped
character, and the end of a CDATA.

`ByteBits` 3, `FloatBits` 9 and `DoubleBits` 20 keep the order of the widths: an int32 does not fit
into a float32, an int64 not into a float64. Declarations have every documented form of every type, and
as many numbers as 1 to 6; trees have equal names, a name used before its instance, and a name of none.

Each property has a mutant in `PROJECT.json`: a change of one definition, such as a
dropped guard or a wrong order, with which TLC finds the property violated.

Deadlock is checked in the runs of the binary and the XML codec, of `copy` and of
`references`: a finished call stutters (`Returned`) and a table can always be asked again, so a state
without a successor would be a call that is stuck. The modules with one sequential pass (`RbxlChunkArray`, `RbxlFile`, `XmlDocument`,
`DeclareJson`) end where the program has returned or panicked, and their runs say
`CHECK_DEADLOCK FALSE`.

### Fairness

Only `CopyReturns` is a liveness property. It assumes weak fairness of the whole
next-state relation: once `Copy` is called, the goroutine that runs it is the only
actor and takes its next step as long as there is one. Circular trees are excluded as
in the comment of `Instance.Children` ("The user must take care not to introduce
circular references").

### Disagreements found

With a run that shows it:

* "mismatched optional types ..., chunk skipped" (`rbxl/codec.go:571`) does not skip the
  chunk, as the same warning for other types does: it stays without an array, and
  `Encode` panics when it sets its first value (`roundtrip_skipped`).
* An optional array of an interleaved type is not read back: `arrayOptional.FromBytes`
  (`rbxl/arrays.go:1454`) hands everything that is left to `arrayFromBytes`, which deinterleaves the
  values together with the flags behind them (`optional_arrays`).
* A root with an instance that has a child cannot be decoded from JSON: the children are
  stored by index in a slice of length 0 (`json/json.go:246`), which panics (`json_children`).

Met while modelling, stated by the models but without a run of their own:

* A file with an optional array of references or shared strings that does get read (its bytes can be chosen
  to) and has one present, or of optionals of which one is present and holds nothing, makes the decoder panic: `decodeValue` says
  of references and shared strings that these "must be resolved elsewhere" and gives nil, and `Some(nil)` panics
  (`rbxl/codec.go:131`, `values.go:950`).
* A file with an array of coordinate frames whose positions are cut short, or which is read for another number of
  instances, makes the decoder panic instead of being errored, unless the buffer happens to be longer than
  the payload (`rbxl/arrays.go:896`).
* `ValueFont.Copy` sets `CachedFaceId` to the family (`values.go:1186`), so a copy of an instance has not the font
  of the instance, although each property is to be copied.
* A `SharedString` tag whose hash cannot be read is an invalid value, which is to be "emitted
  as the zero value" unless `DiscardInvalidProperties` is set; it is put off under the empty
  hash (`rbxlx/codec.go:922`) and then forgotten. `DocumentDecoded` says nothing of such a property.
* `Resolve` answers false for an empty reference (`ref.go:33`); its comment says that
  only a missing referent of a non-empty reference gives false. The callers in the
  repository do not depend on the difference: `Copy` resolves a second time, to nil again.
* `Root.Copy` drops the metadata (`file.go:49`), although it "creates a copy of the root
  and its contents".
* `DecoderStats.Chunks`, "Total number of chunks", leaves out chunks whose payload
  failed to decode (`rbxl/decoder.go:254`), although the model keeps them.
* Where an instance lacks a property, "Use default value for DataType"
  (`rbxl/codec.go:644`) gives a reference the number 0, which is the first instance of the
  tree and not the nil that `newValueReference` gives.
* Declarations (`Misread` in `DeclareJson`): a string declared as BinaryString, ProtectedString or
  Content becomes a String, a number declared as Double a Float (`declare/type.go:399-444`); a CFrame of a
  position and nine numbers, a Rect of two corners and sequences of numbers are not read
  as documented; a ColorSequence of one number panics.
* JSON (`Kept` and `Back`): metadata have no place in it; base64 is never closed, so binary strings lose
  what is left behind groups of three bytes (`json/json.go:263-267`); the type of an optional is
  written as a number and read as a string, which panics; an int64 that a float64 has no room for is changed.
* XML documents (`Sound`, `HasSuch`): `<a/>` without attributes is read as an open tag named `a/`, and
  `<a />`, which is read as empty, is written as the former; comments are escaped when they are written
  but not unescaped when read; an attribute whose name begins with `/`, and tags named like `!--` or
  `![CDATA[`, are not read as they were written; CR becomes NL; a comment before the root becomes
  the root. `Prefix` and `Indent` are detected only behind CDATA, since the space before is eaten by
  `decodeCData` otherwise, and a prefix stays although a comment says that it is unset if no
  indentation is detected.

`Implements` shows besides under which trees `Encode` can panic at all (`Sound` in
`RbxlTransfer`): an instance in two places, a nil instance, a value of an unknown type,
optionals in optionals, and mismatched optionals.

## What is proved

All proofs are for any sets of instances, names, chunk contents and any bounds;
the assumptions are those declared with the constants.

* `ReferencesProofs`: `TypeOK`, `MarksAgree`, `ResolvedIsMarked` are invariants and
  `MarksPermanent` an action property. `TypeOK`, `MarksAgree` and `EmptyNeverMarked`
  together are inductive; `ResolvedIsMarked` follows on top of them, since a marked
  instance is never renamed. The assumption that matters is `GeneratedAssumption`:
  the generator draws no empty name ("RBX" and 32 hexadecimal digits).
* `TreeCopyProofs`: `CopyTypeOK`, `ReferencesFollowCopy` and `CopyNames`.
  `ReferencesFollowCopy` speaks of the end only. What carries it is `CopyInv`: the two
  tables agree on every name at every step (`Tables`), a name handed to a pending
  reference keeps leading to its referent (`Pending`), and no reference property is
  forgotten between the frame, the list and the end (`Covered`). The proof does not need
  the heap to be a tree. `SameTree` follows from `ShapeInv`: the frames are a path of children
  (`Chain`), what is done of a frame is the copies of the children before `next` (`ChildrenCopied`,
  `Roots`), a copy that is not on the stack has all its values (`ValuesCopied`, where a value is the same if `SameValue` says so: the cached
  face of a font is not), and no two originals
  share a copy (`Fresh`). `GoodNamesKept` follows from `NamesInv`, which says of every
  name given before the call who has it in each of the two tables.
* `RbxlDecodeProofs`: `TypeOK`, `InstancesExist`, `GroupsFit`, `GroupsDistinct`, `PropertiesFromFile` and `TreeIsLinks`.
  `InstancesExist` is not inductive: that a PROP chunk fits its group takes both passes.
  The strengthening says that a PROP chunk was read with the length of some
  earlier group of its class (`PropsFit`), that a group the codec has passed is the one
  `groupLookup` still holds and all its instances exist (`GroupsDone`), and hence that the
  two are the same group. `PropertiesFromFile` and `TreeIsLinks` compare the tree at the end with
  all chunks of the file. `FileInv` says the same of the chunks before `pos` and the links before
  `link`: which instances exist (`Made`), that the shared strings are those of the last table
  (`Strings`), that a property is that of the last chunk which has it (`PropertiesSoFar`), and that parents and
  children are the links so far (`Linking`, `TreeSoFar`). `TreeIsLinks` counts; adding a link adds one to
  one cardinality (`FiniteSetTheorems`).
* `RbxlEncodeProofs`: `TypeOK` and `NumbersConsistent`, for every tree, sound or not, and
  for any number of instances, classes and names. The invariant `EncodeInv` follows a
  number from the list to the group of its class (`Grouped`) and to an INST chunk
  (`Chunked`); `Placed` says that it is always in one of the two. That two chunks have no
  number in common follows from their classes, which is why `Chunked` speaks of classes.
  `ArraysGrow` says that only the last array can be short and only while a group is being
  filled, `HoldersKnown` that a name to be checked has a holder, without which the type
  of its array would not be one.

* `RbxlRoundTripProofs`: `DecodesCleanly` and `Implements`, for every tree. First `DecodesCleanly`. It joins the two codecs and holds in
  none of them alone. `TripInv` has four parts: the types, the invariant of the encoder, what is known of
  the file while it is laid out (`WriteInv`), and what is known while it is read (`ReadInv`). `WriteInv`
  is where the argument is: the instances of the two walks are the same, so that each number of a link has a
  group (`Reached`, `Walked`), and the chunks are laid in the order META, SSTR, INST, PROP, PRNT, END
  with one group for a class and every array as long as its group (`FileLaid`). `ReadInv` says that the chunks read are
  the first ones of the file and that the groups in the lookup are those that were written (`ReadSoFar`, `Groups`),
  and that a referent the second pass looks for has been made (`Made`).
  A part of `DecodesCleanly` is that the decoder reads an array with the length it was written with (`NextDecodes`). Only
  optional arrays of interleaved types may be another chunk than the one that was written (`IsPacked`); that they leave the place and the
  length of the rest alone is what makes the groups, the links and the other properties come back.
  The decoder's constants enter as bounds of what `ReadChunk` can read: a bound that is too small shows as a deadlock of the run,
  and `DecodeAssumption` asks of them what the decoder asks itself.
  `FileIsATransfer` is the refinement `Implements`, and `OnlyUnsoundPanics` the half of it in which a tree is lost: `Encode` panics only on a tree that is not
  `Sound`. There are three panics. Filling an array of a type that is not known, or starting one that the check has left
  without a type, has its cause in the values of the class: the instances of a group are those of one class (`Sorted`), all of them
  of the tree (`InTree`), and `Verdicts` says what the check leaves and what the arrays begun have. Walking a nil instance
  or making more links than there are instances has its cause in the places: each call that was ever made in the second walk is at one place
  of the tree, no two calls at the same (`Told`, `Distinct`), although what is left of them is only a stack (`Split`). More calls than instances
  then means that two places hold one instance.
  The other half is `TakenFits`: what is taken is the tree that was given. `TakeInv` says what is known when it is taken: what the
  groups and the elements of the arrays say of the tree while the encoder fills them, whatever the table of shared strings grows to
  (`Contents`), what is in the tables of the file (`FileTables`), and of the decoder what `RbxlDecodeProofs` knows of any file
  (`DecodeKnown`: `FileInv` and, for services and metadata, `TablesSoFar`). Then the two are read against each other. An instance has one place
  in the file, an element of one group (`IsAt`), so its class and whether it is a service are those of the group. A property has one array, or none,
  and the array has the type on which all instances agree that have it (`PropertyRead`, `Means`); if that is an optional of an
  interleaved type, whatever is read for it is an optional (`GarbledMeans`). When the second walk is over
  its calls are the places of the tree (`Walk`), so the links to a parent number its children without a gap and in their
  order (`LinksOf`, `ChildrenFit`). A step of the trip hands the tree over, loses it, or cannot be seen in `RbxlTransfer` (`HandedStep`).
  `MetadataAssumption` is used here: `Root.Metadata` is a Go map (`file.go:31`), so a key has one value, and 0 is in the model what a key has that is not there.

* `XmlEncodeProofs`: `EncodeTypeOK` and `NamesLead`, for every tree, with any names and any
  draws. `NamesLead` speaks of what is in the document; to be inductive it needs the same of
  the item that is not there yet (`Leading`), and that tags hang together: calls and
  items have an Item as their parent, and the first tag of an Item is its Properties
  (`Nesting`). The rest is that `Get` never takes a name from its owner (`RefsGrow`), so
  what a name meant when it was written it means at the end. `TreeInv` says that nothing of the tree gets lost:
  under each Item there are first tags that are no Items and then the Items of the first of the
  children it must get; the next child is being written or is the next of its calls that is still to be made, and
  the rest of them follow it (`Progress`). It holds in the middle of the recursion because the calls for one
  parent stay together in `todo`, behind those for its descendants. A property that has been passed has one tag,
  which says its value, or none if its value cannot be written (`AreTold`); contents that were met are in `sharedStrings`,
  and in the end in a tag (`StringsTold`).

* `XmlRoundTripProofs`: `DocumentDecoded`, for every document of tags that nest, of whatever origin. The property
  speaks of the end; `DecodeInv` says it of what has been read. Each call of `getItems` has read the
  first tags of its list (`Calls`) and has the instances for the Items among them (`Gathering`, with the places
  as the witness); an instance that is made is for one Item in one place (`Placed`), so no two are for the same.
  Of the property tags read so far (`TagsRead`), the last value is in the property (`Values`), every hash is
  in `stringRefs` (`Awaits`), and the last link is the last one put off for its property (`LinksOff`) until
  it is resolved, when the table has the last instance of that name (`Looked`). `OnceListed` carries through the
  encoder that what it hands over nests, so the theorem holds for encoded documents without an assumption on them;
  of other documents it is assumed (`DocumentsAssumption`), as the tags of a Go document own their children.
  Properties of which a hash could not be read are excepted (`Misread`); the encoder writes none.
  `RoundTrip` joins the two codecs: for trees of any size, any names and any draws. `BackInv` adds to the invariants
  of both what has been read of metadata and names. In the end every Item has a class and is an instance, so the
  instances of a list are exactly the Items that `Progress` counts: places that lie in a row, listed in their order
  and without a gap, are listed one by one (`InARow`, `SameOrder`). A name in the document leads in the encoder's table
  to its owner and nothing else has it (`NamesLead`, `MarksAgree`), which is why the last instance with that
  name is the last copy of the owner (`NamedLast`). With one tag for each property at most (`OneTag`) the three
  kinds of values that the decoder puts off or sets at once do not meet (`PropertyBack`).

* `RbxlValuesProofs`: `ZigzagReadBack`, `FloatReadBack` and `DifferenceReadBack`: for words of any
  even size, what is done to an integer, a float or a reference before it is written is undone when it is
  read, the least integer and differences that wrap around included. They are arithmetic, without
  induction: the difference is proved for one element and the one before it.

TLC only:

* What the runs `chunk_array` and `file` show: `RbxlChunkArray` and `RbxlFile` fold over bytes, and what a fold
  gives for every input needs induction over data.
* What the runs `document` and `declare_json` show: `XmlDocument` and `DeclareJson` declare recursive
  operators, which the prover cannot take.
* The liveness of `Copy` (`CopyReturns`): liveness under fairness and `ENABLED` are out of the prover's reach.

## Not modelled

* The texts of errors, warnings and dumps; the commands; the statistics that are only counted.
* `ToCFrame`, `ToCFrameQuat` and the special rotations of `rbxl/cframe.go`: floating-point matrices, which
  TLC has no numbers for. `decodeValue` and `encodeValue` are read as whether they give a value.
* LZ4, `encoding/json` and the readers and writers of `io`: external. A writer that fails, the count of
  bytes that `WriteTo` returns (which leaves out indentation) and line numbers are left out.
* The layout of values in the text of XML properties (`rbxlx/codec.go`): a value is read or it is not.
* What becomes of the warnings of the codec when `Encoder.Encode` returns those of `encode`
  (`rbxl/encoder.go:35`): the two are in different modules.
* `DecodeProperties`, which nothing calls, and the `Declare` methods of single instances and properties.

## Plan

All the components with state are modelled. What is left to do:

1. The invariants of `Declare` and of the reader of `JsonCodec`, over a module without the recursive
   reference definitions of `DeclareJson`.
2. That `transpose` puts every byte in its place (`Interleaving`) for every length and size.
3. The text of XML values, and the two conversions between the value types of the packages.

Recursion stays out of the modules with proofs.

## Running

    tlc -config MCRbxlDecode.cfg MCRbxlDecode.tla
    tlapm RbxlDecodeProofs.tla
