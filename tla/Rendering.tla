------------------------------ MODULE Rendering ------------------------------
(***************************************************************************)
(* What an answer is turned into before it is sent: calls are told by their *)
(* names and every number by its decimal text.                              *)
(*                                                                          *)
(* A datum is a record whose kind says what it is for the code: of JSON     *)
(* ("null", "bool", "text", "number", "array", "object"), of the runtime of *)
(* the language ("set", "map", "bn", "toJSON"), or a codec.  Text and        *)
(* numbers have a text, containers have items or pairs of key and value.    *)
(***************************************************************************)
EXTENDS Answer, Sequences, FiniteSets, SequencesExt, TLC

JsonNull == [kind |-> "null"]
Text(text) == [kind |-> "text", text |-> text]
Array(items) == [kind |-> "array", items |-> items]
Object(pairs) == [kind |-> "object", pairs |-> pairs]

\* An assignment to a key that is there already keeps its place.
Put(pairs, key, value) ==
  IF \E k \in DOMAIN pairs : pairs[k][1] = key
  THEN [k \in DOMAIN pairs |-> IF pairs[k][1] = key THEN <<key, value>> ELSE pairs[k]]
  ELSE Append(pairs, <<key, value>>)

-----------------------------------------------------------------------------
(* sanitizeNumbers.  With metadata of version 14 comes a registry, which tells *)
(* of each type whether it is "uint", "optionUint" or another; otherwise the    *)
(* registry is Null.                                                           *)

\* Keys that are not text are spelled out.
KeyText(json) == IF json.kind = "text" THEN json.text
                 ELSE IF json.kind = "null" THEN "null" ELSE ToString(json)

\* sanitizeMetadataExceptionsV14: constants are bytes, of which those of an
\* integer type are told as that integer.
WithConstant(pairs, key, property, registry) ==
  LET type == pairs[SelectInSeq(pairs, LAMBDA pair : pair[1] = "type")][2].text
  IN  IF registry = Null \/ key # "value" \/ property.kind # "bytes" THEN pairs
      ELSE CASE registry[type] = "uint" -> Put(pairs, key, Text(property.asUint))
             [] registry[type] = "optionUint" -> Put(pairs, key, property.asOption)
             [] OTHER -> pairs

RECURSIVE SanitizeNumbers(_, _)

MapTypeSanitizeKeyValue(pairs, registry) ==
  Object(FoldLeft(LAMBDA told, pair :
                    Put(told, KeyText(SanitizeNumbers(pair[1], registry)),
                        SanitizeNumbers(pair[2], registry)),
                  <<>>, pairs))

\* A property that a struct lacks is Null and left out.
SanitizeStruct(pairs, registry) ==
  Object(FoldLeft(LAMBDA told, pair :
                    IF pair[2] = Null THEN told
                    ELSE WithConstant(Put(told, pair[1], SanitizeNumbers(pair[2], registry)),
                                      pair[1], pair[2], registry),
                  <<>>, pairs))

\* The map of a codec is sanitized without the registry.
SanitizeNumbers(data, registry) ==
  CASE data.kind \in {"null", "bool", "text"} -> data
    [] data.kind \in {"number", "bn", "int", "bytes", "opaque"} -> Text(data.text)
    [] data.kind = "option" ->
         IF data.of = Null THEN JsonNull ELSE SanitizeNumbers(data.of, registry)
    [] data.kind \in {"compact", "toJSON"} -> SanitizeNumbers(data.of, registry)
    [] data.kind = "struct" -> SanitizeStruct(data.pairs, registry)
    [] data.kind \in {"object", "json"} ->
         Object([k \in DOMAIN data.pairs |->
                   <<data.pairs[k][1], SanitizeNumbers(data.pairs[k][2], registry)>>])
    [] data.kind = "enum" -> Object(<<<<data.type, SanitizeNumbers(data.of, registry)>>>>)
    [] data.kind \in {"array", "vec", "set", "btreeset"} ->
         Array([k \in DOMAIN data.items |-> SanitizeNumbers(data.items[k], registry)])
    [] data.kind = "map" -> MapTypeSanitizeKeyValue(data.pairs, registry)
    [] data.kind = "codecmap" -> MapTypeSanitizeKeyValue(data.pairs, Null)
    [] data.kind = "call" ->
         Object(<<<<"callIndex", Text(data.method)>>, <<"args", SanitizeStruct(data.args, registry)>>>>)
    [] data.kind = "otherCodec" -> data.json

\* A key that is neither text nor an object cannot be spelled out.
RECURSIVE Sanitizable(_)
Sanitizable(data) ==
  CASE data.kind \in {"option", "compact", "toJSON", "enum"} ->
         data.of = Null \/ Sanitizable(data.of)
    [] data.kind \in {"struct", "object", "json"} ->
         \A k \in DOMAIN data.pairs : data.pairs[k][2] = Null \/ Sanitizable(data.pairs[k][2])
    [] data.kind = "call" -> \A k \in DOMAIN data.args : Sanitizable(data.args[k][2])
    [] data.kind \in {"array", "vec", "set", "btreeset"} ->
         \A k \in DOMAIN data.items : Sanitizable(data.items[k])
    [] data.kind \in {"map", "codecmap"} ->
         \A k \in DOMAIN data.pairs :
           /\ Sanitizable(data.pairs[k][1]) /\ Sanitizable(data.pairs[k][2])
           /\ SanitizeNumbers(data.pairs[k][1], Null).kind # "bool"
    [] OTHER -> TRUE

SanitizedSend(data, registry) ==
  IF Sanitizable(data) THEN SanitizeNumbers(data, registry) ELSE Error

-----------------------------------------------------------------------------
(* parseGenericCall.  A call is a struct [kind "call", pallet, method, args],   *)
(* args the pairs of its arguments.  An "opaque" argument has the call it       *)
(* encodes, or Null.                                                            *)

RECURSIVE ParseGenericCall(_)

\* Faulty: the calls of a batch are left as they are.
ParseArrayUnparsed(items) == items

ParseArrayGenericCalls(items) ==
  [k \in DOMAIN items |-> IF items[k].kind = "call" THEN ParseGenericCall(items[k]) ELSE items[k]]

ParseArgument(name, argument) ==
  CASE argument.kind = "vec" -> Array(ParseArrayGenericCalls(argument.items))
    [] argument.kind = "call" -> ParseGenericCall(argument)
    [] name = "call" /\ argument.kind = "opaque" /\ argument.of # Null ->
         ParseGenericCall(argument.of)
    [] OTHER -> argument

ParseGenericCall(call) ==
  Object(<<<<"method", Object(<<<<"pallet", Text(call.pallet)>>,
                                <<"method", Text(call.method)>>>>)>>,
           <<"args", Object([k \in DOMAIN call.args |->
                               <<call.args[k][1],
                                 ParseArgument(call.args[k][1], call.args[k][2])>>])>>>>)

-----------------------------------------------------------------------------
(* Properties. *)

\* What is told in the end, in order, with the kind each has.
RECURSIVE Leaves(_)
Leaves(data) ==
  CASE data.kind = "null" -> <<>>
    [] data.kind \in {"option", "compact", "toJSON", "enum"} ->
         IF data.of = Null THEN <<>> ELSE Leaves(data.of)
    [] data.kind \in {"array", "vec", "set", "btreeset"} ->
         FlattenSeq([k \in DOMAIN data.items |-> Leaves(data.items[k])])
    [] data.kind \in {"struct", "object", "json", "map", "codecmap"} ->
         FlattenSeq([k \in DOMAIN data.pairs |->
                       IF data.pairs[k][2] = Null THEN <<>> ELSE Leaves(data.pairs[k][2])])
    [] data.kind = "otherCodec" -> <<[kind |-> "otherCodec", text |-> data.json.text]>>
    [] OTHER -> <<data>>

Texts(leaves) == [k \in DOMAIN leaves |-> leaves[k].text]

\* No two keys of a map, at the top or below, are spelled alike.
RECURSIVE KeysApart(_)
KeysApart(data) ==
  LET told(k) == KeyText(SanitizeNumbers(data.pairs[k][1], Null))
      below == (IF "of" \in DOMAIN data THEN {data.of} ELSE {})
                 \cup (IF "items" \in DOMAIN data THEN ToSet(data.items) ELSE {})
                 \cup (IF "pairs" \in DOMAIN data
                       THEN {data.pairs[k][2] : k \in DOMAIN data.pairs} ELSE {})
  IN  /\ data.kind \in {"map", "codecmap"} =>
           \A k, l \in DOMAIN data.pairs : k # l => told(k) # told(l)
      /\ \A datum \in below \ {Null} : KeysApart(datum)

\* Nothing that is sent is a number, what is sent is its own rendering, and no
\* value is lost or moved, unless two keys of a map are spelled alike.
NumbersTold(data) ==
  LET told == SanitizedSend(data, Null)
      ownJson == \E leaf \in ToSet(Leaves(data)) : leaf.kind = "otherCodec"
  IN  told # Error =>
        /\ ~ownJson => /\ \A leaf \in ToSet(Leaves(told)) : leaf.kind # "number"
                       /\ SanitizedSend(told, Null) = told
        /\ KeysApart(data) => Texts(Leaves(told)) = Texts(Leaves(data))

\* A registry changes the constants of the metadata only.
ConstantsTold(data, registry) ==
  LET plain == Leaves(SanitizedSend(data, Null))
      told == Leaves(SanitizedSend(data, registry))
      source == Leaves(data)
  IN  Len(told) = Len(plain) =>
        \A k \in DOMAIN told : told[k].text # plain[k].text => source[k].kind = "bytes"

\* The calls that are made, in order, but for those in an argument that is not a
\* call, a list of calls or the encoded argument "call".
RECURSIVE CallsMade(_)
CallsMade(data) ==
  CASE data.kind = "call" ->
         <<data.method>> \o
           FlattenSeq([k \in DOMAIN data.args |->
             LET argument == data.args[k][2]
             IN  CASE argument.kind = "opaque" ->
                        IF argument.of # Null /\ data.args[k][1] = "call"
                        THEN CallsMade(argument.of) ELSE <<>>
                   [] argument.kind = "vec" ->
                        FlattenSeq([j \in DOMAIN argument.items |-> CallsMade(argument.items[j])])
                   [] OTHER -> CallsMade(argument)])
    [] OTHER -> <<>>

\* The calls that an answer names, in order.
RECURSIVE CallsNamed(_)
CallsNamed(json) ==
  CASE json.kind = "object" ->
         FlattenSeq([k \in DOMAIN json.pairs |->
           IF json.pairs[k][1] = "method" /\ json.pairs[k][2].kind = "object"
           THEN <<json.pairs[k][2].pairs[2][2].text>> ELSE CallsNamed(json.pairs[k][2])])
    [] json.kind = "array" ->
         FlattenSeq([k \in DOMAIN json.items |-> CallsNamed(json.items[k])])
    [] OTHER -> <<>>

\* An answer names the calls that an extrinsic makes, however they are nested, in
\* the order it makes them.
CallsTold(call) ==
  CallsNamed(SanitizedSend(ParseGenericCall(call), Null)) = CallsMade(call)
=============================================================================
