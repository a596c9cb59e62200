------------------------------- MODULE ProtoCodec -------------------------------
(***************************************************************************)
(* The scheme of the generated codecs: what encode, fromJSON, toJSON and   *)
(* fromPartial do with a field of each form, for every message type of     *)
(* web/src/generated.  (decode is a loop over a shared reader: it is the   *)
(* state machine of module DecodeLoop.)                                    *)
(*                                                                         *)
(* A message is a function of its field names; a JSON object is           *)
(* a function of <<field name, spelling>>, the spelling being "camel" (the *)
(* one toJSON writes) or "snake" (the one of the .proto file).             *)
(***************************************************************************)
EXTENDS ProtoTypes, SequencesExt

CONSTANT Null           \* JavaScript's null

-----------------------------------------------------------------------------
(* Writing                                                                 *)

Tag(f, wireType) == 8 * f.no + wireType

\* writer.fork() ... writer.join()
Delimited(units) == <<Len(units)>> \o units

\* writer.string(v), writer.int32(v), ...: text carries its length.
Payload(kind, v) ==
  IF kind \in {"string", "bytes"} THEN Delimited(IF v = "" THEN << >> ELSE <<v>>) ELSE <<v>>

RECURSIVE Encode(_, _)

EncodeValue(f, v) ==
  <<Tag(f, WireType(f.kind))>> \o
    IF IsMessage(f.kind) THEN Delimited(Encode(f.kind, v)) ELSE Payload(f.kind, v)

EncodeField(f, v) ==
  CASE f.label = "implicit" -> IF v # f.def THEN EncodeValue(f, v) ELSE << >>
    [] f.label = "optional" -> IF v # Undefined /\ v # f.def THEN EncodeValue(f, v) ELSE << >>
    [] f.label \in {"member", "message"} -> IF v # Undefined THEN EncodeValue(f, v) ELSE << >>
    [] f.label \in {"repeated", "numbers"} -> FlattenSeq([i \in DOMAIN v |-> EncodeValue(f, v[i])])
    [] f.label = "packed" -> <<Tag(f, 2)>> \o Delimited(v)

Encode(type, m) ==
  FlattenSeq([i \in DOMAIN Types[type] |-> EncodeField(Types[type][i], m[Types[type][i].name])])

-----------------------------------------------------------------------------
(* Objects                                                                 *)

isSet(v) == v # Null /\ v # Undefined

RECURSIVE fromPartial(_, _)

\* `create` is fromPartial of the given object, or of {}.
fromPartial(type, partial) ==
  [n \in FieldNames(type) |->
    LET f == FieldOf(type, n)
        given == IF n \in DOMAIN partial THEN partial[n] ELSE Undefined
    IN  IF ~isSet(given) THEN f.def
        ELSE IF ~IsMessage(f.kind) THEN given
        ELSE IF IsList(f) THEN [i \in DOMAIN given |-> fromPartial(f.kind, given[i])]
        ELSE fromPartial(f.kind, given)]

-----------------------------------------------------------------------------
(* JSON                                                                    *)

\* A JSON value of an enumeration is <<"name", name>> or <<"number", number>>.
EnumToJSON(enum, n) ==
  IF \E name \in DOMAIN Enums[enum] : Enums[enum][name] = n
  THEN <<"name", CHOOSE name \in DOMAIN Enums[enum] : Enums[enum][name] = n>>
  ELSE <<"name", "UNRECOGNIZED">>

EnumFromJSON(enum, json) ==
  CASE json[1] = "number" /\ json[2] \in Range(Enums[enum]) -> json[2]
    [] json[1] = "name" /\ json[2] \in DOMAIN Enums[enum] -> Enums[enum][json[2]]
    [] OTHER -> -1

base64FromBytes(v) == <<"base64", v>>
bytesFromBase64(json) == json[2]

RECURSIVE toJSON(_, _)

ValueToJSON(kind, v) ==
  CASE IsMessage(kind) -> toJSON(kind, v)
    [] IsEnum(kind)    -> EnumToJSON(kind, v)
    [] kind = "bytes"  -> base64FromBytes(v)
    [] OTHER           -> v

\* The fields toJSON mentions.  The mutant asks for a truthy value of a member of a oneof.
Shown_Truthy(f, v) ==
  CASE IsList(f) -> v # << >>
    [] f.label = "member" -> v # Undefined /\ v # ""
    [] f.label = "message" -> v # Undefined
    [] OTHER -> v # Undefined /\ v # f.def
Shown(f, v) ==
  CASE IsList(f) -> v # << >>
    [] f.label \in {"member", "message"} -> v # Undefined
    [] OTHER -> v # Undefined /\ v # f.def

toJSON(type, m) ==
  [key \in {<<n, "camel">> : n \in {n \in FieldNames(type) : Shown(FieldOf(type, n), m[n])}} |->
    LET f == FieldOf(type, key[1])
        v == m[key[1]]
    IN  IF IsList(f) THEN [i \in DOMAIN v |-> ValueToJSON(f.kind, v[i])]
        ELSE ValueToJSON(f.kind, v)]

RECURSIVE fromJSON(_, _)

ValueFromJSON(kind, json) ==
  CASE IsMessage(kind) -> fromJSON(kind, json)
    [] IsEnum(kind)    -> EnumFromJSON(kind, json)
    [] kind = "bytes"  -> bytesFromBase64(json)
    [] kind \in {"uint64", "int64"} -> Number64(json)
    [] OTHER           -> json

\* object.fieldName if it is set, else object.field_name, which the mutant forgets.
Lookup_CamelOnly(object, n) ==
  IF <<n, "camel">> \in DOMAIN object THEN object[<<n, "camel">>] ELSE Undefined
Lookup(object, n) ==
  LET At(spelling) == IF <<n, spelling>> \in DOMAIN object THEN object[<<n, spelling>>] ELSE Undefined
  IN  IF isSet(At("camel")) THEN At("camel") ELSE At("snake")

fromJSON(type, object) ==
  [n \in FieldNames(type) |->
    LET f == FieldOf(type, n)
        json == Lookup(object, n)
    IN  IF ~isSet(json) THEN f.def
        ELSE IF IsList(f) THEN [i \in DOMAIN json |-> ValueFromJSON(f.kind, json[i])]
        ELSE ValueFromJSON(f.kind, json)]
===============================================================================
