------------------------------ MODULE MessageWriters ------------------------------
(***************************************************************************)
(* What a reader may be given: the messages of a run and the ways they are *)
(* written.  "own" is this client's encode, of a message made by create;   *)
(* "literal" is encode of an object literal.  The other styles are those   *)
(* of other implementations of Protocol Buffers (the Go server, a client   *)
(* of another version); they are external to the repository and legal      *)
(* liberties of the format, which the decode functions were generated to   *)
(* understand.                                                             *)
(***************************************************************************)
EXTENDS ProtoCodec

\* A field number no message knows, and an unknown field of each wire type.
Unknown == 500
UnknownField(wireType) ==
  CASE wireType = 2 -> <<8 * Unknown + 2, 2, 8, 7>>
    [] wireType = 3 -> <<8 * Unknown + 3, 8, 7, 8 * Unknown + 2, 1, 9, 8 * Unknown + 4>>
    [] OTHER -> <<8 * Unknown + wireType, 7>>

\* A field of a known number that has changed its type since.
Mistyped(f) == IF WireType(f.kind) = 0 THEN <<Tag(f, 5), 7>> ELSE <<Tag(f, 0), 7>>

RECURSIVE WriteAs(_, _, _)

WriteValue(f, v, style) ==
  <<Tag(f, WireType(f.kind))>> \o
    IF IsMessage(f.kind) THEN Delimited(WriteAs(f.kind, v, style)) ELSE Payload(f.kind, v)

\* The pieces a field with the value v is written in, `plain` being one for each value.
Pieces(f, v, plain, style) ==
  LET block(x) == <<Tag(f, 2)>> \o Delimited(x)
      number == f.label \in {"numbers", "packed"}
      default == <<Tag(f, WireType(f.kind))>> \o Payload(f.kind, f.def)
  IN  CASE style = "packed" /\ number -> <<block(v)>>
        [] style = "mixed" /\ number /\ Len(v) > 1 -> <<plain[1], block(Tail(v))>>
        [] style = "overwritten" /\ f.label \in {"implicit", "optional"} -> <<default>> \o plain
        [] style = "mistyped" -> <<Mistyped(f)>> \o plain
        [] style = "unknown varint" -> <<UnknownField(0)>> \o plain
        [] style = "unknown fixed64" -> plain \o <<UnknownField(1)>>
        [] style = "unknown bytes" -> plain \o <<UnknownField(2)>>
        [] style = "unknown group" -> <<UnknownField(3)>> \o plain
        [] OTHER -> plain

WriteField(f, v, style) ==
  Pieces(f, v, IF IsList(f) THEN [i \in DOMAIN v |-> WriteValue(f, v[i], style)]
                            ELSE <<WriteValue(f, v, style)>>, style)

\* The pieces of several fields: one field after the other, or the first pieces first.
Arrange(pieces, style) ==
  LET first(i) == IF pieces[i] = << >> THEN << >> ELSE Head(pieces[i])
      rest(i) == IF pieces[i] = << >> THEN << >> ELSE FlattenSeq(Tail(pieces[i]))
  IN  IF style = "interleaved"
      THEN FlattenSeq([i \in DOMAIN pieces |-> first(i)]) \o FlattenSeq([i \in DOMAIN pieces |-> rest(i)])
      ELSE FlattenSeq([i \in DOMAIN pieces |-> FlattenSeq(pieces[i])])

WriteFields(fields, given, style) ==
  Arrange([i \in DOMAIN fields |-> WriteField(fields[i], given[fields[i].name], style)], style)

\* Legal encodings of the fields set in `given`, which may have their defaults.
WriteAs(type, given, style) ==
  LET set == SelectSeq(Types[type], LAMBDA f : f.name \in DOMAIN given)
  IN  WriteFields(IF style = "reversed" THEN Reverse(set) ELSE set, given, style)

\* A message literal of TypeScript: optional properties that were not set are undefined.
RECURSIVE Literal(_, _)
Literal(type, given) ==
  [n \in FieldNames(type) |->
    LET f == FieldOf(type, n)
    IN  IF n \notin DOMAIN given THEN IF f.label = "optional" THEN Undefined ELSE f.def
        ELSE IF ~IsMessage(f.kind) THEN given[n]
        ELSE IF IsList(f) THEN [i \in DOMAIN given[n] |-> Literal(f.kind, given[n][i])]
        ELSE Literal(f.kind, given[n])]

\* A message that was sent as a group ends at an end-group tag; the units after it are not its own.
InGroup(units) == units \o <<8 * Unknown + 4>> \o units \o UnknownField(3)

Written(type, given, style) ==
  CASE style \in {"own", "literal"} ->
         Encode(type, IF style = "own" THEN fromPartial(type, given) ELSE Literal(type, given))
    [] style = "in a group" -> InGroup(WriteAs(type, given, "plain"))
    [] OTHER -> WriteAs(type, given, style)

\* Sample values of a kind, and of a field of the kind.  Those of a message set the
\* field in the middle, none, or the first and the last.
Sample(f, samples) ==
  IF IsList(f) THEN <<samples[Len(samples)], samples[1]>> ELSE samples[Len(samples)]

RECURSIVE Samples(_, _)
Samples(kind, depth) ==
  CASE kind \in {"string", "bytes"} -> <<"text", "">>
    [] kind = "bool" -> <<TRUE, FALSE>>
    [] kind \in {"uint64", "int64"} -> <<MaxSafe, MaxSafe + 2>> \o IF kind = "int64" THEN <<-MaxSafe, -MaxSafe - 2>> ELSE << >>
    [] kind = "double" -> <<2, 0>>
    [] kind = "int32" -> <<-1, 0>>
    [] IsEnum(kind) -> <<2, 77, 0>>
    [] IsMessage(kind) ->
         LET n == Len(Types[kind])
             set == IF depth = 0 \/ n = 0 THEN <<{}>> ELSE <<{(n + 1) \div 2}, {}, {1, n}>>
         IN  [s \in DOMAIN set |-> [name \in {Types[kind][i].name : i \in set[s]} |->
               LET f == FieldOf(kind, name) IN Sample(f, Samples(f.kind, depth - 1))]]

Lists(s) == <<s, <<s[1], s[1]>>, <<s[Len(s)]>>, << >>>>
FieldSamples(f) == IF IsList(f) THEN Lists(Samples(f.kind, 2)) ELSE Samples(f.kind, 2)

-----------------------------------------------------------------------------
(* JSON of other implementations: a key in either spelling, an enumeration *)
(* by name or by number, null for a message that is not set.               *)

RECURSIVE PeerJSON(_, _, _)
PeerJSON(type, given, spelling) ==
  LET value(f, v) ==
        CASE IsMessage(f.kind) -> PeerJSON(f.kind, v, spelling)
          [] IsEnum(f.kind) /\ (spelling = "snake" \/ v \notin Range(Enums[f.kind])) -> <<"number", v>>
          [] OTHER -> ValueToJSON(f.kind, v)
      known == {n \in FieldNames(type) : n \in DOMAIN given \/ FieldOf(type, n).label = "message"}
  IN  [key \in {<<n, spelling>> : n \in known} |->
        LET f == FieldOf(type, key[1])
        IN  IF f.name \notin DOMAIN given THEN Null
            ELSE IF IsList(f) THEN [i \in DOMAIN given[f.name] |-> value(f, given[f.name][i])]
            ELSE value(f, given[f.name])]
===============================================================================
