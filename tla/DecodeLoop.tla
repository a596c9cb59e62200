------------------------------- MODULE DecodeLoop -------------------------------
(***************************************************************************)
(* Reading a message with the generated `decode` functions: a loop over a  *)
(* reader that the decoders of nested messages share.  A call of decode is *)
(* a frame: the type it decodes, the message built so far, the position at *)
(* which it ends and the field of the caller's message that waits for the  *)
(* result.  An action is one turn of the innermost loop.                   *)
(***************************************************************************)
EXTENDS WireFormat

VARIABLES wire,        \* the units
          pos,         \* reader.pos: the index of the next unit
          frames,      \* the active calls of decode, the outermost first
          status       \* "reading", "returned" or "threw"

readerVars == <<wire, pos, frames, status>>

Start(type) ==
  /\ pos = 1
  /\ frames = <<[type |-> type, message |-> createBase(type), end |-> Len(wire) + 1, field |-> ""]>>
  /\ status = "reading"

-----------------------------------------------------------------------------
(* One turn of the loop of the innermost decode.                           *)

Top == frames[Len(frames)]
InLoop == status = "reading" /\ pos < Top.end

FieldNo == wire[pos] \div 8
WireTypeRead == wire[pos] % 8

\* The case of the switch that does not `break`, if there is one.  The mutant knows
\* a list in the form encode writes only.
Accepts_OwnForm(f) ==
  /\ f.no = FieldNo
  /\ WireTypeRead = IF f.label = "packed" THEN 2 ELSE WireType(f.kind)
Accepts(f) ==
  /\ f.no = FieldNo
  /\ \/ WireTypeRead = WireType(f.kind)
     \/ f.label \in {"numbers", "packed"} /\ WireTypeRead = 2
Cases == {i \in DOMAIN Types[Top.type] : Accepts(Types[Top.type][i])}

SetTop(message) == frames' = [frames EXCEPT ![Len(frames)].message = message]

\* reader.string(), reader.int32(), ...: the value and the position after it.
ScalarAt(kind) ==
  IF kind \in {"string", "bytes"}
  THEN [value |-> IF wire[pos + 1] = 0 THEN "" ELSE wire[pos + 2], next |-> pos + 2 + wire[pos + 1]]
  ELSE [value |-> wire[pos + 1], next |-> pos + 2]

Converted(kind, v) == IF kind \in Long THEN longToNumber(v) ELSE v

ReadScalar ==
  /\ InLoop
  /\ \E i \in Cases :
       LET f == Types[Top.type][i]
           v == Converted(f.kind, ScalarAt(f.kind).value)
       IN  /\ ~IsMessage(f.kind)
           /\ WireTypeRead = WireType(f.kind)
           /\ v # Throw
           /\ SetTop(Store(Top.message, f, v))
           /\ pos' = ScalarAt(f.kind).next
  /\ UNCHANGED <<wire, status>>

\* longToNumber throws, and every decode under way with it.
ThrowOutOfRange ==
  /\ InLoop
  /\ \E i \in Cases :
       LET f == Types[Top.type][i]
       IN  f.kind \in Long /\ Converted(f.kind, ScalarAt(f.kind).value) = Throw
  /\ status' = "threw"
  /\ UNCHANGED <<wire, pos, frames>>

\* const end2 = reader.uint32() + reader.pos; while (reader.pos < end2) push
ReadBlock ==
  /\ InLoop
  /\ \E i \in Cases :
       LET f == Types[Top.type][i]
           end2 == pos + 2 + wire[pos + 1]
       IN  /\ ~IsMessage(f.kind)
           /\ WireTypeRead # WireType(f.kind)
           /\ SetTop([Top.message EXCEPT ![f.name] = @ \o SubSeq(wire, pos + 2, end2 - 1)])
           /\ pos' = end2
  /\ UNCHANGED <<wire, status>>

\* `reader.pos + length` once the length is read, and the mutant that takes pos before.
EndOfMessage_BeforeLength == pos + 1 + wire[pos + 1]
EndOfMessage == pos + 2 + wire[pos + 1]

\* The first value of `message` in a decode, and the mutant that has the caller's.
BaseOf_Caller(f) == createBase(Top.type)
BaseOf(f) == createBase(f.kind)

\* T.decode(reader, reader.uint32())
EnterMessage ==
  /\ InLoop
  /\ \E i \in Cases :
       LET f == Types[Top.type][i]
       IN  /\ IsMessage(f.kind)
           /\ frames' = Append(frames, [type |-> f.kind, message |-> BaseOf(f),
                                        end |-> EndOfMessage, field |-> f.name])
           /\ pos' = pos + 2
  /\ UNCHANGED <<wire, status>>

\* An end-group tag, or the tag 0, ends the loop wherever the message would have ended.
StopAtEndGroup ==
  /\ InLoop
  /\ Cases = {}
  /\ WireTypeRead = 4 \/ wire[pos] = 0
  /\ pos' = pos + 1
  /\ frames' = [frames EXCEPT ![Len(frames)].end = pos']
  /\ UNCHANGED <<wire, status>>

\* BinaryReader.skip: the position after a field of the wire type whose content starts at p.
SkipFrom(p, wireType) ==
  CASE wireType = 2 -> p + 1 + wire[p]
    [] wireType = 3 -> EndOfGroup(wire, p)
    [] OTHER -> p + 1

SkipField ==
  /\ InLoop
  /\ Cases = {}
  /\ WireTypeRead # 4 /\ wire[pos] # 0
  /\ pos' = SkipFrom(pos + 1, WireTypeRead)
  /\ UNCHANGED <<wire, frames, status>>

\* `reader.pos < end` is false, and the mutant with `<=`.
LoopOver_PastEnd == pos > Top.end
LoopOver == pos >= Top.end

\* The loop is over: the caller's field takes the message.
Return ==
  /\ status = "reading"
  /\ LoopOver
  /\ IF Len(frames) = 1
     THEN status' = "returned" /\ UNCHANGED frames
     ELSE LET caller == frames[Len(frames) - 1]
          IN  /\ frames' = [SubSeq(frames, 1, Len(frames) - 1) EXCEPT ![Len(frames) - 1].message =
                              Store(caller.message, FieldOf(caller.type, Top.field), Top.message)]
              /\ UNCHANGED status
  /\ UNCHANGED <<wire, pos>>

Decode ==
  \/ ReadScalar
  \/ ThrowOutOfRange
  \/ ReadBlock
  \/ EnterMessage
  \/ StopAtEndGroup
  \/ SkipField
  \/ Return

-----------------------------------------------------------------------------
(* Properties.                                                             *)

Decoded == frames[1].message

(* A frame holds a message of its type, for a field of its caller's type.  *)
TypeOK ==
  /\ status \in {"reading", "returned", "threw"}
  /\ frames # << >>
  /\ \A i \in DOMAIN frames :
       /\ IsMessage(frames[i].type)
       /\ DOMAIN frames[i].message = FieldNames(frames[i].type)
       /\ i > 1 => FieldOf(frames[i - 1].type, frames[i].field).kind = frames[i].type

(* The decoders of nested messages share one reader.  None reads past the  *)
(* end its caller gave it, ends nest, and a nested decode returns with the *)
(* reader exactly at its end, so the caller continues at its own next tag. *)
NestedReadsStayInside ==
  /\ \A i \in DOMAIN frames : pos <= frames[i].end
  /\ \A i \in 2 .. Len(frames) : frames[i].end <= frames[i - 1].end
  /\ status = "returned" => pos = frames[1].end

(* What decode makes of a wire is what the wire means, and it means        *)
(* nothing else: nested messages come out as if each had been read alone.  *)
(* decode throws if and only if there is an integer that a JavaScript      *)
(* number cannot hold, in the message or in one that is nested in it.      *)
DecodesTheMeaning ==
  LET type == frames[1].type
  IN  /\ status = "returned" =>
           ~HasUnsafe(wire, type) /\ \A message : Means(wire, type, message) <=> message = Decoded
      /\ status = "threw" => HasUnsafe(wire, type)

-----------------------------------------------------------------------------
(* The loop over any message there may be on the wire: what it does does   *)
(* not depend on who wrote it.                                             *)

DecodeInit == \E type \in DOMAIN Types : IsWire(wire, type) /\ Start(type)

DecodeSpec == DecodeInit /\ [][Decode]_readerVars
===============================================================================
