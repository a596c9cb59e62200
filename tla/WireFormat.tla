------------------------------- MODULE WireFormat -------------------------------
(***************************************************************************)
(* What a sequence of units means to a reader that knows the message       *)
(* types, whoever wrote it: the part of Protocol Buffers the decode        *)
(* functions rely on, said without a loop and without a stack.             *)
(*                                                                         *)
(* The wire is a sequence of units.  A unit is a tag (8 * number + wire    *)
(* type), a length (counted in units), a number or a piece of text: the    *)
(* byte form of a unit is BinaryWriter's and BinaryReader's affair and     *)
(* external.                                                               *)
(***************************************************************************)
EXTENDS ProtoTypes

\* The end of the group that goes on at p: its end-group tag, groups inside skipped.
EndOfGroup(w, p) ==
  LET end[q \in Nat] ==
        CASE w[q] % 8 = 4 -> q + 1
          [] w[q] % 8 = 3 -> end[end[q + 1]]
          [] w[q] % 8 = 2 -> end[q + 2 + w[q + 1]]
          [] OTHER -> end[q + 2]
  IN  end[p]

\* The position after the field whose tag is at p.
FieldEnd(w, p) ==
  CASE w[p] % 8 = 2 -> p + 2 + w[p + 1]
    [] w[p] % 8 = 3 -> EndOfGroup(w, p + 1)
    [] OTHER -> p + 2

\* A tag that ends a message that was sent as a group.
EndsGroup(w, p) == w[p] % 8 = 4 \/ w[p] = 0

\* The fields of the type that the tag at p may begin: with the wire type of their
\* kind or, for a list of numbers, as a block.
IsBlock(f, w, p) == f.label \in {"numbers", "packed"} /\ w[p] % 8 = 2
FieldsAt(w, p, type) ==
  {f \in {Types[type][i] : i \in DOMAIN Types[type]} :
     f.no = w[p] \div 8 /\ (w[p] % 8 = WireType(f.kind) \/ IsBlock(f, w, p))}

-----------------------------------------------------------------------------
(* Well-formed wires.  A place is where a reader may be: in a message of   *)
(* the type, which ends at `end` and is the outermost one or not.          *)

Inside(s, kind, next) == [type |-> kind, at |-> s.at + 2, end |-> next, outer |-> FALSE]

\* At every place that is not the end of its message there is a field that ends
\* in the message, nested messages included, and a place after it.
AreWellFormed(w, places) ==
  \A s \in places : s.at < s.end =>
    /\ w[s.at] \in Nat
    /\ IF EndsGroup(w, s.at) THEN s.outer
       ELSE /\ FieldEnd(w, s.at) \in s.at + 2 .. s.end
            /\ [s EXCEPT !.at = FieldEnd(w, s.at)] \in places
            /\ \A f \in FieldsAt(w, s.at, s.type) :
                 /\ f.kind \in Long => w[s.at + 1] \in Int
                 /\ IsMessage(f.kind) => Inside(s, f.kind, FieldEnd(w, s.at)) \in places

Outermost(w, type) == [type |-> type, at |-> 1, end |-> Len(w) + 1, outer |-> TRUE]

IsWire(w, type) ==
  /\ Len(w) \in Nat
  /\ \E places : AreWellFormed(w, places) /\ Outermost(w, type) \in places

-----------------------------------------------------------------------------
(* What a wire means.  A reading is a place and the message read so far    *)
(* from `start` on.  The readings of a wire are those that follow from the *)
(* first one by the rules of Closed: a reading is one if it is in every    *)
(* set of readings that is closed and has the first.                       *)

\* The value of the scalar field whose tag is at p; text of no length is "".
ValueAt(w, p, kind) ==
  IF kind \in {"string", "bytes"} /\ w[p + 1] = 0 THEN ""
  ELSE IF kind \in {"string", "bytes"} THEN w[p + 2]
  ELSE w[p + 1]

\* A JavaScript number holds it exactly.
IsSafe(kind, v) == kind \in Long => v \in -MaxSafe .. MaxSafe

Past(w, r, message) == [r EXCEPT !.at = FieldEnd(w, r.at), !.message = message]

\* A nested message is read from its own beginning, whatever surrounds it.
Nested(w, r, kind) ==
  [type |-> kind, start |-> r.at + 2, at |-> r.at + 2, end |-> FieldEnd(w, r.at),
   message |-> createBase(kind)]
Completes(q, w, r, kind) ==
  q.type = kind /\ q.start = r.at + 2 /\ q.end = FieldEnd(w, r.at) /\ q.at = q.end

\* What follows from the reading r, at the field f.
FieldRule(w, readings, r, f) ==
  IF IsMessage(f.kind)
  THEN /\ Nested(w, r, f.kind) \in readings
       /\ \A q \in readings :
            Completes(q, w, r, f.kind) => Past(w, r, Store(r.message, f, q.message)) \in readings
  ELSE IF IsBlock(f, w, r.at)
  THEN LET block == SubSeq(w, r.at + 2, FieldEnd(w, r.at) - 1)
       IN  Past(w, r, [r.message EXCEPT ![f.name] = @ \o block]) \in readings
  ELSE LET v == ValueAt(w, r.at, f.kind)
       IN  IsSafe(f.kind, v) => Past(w, r, Store(r.message, f, v)) \in readings

Rule(w, readings, r) ==
  IF EndsGroup(w, r.at) THEN [r EXCEPT !.at = r.at + 1, !.end = r.at + 1] \in readings
  ELSE /\ FieldsAt(w, r.at, r.type) = {} => Past(w, r, r.message) \in readings
       /\ \A f \in FieldsAt(w, r.at, r.type) : FieldRule(w, readings, r, f)

IsComplete(r) == r.at >= r.end

Closed(w, readings) == \A r \in readings : IsComplete(r) \/ Rule(w, readings, r)

First(w, type) ==
  [type |-> type, start |-> 1, at |-> 1, end |-> Len(w) + 1, message |-> createBase(type)]

IsReading(w, type, r) ==
  \A readings : Closed(w, readings) /\ First(w, type) \in readings => r \in readings

\* The wire means the message: it is that of a complete reading from the beginning.
Means(w, type, message) ==
  \E end \in Nat :
    IsReading(w, type, [type |-> type, start |-> 1, at |-> end, end |-> end, message |-> message])

\* The reading is at an integer that no JavaScript number holds.
IsUnsafe(w, r) ==
  /\ ~IsComplete(r) /\ ~EndsGroup(w, r.at)
  /\ \E f \in FieldsAt(w, r.at, r.type) : ~IsSafe(f.kind, ValueAt(w, r.at, f.kind))

HasUnsafe(w, type) == \E r : IsReading(w, type, r) /\ IsUnsafe(w, r)
===============================================================================
