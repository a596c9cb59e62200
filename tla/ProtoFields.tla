------------------------------ MODULE ProtoFields ------------------------------
(***************************************************************************)
(* The field forms of the generated message types: every field of every    *)
(* type under web/src/generated is one of these.  A field is its number,   *)
(* its name, its kind (a scalar kind, or the name of an enumeration or of  *)
(* a message type), its label and the value createBase gives it.           *)
(*                                                                         *)
(*   "implicit"  proto3: written unless it has its default                 *)
(*   "optional"  proto2: written unless undefined or the default           *)
(*   "member"    of a oneof: written unless undefined, even if empty       *)
(*   "message"   a sub-message: undefined until one is read                *)
(*   "repeated"  a list whose elements are length-delimited                *)
(*   "numbers"   a list written element by element, read in both forms     *)
(*   "packed"    a list written as one block, read in both forms           *)
(***************************************************************************)
EXTENDS Integers, Sequences

CONSTANT Undefined      \* JavaScript's undefined

Field(no, name, kind, label, default) ==
  [no |-> no, name |-> name, kind |-> kind, label |-> label, def |-> default]

Scalar(no, name, kind, default) == Field(no, name, kind, "optional", default)
Text(no, name)               == Scalar(no, name, "string", "")
Number(no, name)             == Scalar(no, name, "int32", 0)
Flag(no, name)               == Scalar(no, name, "bool", FALSE)
Choice(no, name, enum, default) == Scalar(no, name, enum, default)
Text3(no, name)              == Field(no, name, "string", "implicit", "")
Flag3(no, name)              == Field(no, name, "bool", "implicit", FALSE)
Member(no, name)             == Field(no, name, "string", "member", Undefined)
Message(no, name, type)      == Field(no, name, type, "message", Undefined)
Repeated(no, name, kind)     == Field(no, name, kind, "repeated", << >>)
Numbers(no, name, kind)      == Field(no, name, kind, "numbers", << >>)
Packed(no, name)             == Field(no, name, "int32", "packed", << >>)

IsList(f) == f.label \in {"repeated", "numbers", "packed"}
===============================================================================
