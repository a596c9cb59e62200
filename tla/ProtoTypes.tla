------------------------------- MODULE ProtoTypes -------------------------------
(***************************************************************************)
(* The message types of web/src/generated and what every one of their      *)
(* functions goes by: the table of fields of each type, the defaults of    *)
(* createBase, the wire type of a kind, and the way a 64-bit integer       *)
(* becomes a JavaScript number.                                            *)
(*                                                                         *)
(* Numbers are integers, of which Math.round is the identity.              *)
(***************************************************************************)
EXTENDS ProtoFields

CONSTANTS Types,       \* of each message type its fields, in the order of encode
          Enums,       \* of each enumeration its names and their numbers
          Throw,       \* the outcome of a function that throws
          MaxSafe      \* Number.MAX_SAFE_INTEGER, scaled down

IsMessage(kind) == kind \in DOMAIN Types
IsEnum(kind) == kind \in DOMAIN Enums

FieldNames(type) == {Types[type][i].name : i \in DOMAIN Types[type]}
FieldOf(type, name) ==
  Types[type][CHOOSE i \in DOMAIN Types[type] : Types[type][i].name = name]

createBase(type) == [n \in FieldNames(type) |-> FieldOf(type, n).def]

WireType(kind) ==
  CASE kind = "double" -> 1
    [] IsMessage(kind) \/ kind \in {"string", "bytes"} -> 2
    [] OTHER -> 0

\* message.name = v, or message.name.push(v).
Store(message, f, v) ==
  [message EXCEPT ![f.name] = IF IsList(f) THEN Append(@, v) ELSE v]

\* globalThis.Number of an integer: beyond MaxSafe a double holds the even ones only.
Number64(n) == IF n > MaxSafe \/ n < -MaxSafe THEN 2 * (n \div 2) ELSE n

\* Number(int64.toString()) and its two bounds.  The mutant checks the upper one only.
longToNumber_Above(n) == IF Number64(n) > MaxSafe THEN Throw ELSE Number64(n)
longToNumber(n) ==
  IF Number64(n) > MaxSafe \/ Number64(n) < -MaxSafe THEN Throw ELSE Number64(n)

-----------------------------------------------------------------------------
Long == {"uint64", "int64"}

\* What the generator made sure of: the fields of a type have names and numbers of
\* their own, a list begins empty, messages come singly or in a list of their own,
\* and only numbers that are no 64-bit integers may come in one block.  A double
\* holds every integer up to an odd bound.
ASSUME TypesAssumption ==
  /\ MaxSafe \in Nat /\ MaxSafe % 2 = 1
  /\ Throw \notin Int
  /\ (Long \cup {"double"}) \cap DOMAIN Types = {}
  /\ \A type \in DOMAIN Types : \A i \in DOMAIN Types[type] :
       LET f == Types[type][i]
       IN  /\ f.no \in Nat \ {0}
           /\ IsList(f) => f.def = << >>
           /\ IsMessage(f.kind) => f.label \in {"message", "repeated"}
           /\ f.label \in {"numbers", "packed"} => WireType(f.kind) # 2 /\ f.kind \notin Long
           /\ \A j \in DOMAIN Types[type] \ {i} :
                Types[type][j].name # f.name /\ Types[type][j].no # f.no
===============================================================================
