------------------------------ MODULE MessageReader ------------------------------
(***************************************************************************)
(* Reading a message that somebody wrote: the loop of DecodeLoop over what *)
(* a writer of MessageWriters puts on the wire.                            *)
(*                                                                         *)
(* What is read was written by this client or by some other implementation *)
(* of Protocol Buffers (the Go server, a newer client).  The latter is     *)
(* external: the styles below are the liberties the format gives a writer, *)
(* all of them legal.                                                      *)
(***************************************************************************)
EXTENDS MessageWriters, DecodeLoop

CONSTANTS ReadTypes,   \* the message types a run reads
          Styles,      \* the ways of writing a run considers
          MaxSet       \* how many fields of the outermost message, neighbours, are set (bound)

VARIABLE written       \* [type, given, style]: the fields that were set, and how they were written

vars == <<written, readerVars>>

\* The fields that are set, neighbours, with a sample of each.
Givens(type) ==
  LET fields == DOMAIN Types[type]
      index(n) == CHOOSE i \in fields : Types[type][i].name = n
      sample(i) == FieldSamples(Types[type][i])
      chosen == {first .. first + size - 1 : first \in 1 .. Len(Types[type]) + 1, size \in 0 .. MaxSet}
      picks(c) == {pick \in [c -> 1 .. 4] : \A i \in c : pick[i] <= Len(sample(i))}
  IN  UNION {{[n \in {Types[type][i].name : i \in c} |-> sample(index(n))[pick[index(n)]]] :
                pick \in picks(c)} : c \in chosen \cap SUBSET fields}

Init ==
  /\ \E type \in ReadTypes, style \in Styles : \E given \in Givens(type) :
       written = [type |-> type, given |-> given, style |-> style]
  /\ wire = Written(written.type, written.given, written.style)
  /\ Start(written.type)

Next == Decode /\ UNCHANGED written

\* JavaScript runs a call of decode to its end.
Spec == Init /\ [][Next]_vars /\ WF_vars(Next)

-----------------------------------------------------------------------------
(* Every wire of a run is one that DecodeLoop has in mind.                 *)

RECURSIVE PlacesFrom(_, _)
PlacesFrom(w, s) ==
  {s} \cup
    IF s.at >= s.end \/ EndsGroup(w, s.at) THEN {}
    ELSE LET next == FieldEnd(w, s.at)
             nested == {f \in FieldsAt(w, s.at, s.type) : IsMessage(f.kind)}
         IN  PlacesFrom(w, [s EXCEPT !.at = next])
               \cup UNION {PlacesFrom(w, Inside(s, f.kind, next)) : f \in nested}

ASSUME WritersAreLegal ==
  \A type \in ReadTypes, style \in Styles : \A given \in Givens(type) :
    LET w == Written(type, given, style)
    IN  AreWellFormed(w, PlacesFrom(w, Outermost(w, type)))

-----------------------------------------------------------------------------
(* Properties.                                                             *)

(* Whatever liberty the writer took - other order, other packing, fields   *)
(* written twice, interleaved lists, fields this client does not know or   *)
(* knows with another type, defaults written out, a message in a group -   *)
(* decode returns the message of the fields that were set, which is the    *)
(* one create makes of them.                                               *)
DecodedIsWhatWasWritten ==
  status = "returned" => Decoded = fromPartial(written.type, written.given)

RECURSIVE HoldsUnsafe(_, _)
HoldsUnsafe(type, given) ==
  \E n \in DOMAIN given :
    LET f == FieldOf(type, n)
        unsafe(v) == CASE f.kind \in Long -> v \notin -MaxSafe .. MaxSafe
                       [] IsMessage(f.kind) -> HoldsUnsafe(f.kind, v)
                       [] OTHER -> FALSE
    IN  IF IsList(f) THEN \E i \in DOMAIN given[n] : unsafe(given[n][i]) ELSE unsafe(given[n])

(* A 64-bit integer that a JavaScript number cannot hold exactly, however  *)
(* deep in the message, makes decode throw; nothing else does, and no      *)
(* message with a rounded integer is ever returned.                        *)
ThrowsExactlyOnUnsafeIntegers ==
  /\ status = "threw" => HoldsUnsafe(written.type, written.given)
  /\ status = "returned" => ~HoldsUnsafe(written.type, written.given)

(* Enumeration numbers this client does not know become UNRECOGNIZED (-1)  *)
(* in JSON; everything else survives.                                      *)
RECURSIVE Recognised(_, _)
Recognised(type, m) ==
  [n \in DOMAIN m |->
    LET f == FieldOf(type, n)
        seen(v) == CASE IsMessage(f.kind) -> Recognised(f.kind, v)
                     [] IsEnum(f.kind) -> IF v \in Range(Enums[f.kind]) THEN v ELSE -1
                     [] OTHER -> v
    IN  IF m[n] = Undefined THEN Undefined
        ELSE IF IsList(f) THEN [i \in DOMAIN m[n] |-> seen(m[n][i])] ELSE seen(m[n])]

(* toJSON leaves the defaults out, decode and fromJSON put them in: a      *)
(* message that came over the wire survives a trip through JSON.  The      *)
(* tables have one default per field, which the generator writes out in    *)
(* every function; that these copies agree is read off the code, not       *)
(* checked.                                                                *)
JsonRoundTrip ==
  status = "returned" => fromJSON(written.type, toJSON(written.type, Decoded)) = Recognised(written.type, Decoded)

(* The gateway answers in JSON, the server in Protocol Buffers: the same   *)
(* fields make the same message either way, in both spellings of JSON.     *)
JsonAgreesWithWire ==
  status = "returned" =>
    \A spelling \in {"camel", "snake"} :
      fromJSON(written.type, PeerJSON(written.type, written.given, spelling))
        = Recognised(written.type, Decoded)

(* Every turn of a decode loop moves the reader or ends a call, so reading *)
(* ends.                                                                   *)
DecodeEnds == <>(status # "reading")
===============================================================================
