---- MODULE MCMessageReader ----
(* Model checking MessageReader for every message type of the web client. *)
EXTENDS MessageReader, DescriptorMessages, ServiceMessages
MCTypes == DescriptorTypes @@ ServiceTypes
MCEnums == DescriptorEnums
AllTypes == DOMAIN MCTypes
MCStyles == {"own", "literal", "plain", "reversed", "packed", "mixed", "interleaved", "overwritten",
  "mistyped", "unknown varint", "unknown fixed64", "unknown bytes", "unknown group", "in a group"}
====
