---- MODULE MCEchoSystem ----
(* Model checking EchoSystem: each message as the input may hold it. *)
EXTENDS EchoSystem, TLC
MCTrim == " hi " :> "hi" @@ "ho" :> "ho" @@ "" :> "blank"
MCTexts == DOMAIN MCTrim
NoText == "" :> "blank"
====
