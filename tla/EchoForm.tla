-------------------------------- MODULE EchoForm --------------------------------
(***************************************************************************)
(* The form of the web application (App.tsx): a text, a button and the     *)
(* answer of the last call of Echo.  React commits the state a click or a  *)
(* key leaves before the next event of the page, so an action is an event  *)
(* with its rendering; the continuation of `await callEcho` sets the       *)
(* answer and clears loading in one.  A text stands for a class of inputs: *)
(* trim[t] is the message it holds, or Blank.                              *)
(***************************************************************************)
EXTENDS Greeter

CONSTANTS Texts, trim, Blank, Form

ASSUME FormAssumption == trim \in [Texts -> Messages \cup {Blank}] /\ Blank \notin Messages

VARIABLES message,    \* what the input holds
          response,   \* the message of the EchoReply, or "none"
          error,      \* an error is shown
          loading,
          pending     \* the index of the call that is awaited, 0 if there is none

formVars == <<message, response, error, loading, pending>>

FormInit ==
  /\ message \in {t \in Texts : trim[t] = Blank}
  /\ response = "none"
  /\ error = FALSE
  /\ loading = FALSE
  /\ pending = 0

\* What `call` sends.  The mutant sends the text as it stands in the input.
Sent_Untrimmed(text) == text
Sent(text) == trim[text]

\* The input and the button are enabled.
Enabled_Always == TRUE
Enabled == ~loading

\* The response while a call is under way; the mutant keeps the one before.
Cleared_Kept == response
Cleared == "none"

\* The input is disabled while loading.
Change(text) ==
  /\ Enabled
  /\ message' = text
  /\ UNCHANGED <<response, error, loading, pending, calls, serverVars>>

\* `call`: the key Enter in the input, or the button.  Blank messages are not sent.
Submit ==
  /\ Enabled
  /\ trim[message] # Blank
  /\ Len(calls) < MaxCalls
  /\ loading' = TRUE
  /\ error' = FALSE
  /\ response' = Cleared
  /\ calls' = Append(calls, NewCall(Form, Sent(message)))
  /\ pending' = Len(calls')
  /\ UNCHANGED <<message, serverVars>>

\* `finally { setLoading(false) }`.  The mutant has it after the try.
LoadingAfter_NoFinally(failed) == failed
LoadingAfter(failed) == FALSE

\* The awaited call is over: setResponse or setError, and finally setLoading(false).
TakeEcho ==
  /\ pending # 0
  /\ ~Waiting(pending)
  /\ response' = IF calls[pending].answer = "reply" THEN calls[pending].reply ELSE response
  /\ error' = (calls[pending].answer = "error")
  /\ loading' = LoadingAfter(error')
  /\ pending' = 0
  /\ UNCHANGED <<message, calls, serverVars>>

FormStep == (\E text \in Texts : Change(text)) \/ Submit \/ TakeEcho

-----------------------------------------------------------------------------
(* Properties.                                                             *)

FormCalls == {i \in DOMAIN calls : calls[i].client = Form}

(* Answers cannot overtake each other: at most one call of the form is in  *)
(* flight, the form is loading exactly as long as it is, and neither the   *)
(* Enter key nor the button starts a second one.                           *)
OneCallInFlight ==
  /\ \A i \in FormCalls : Waiting(i) => i = pending
  /\ loading = (pending # 0)

(* What is shown is the outcome of the latest call and of no other: its    *)
(* own message, or an error and no stale response.                         *)
ShowsLatest ==
  /\ ~(error /\ response # "none")
  /\ loading => response = "none" /\ ~error
  /\ ~loading /\ FormCalls # {} =>
       LET last == CHOOSE i \in FormCalls : \A j \in FormCalls : j <= i
       IN  IF calls[last].answer = "reply" THEN response = calls[last].message /\ ~error
           ELSE error /\ response = "none"

(* The form becomes usable again after every call.                         *)
FormUsableAgain == loading ~> ~loading
===============================================================================
